------------------------ MODULE ViewportManagerProofs ------------------------
(***************************************************************************)
(* What the viewport manager promises of a window, for any panes, shapes,  *)
(* sizes and desktop clients, whatever events an instance allows.          *)
(*                                                                         *)
(* Commands may fail anywhere, so a handler has many ends.  What each of   *)
(* them keeps is shown once for a sequence of commands (EndsKeep, by       *)
(* induction on its length), then for the parts of the handlers, then for  *)
(* the handlers: types, moves of the lease and the view of the desktop     *)
(* (Proper) hold whatever fails.                                           *)
(*                                                                         *)
(* That the window and its clients go back needs every command to do its   *)
(* work: the code has no other memory of what it borrowed.  When nothing   *)
(* fails, a sequence has one end (Run), and the invariant Handing says     *)
(* that the lease knows what it has to give back.                          *)
(***************************************************************************)
EXTENDS ViewportManager, FiniteSetTheorems, WellFoundedInduction, TLAPS

-----------------------------------------------------------------------------
(* Numbers                                                                 *)
(*                                                                         *)
(* The commands of a handler run one after the other: what they do to the  *)
(* window is by induction on their number, for the set of the numbers it   *)
(* holds of.                                                               *)

LEMMA LeastNumber ==
  ASSUME NEW T \in SUBSET Nat, T # {}
  PROVE  \E m \in T : \A k \in T : m <= k
<1> DEFINE R == OpToRel(<, Nat)
<1>1. IsWellFoundedOn(R, Nat) BY NatLessThanWellFounded
<1>2. \E m \in T : \A k \in T : ~(<<k, m>> \in R)
  <2> HIDE DEF R
  <2> QED BY <1>1, WFMin
<1>3. \A m, k \in Nat : k < m => <<k, m>> \in R BY DEF OpToRel
<1> HIDE DEF R
<1>4. PICK m \in T : \A k \in T : ~(<<k, m>> \in R) BY <1>2
<1>5. \A k \in T : ~(k < m)
  <2> TAKE k \in T
  <2> QED BY <1>3, <1>4
<1> QED BY <1>5

LEMMA SetInduction ==
  ASSUME NEW S, 0 \in S, \A n \in Nat : n \in S => n + 1 \in S
  PROVE  Nat \subseteq S
<1> DEFINE T == {n \in Nat : n \notin S}
<1>1. SUFFICES ASSUME T # {} PROVE FALSE OBVIOUS
<1>2. PICK m \in T : \A k \in T : m <= k BY <1>1, LeastNumber
<1>3. m # 0 /\ m - 1 \in Nat /\ m - 1 \notin T BY <1>2
<1> QED BY <1>2, <1>3

\* A finite set of numbers has a bound.
LEMMA Bounded ==
  ASSUME NEW S \in SUBSET Nat, IsFiniteSet(S)
  PROVE  \E b \in Nat : \A x \in S : x <= b
<1> DEFINE B == {n \in Nat : \A f \in [1..n -> Nat] :
                    \E b \in Nat : \A i \in 1..n : f[i] <= b}
<1>1. 0 \in B OBVIOUS
<1>2. \A n \in Nat : n \in B => n + 1 \in B
  <2> SUFFICES ASSUME NEW n \in Nat, n \in B PROVE n + 1 \in B
    OBVIOUS
  <2>1. SUFFICES ASSUME NEW f \in [1..(n + 1) -> Nat]
                 PROVE  \E b \in Nat : \A i \in 1..(n + 1) : f[i] <= b
    <3> n + 1 \in Nat OBVIOUS
    <3> QED OBVIOUS
  <2>2. [i \in 1..n |-> f[i]] \in [1..n -> Nat] OBVIOUS
  <2>3. PICK b \in Nat : \A i \in 1..n : [j \in 1..n |-> f[j]][i] <= b
    BY <2>2
  <2>4. \A i \in 1..n : f[i] <= b BY <2>3
  <2>5. f[n + 1] \in Nat OBVIOUS
  <2>6. PICK c \in Nat : b <= c /\ f[n + 1] <= c
    <3>1. CASE b <= f[n + 1] BY <2>5, <3>1
    <3>2. CASE ~(b <= f[n + 1]) BY <2>5, <3>2
    <3> QED BY <3>1, <3>2
  <2>7. \A i \in 1..(n + 1) : f[i] <= c
    <3> SUFFICES ASSUME NEW i \in 1..(n + 1) PROVE f[i] <= c
      OBVIOUS
    <3>1. CASE i = n + 1 BY <2>6, <3>1
    <3>2. CASE i # n + 1
      <4>1. i \in 1..n /\ f[i] \in Nat BY <3>2
      <4> QED BY <2>4, <2>6, <4>1
    <3> QED BY <3>1, <3>2
  <2> QED BY <2>7
<1>3. Nat \subseteq B
  <2> HIDE DEF B
  <2> QED BY <1>1, <1>2, SetInduction
<1>4. PICK n \in Nat : ExistsSurjection(1..n, S) BY FS_NatSurjection
<1>5. PICK f \in Surjection(1..n, S) : TRUE BY <1>4 DEF ExistsSurjection
<1>6. f \in [1..n -> S] /\ \A x \in S : \E i \in 1..n : f[i] = x
  BY <1>5 DEF Surjection
<1>7. f \in [1..n -> Nat] /\ n \in Nat BY <1>4, <1>6
<1>8. PICK b \in Nat : \A i \in 1..n : f[i] <= b BY <1>3, <1>7
<1> QED BY <1>6, <1>8

\* So it has a largest and a smallest element.
LEMMA Extremes ==
  ASSUME NEW S \in SUBSET Nat, IsFiniteSet(S), S # {}
  PROVE  /\ \E z \in S : \A y \in S : y <= z
         /\ \E z \in S : \A y \in S : z <= y
<1>1. \E z \in S : \A y \in S : z <= y BY LeastNumber
<1>2. \E z \in S : \A y \in S : y <= z
  <2> DEFINE T == {b \in Nat : \A x \in S : x <= b}
  <2>1. T # {} BY Bounded
  <2>2. PICK m \in T : \A k \in T : m <= k
    <3>1. T \in SUBSET Nat OBVIOUS
    <3> HIDE DEF T
    <3> QED BY <2>1, <3>1, LeastNumber
  <2>3. CASE m \in S BY <2>3
  <2>4. CASE m \notin S
    <3>1. \A x \in S : x < m BY <2>4
    <3>2. PICK x \in S : x < m BY <3>1
    <3>3. m \in Nat /\ m - 1 \in Nat BY <3>2
    <3>4. m - 1 \in T BY <3>1, <3>3
    <3> QED BY <2>2, <3>3, <3>4
  <2> QED BY <2>3, <2>4
<1> QED BY <1>1, <1>2
-----------------------------------------------------------------------------
(* The commands of tmux *)

\* The commands the handlers give.
Commands ==
  [do : {"mouse"}, arg : {"on", "off"}]
    \cup [do : {"policy"}, arg : {"latest", "largest", "smallest", "manual"}]
    \cup [do : {"resize"}, arg : Sizes]
    \cup [do : {"layout"}, arg : Shapes]
    \cup [do : {"select", "zoom", "read"}, arg : Panes]
    \cup [do : {"fit"}, arg : {"largest", "smallest"}]

\* What the commands on a window do while there are none left to fail.
LEMMA StagesUnfold ==
  ASSUME NEW w, NEW cmds, Len(cmds) \in Nat
  PROVE  Stages(w, cmds) =
           [i \in 0..Len(cmds) |-> IF i = 0 THEN w
                                   ELSE Apply(Stages(w, cmds)[i - 1], cmds[i])]
<1> DEFINE Upto(n, s) ==
             s = [i \in 0..n |-> IF i = 0 THEN w ELSE Apply(s[i - 1], cmds[i])]
           N == {n \in Nat : \E s : Upto(n, s)}
<1>1. 0 \in N
  <2>1. Upto(0, [i \in 0..0 |-> w]) OBVIOUS
  <2> QED BY <2>1
<1>2. \A n \in Nat : n \in N => n + 1 \in N
  <2> SUFFICES ASSUME NEW n \in Nat, n \in N PROVE n + 1 \in N
    OBVIOUS
  <2>1. PICK s : Upto(n, s) OBVIOUS
  <2> DEFINE t == [i \in 0..(n + 1) |-> IF i = n + 1 THEN Apply(s[n], cmds[i])
                                        ELSE s[i]]
  <2>2. \A i \in 0..n : s[i] = IF i = 0 THEN w ELSE Apply(s[i - 1], cmds[i])
    BY <2>1
  <2>3. \A i \in 0..(n + 1) :
          t[i] = IF i = 0 THEN w ELSE Apply(t[i - 1], cmds[i])
    <3> SUFFICES ASSUME NEW i \in 0..(n + 1)
                 PROVE  t[i] = IF i = 0 THEN w ELSE Apply(t[i - 1], cmds[i])
      OBVIOUS
    <3>1. CASE i = n + 1
      <4>1. t[n] = s[n] /\ n + 1 # 0 /\ i - 1 = n BY <3>1
      <4> QED BY <3>1, <4>1
    <3>2. CASE i = 0 BY <2>2, <3>2
    <3>3. CASE i # 0 /\ i # n + 1
      <4>1. i \in 0..n /\ i - 1 \in 0..n BY <3>3
      <4>2. t[i] = s[i] /\ t[i - 1] = s[i - 1] BY <4>1
      <4> QED BY <2>2, <3>3, <4>1, <4>2
    <3> QED BY <3>1, <3>2, <3>3
  <2>4. Upto(n + 1, t)
    <3> HIDE DEF t
    <3>1. t = [i \in 0..(n + 1) |-> t[i]] BY DEF t
    <3> QED BY <2>3, <3>1
  <2>5. n + 1 \in Nat OBVIOUS
  <2> HIDE DEF Upto, t
  <2> QED BY <2>4, <2>5
<1>3. Len(cmds) \in N
  <2> HIDE DEF N
  <2> QED BY <1>1, <1>2, SetInduction
<1> DEFINE P(s) == Upto(Len(cmds), s)
<1>4. \E s : P(s) BY <1>3
<1>5. Stages(w, cmds) = CHOOSE s : P(s) BY DEF Stages
<1>6. P(CHOOSE s : P(s))
  <2> HIDE DEF P
  <2> QED BY <1>4
<1> QED BY <1>5, <1>6
-----------------------------------------------------------------------------
(* What a command, and a sequence of them, does to a window *)

\* The sizes the window may follow.
LEMMA ClientSizesTyped ==
  ASSUME TypeOK
  PROVE  ClientSizes \in SUBSET Sizes /\ IsFiniteSet(ClientSizes)
<1>1. ClientSizes \in SUBSET Sizes
  BY NoneAssumption DEF ClientSizes, Here, TypeOK, Leases
<1>2. IsFiniteSet(Sizes) BY SizesAssumption
<1> QED BY <1>1, <1>2, FS_Subset

LEMMA FittedTyped ==
  ASSUME TypeOK, NEW p, NEW z \in Sizes
  PROVE  FittedSize(p, z) \in Sizes
<1>1. CASE ClientSizes = {} BY <1>1 DEF FittedSize
<1>2. CASE ClientSizes # {}
  <2> DEFINE C == ClientSizes
  <2>1. C \in SUBSET Sizes /\ IsFiniteSet(C) /\ C # {}
    BY <1>2, ClientSizesTyped
  <2>2. C \in SUBSET Nat BY <2>1, SizesAssumption
  <2>3. /\ \E x \in C : \A y \in C : y <= x
        /\ \E x \in C : \A y \in C : x <= y
    <3> HIDE DEF C
    <3> QED BY <2>1, <2>2, Extremes
  <2>4. Largest \in C /\ Smallest \in C
    <3> HIDE DEF C
    <3>1. Largest = CHOOSE x \in C : \A y \in C : y <= x BY DEF Largest, C
    <3>2. Smallest = CHOOSE x \in C : \A y \in C : x <= y BY DEF Smallest, C
    <3> QED BY <2>3, <3>1, <3>2
  <2>5. FittedSize(p, z) \in C
    <3> HIDE DEF C
    <3> QED BY <1>2, <2>4 DEF FittedSize
  <2> QED BY <2>1, <2>5
<1> QED BY <1>1, <1>2

\* The commands that leave the layout of the window alone, and its focus.
Outer == {k \in Commands : k.do \in {"mouse", "policy", "resize", "read", "fit"}}

SameView(v, w) == v.shape = w.shape /\ v.active = w.active /\ v.zoomed = w.zoomed

LEMMA ApplyTyped ==
  ASSUME TypeOK, NEW w \in Windows, NEW k \in Commands
  PROVE  /\ Apply(w, k) \in Windows
         /\ k \in Outer => SameView(Apply(w, k), w)
<1> USE DEF Windows, Outer, SameView
<1>1. CASE k \in [do : {"mouse"}, arg : {"on", "off"}]
  BY <1>1 DEF Apply
<1>2. CASE k \in [do : {"policy"},
                  arg : {"latest", "largest", "smallest", "manual"}]
  BY <1>2 DEF Apply
<1>3. CASE k \in [do : {"resize"}, arg : Sizes]
  BY <1>3 DEF Apply
<1>4. CASE k \in [do : {"layout"}, arg : Shapes]
  BY <1>4 DEF Apply
<1>5. CASE k \in [do : {"select", "zoom", "read"}, arg : Panes]
  <2> DEFINE z == w.zoomed /\ w.active = k.arg
  <2>1. z \in BOOLEAN OBVIOUS
  <2>2. k.do = "select" => Apply(w, k) = [w EXCEPT !.active = k.arg, !.zoomed = z]
    BY DEF Apply
  <2>3. k.do = "select" => Apply(w, k) \in Windows
    <3> HIDE DEF z
    <3> QED BY <1>5, <2>1, <2>2
  <2>4. k.do = "zoom" => Apply(w, k) \in Windows BY DEF Apply
  <2>5. k.do = "read" => Apply(w, k) = w BY DEF Apply
  <2> HIDE DEF z
  <2> QED BY <1>5, <2>3, <2>4, <2>5
<1>6. CASE k \in [do : {"fit"}, arg : {"largest", "smallest"}]
  <2> DEFINE s == FittedSize(k.arg, w.size)
  <2>1. s \in Sizes BY FittedTyped
  <2>2. Apply(w, k) = [w EXCEPT !.size = s, !.policy = "manual"]
    BY <1>6 DEF Apply
  <2> HIDE DEF s
  <2> QED BY <2>1, <2>2
<1> QED BY <1>1, <1>2, <1>3, <1>4, <1>5, <1>6 DEF Commands

\* What every command keeps, the commands of a handler keep.
LEMMA StagesKeep ==
  ASSUME NEW cmds, Len(cmds) \in Nat, NEW S, NEW w \in S,
         \A v \in S : \A i \in 1..Len(cmds) : Apply(v, cmds[i]) \in S
  PROVE  \A n \in 0..Len(cmds) : Stages(w, cmds)[n] \in S
<1> DEFINE s == Stages(w, cmds)
           N == {n \in Nat : n \in 0..Len(cmds) => s[n] \in S}
<1>1. \A i \in 0..Len(cmds) :
        s[i] = IF i = 0 THEN w ELSE Apply(s[i - 1], cmds[i])
  <2>1. s = [i \in 0..Len(cmds) |-> IF i = 0 THEN w
                                    ELSE Apply(s[i - 1], cmds[i])]
    BY StagesUnfold
  <2> HIDE DEF s
  <2> QED BY <2>1
<1> HIDE DEF s
<1>2. 0 \in N BY <1>1
<1>3. \A n \in Nat : n \in N => n + 1 \in N
  <2> SUFFICES ASSUME NEW n \in Nat, n \in N, n + 1 \in 0..Len(cmds)
               PROVE  s[n + 1] \in S
    OBVIOUS
  <2>1. n \in 0..Len(cmds) /\ n + 1 # 0 /\ (n + 1) - 1 = n /\ n + 1 \in 1..Len(cmds)
    OBVIOUS
  <2>2. s[n] \in S BY <2>1
  <2>3. s[n + 1] = Apply(s[n], cmds[n + 1]) BY <1>1, <2>1
  <2> QED BY <2>1, <2>2, <2>3
<1>4. Nat \subseteq N
  <2> HIDE DEF N
  <2> QED BY <1>2, <1>3, SetInduction
<1> QED BY <1>4 DEF s

\* The ways a sequence of commands may end.
Endings(S) == [win : S, done : BOOLEAN, fails : 0..MaxFailures]

LEMMA EndsKeep ==
  ASSUME NEW cmds, Len(cmds) \in Nat, NEW S, NEW w \in S, NEW f \in 0..MaxFailures,
         \A v \in S : \A i \in 1..Len(cmds) : Apply(v, cmds[i]) \in S
  PROVE  Ends(w, cmds, f) \subseteq Endings(S)
<1>1. \A n \in 0..Len(cmds) : Stages(w, cmds)[n] \in S BY StagesKeep
<1>2. f \in Nat /\ f + 1 \in Nat /\ MaxFailures \in Nat /\ f <= MaxFailures
      /\ (f < MaxFailures => f + 1 <= MaxFailures)
  BY FailuresAssumption
<1> SUFFICES ASSUME NEW e \in Ends(w, cmds, f) PROVE e \in Endings(S)
  OBVIOUS
<1> DEFINE stop(n) == n = Len(cmds) \/ ~Possible(cmds[n + 1])
<1>3. PICK n \in 0..Len(cmds) :
        /\ stop(n) \/ f < MaxFailures
        /\ e = [win |-> Stages(w, cmds)[n], done |-> n = Len(cmds),
                fails |-> IF stop(n) THEN f ELSE f + 1]
  BY DEF Ends
<1> DEFINE x == Stages(w, cmds)[n]
           d == n = Len(cmds)
           g == IF stop(n) THEN f ELSE f + 1
<1>4. x \in S BY <1>1
<1>5. d \in BOOLEAN OBVIOUS
<1>6. g \in 0..MaxFailures
  <2> HIDE DEF stop
  <2> QED BY <1>2, <1>3
<1>7. e = [win |-> x, done |-> d, fails |-> g] BY <1>3
<1> HIDE DEF x, d, g
<1> QED BY <1>4, <1>5, <1>6, <1>7 DEF Endings

LEMMA EndsTyped ==
  ASSUME TypeOK, NEW w \in Windows, NEW cmds \in Seq(Commands),
         NEW f \in 0..MaxFailures
  PROVE  Ends(w, cmds, f) \subseteq Endings(Windows)
<1>1. Len(cmds) \in Nat /\ \A i \in 1..Len(cmds) : cmds[i] \in Commands
  OBVIOUS
<1>2. \A v \in Windows : \A i \in 1..Len(cmds) : Apply(v, cmds[i]) \in Windows
  BY <1>1, ApplyTyped
<1> QED BY <1>1, <1>2, EndsKeep

\* Such commands do not change the view either.
LEMMA EndsOutside ==
  ASSUME TypeOK, NEW w \in Windows, NEW cmds \in Seq(Outer),
         NEW f \in 0..MaxFailures, NEW e \in Ends(w, cmds, f)
  PROVE  SameView(e.win, w)
<1> DEFINE S == {v \in Windows : SameView(v, w)}
<1>1. Len(cmds) \in Nat /\ \A i \in 1..Len(cmds) : cmds[i] \in Outer
  OBVIOUS
<1>2. \A v \in S : \A i \in 1..Len(cmds) : Apply(v, cmds[i]) \in S
  <2> SUFFICES ASSUME NEW v \in S, NEW i \in 1..Len(cmds)
               PROVE  Apply(v, cmds[i]) \in S
    OBVIOUS
  <2>1. cmds[i] \in Outer /\ cmds[i] \in Commands BY <1>1 DEF Outer
  <2>2. Apply(v, cmds[i]) \in Windows /\ SameView(Apply(v, cmds[i]), v)
    BY <2>1, ApplyTyped
  <2> QED BY <2>2 DEF SameView
<1>3. w \in S BY DEF SameView
<1>4. Ends(w, cmds, f) \subseteq Endings(S)
  <2> HIDE DEF S
  <2> QED BY <1>1, <1>2, <1>3, EndsKeep
<1> QED BY <1>4 DEF Endings
-----------------------------------------------------------------------------
(* The commands the handlers give *)

LEMMA Tuples ==
  ASSUME NEW S
  PROVE  /\ <<>> \in Seq(S)
         /\ \A a \in S : <<a>> \in Seq(S)
         /\ \A a, b \in S : <<a, b>> \in Seq(S)
         /\ \A a, b, c \in S : <<a, b, c>> \in Seq(S)
         /\ \A s, t \in Seq(S) : s \o t \in Seq(S)
OBVIOUS

LEMMA CommandsTyped ==
  /\ \A m \in {"on", "off"} : Mouse(m) \in Outer
  /\ \A p \in {"latest", "largest", "smallest", "manual"} : Policy(p) \in Outer
  /\ \A z \in Sizes : Resize(z) \in Outer
  /\ \A p \in {"largest", "smallest"} : Fit(p) \in Outer
  /\ \A p \in Panes : Read(p) \in Outer
  /\ \A s \in Shapes : Layout(s) \in Commands
  /\ \A p \in Panes : Select(p) \in Commands /\ Zoom(p) \in Commands
  /\ Outer \subseteq Commands
BY DEF Mouse, Policy, Resize, Fit, Read, Layout, Select, Zoom, Outer, Commands

LEMMA RestoreTyped ==
  ASSUME NEW s \in Windows, NEW z \in Sizes \cup {None}
  PROVE  Restore(s, z) \in Seq(Commands)
<1>1. /\ s.size \in Sizes /\ s.shape \in Shapes /\ s.active \in Panes
      /\ s.policy \in {"latest", "largest", "smallest", "manual"}
      /\ s.mouse \in {"on", "off"}
  BY DEF Windows
<1>2. RestoreSize(s, z) \in Seq(Commands)
  <2> DEFINE y == IF z = None THEN s.size ELSE z
  <2>1. y \in Sizes BY <1>1
  <2>2. /\ <<Resize(s.size)>> \in Seq(Commands)
        /\ <<Resize(y), Policy("latest")>> \in Seq(Commands)
        /\ s.policy \in {"largest", "smallest"} =>
             <<Fit(s.policy), Policy(s.policy)>> \in Seq(Commands)
    <3> HIDE DEF y
    <3> QED BY <1>1, <2>1, CommandsTyped, Tuples
  <2>3. CASE s.policy = "manual" BY <2>2, <2>3 DEF RestoreSize
  <2>4. CASE s.policy = "latest" BY <2>2, <2>4 DEF RestoreSize
  <2>5. CASE s.policy \in {"largest", "smallest"} BY <2>2, <2>5 DEF RestoreSize
  <2> QED BY <1>1, <2>3, <2>4, <2>5
<1>3. <<Layout(s.shape), Select(s.active)>> \in Seq(Commands)
  BY <1>1, CommandsTyped, Tuples
<1>4. (IF s.zoomed THEN <<Zoom(s.active)>> ELSE <<>>) \in Seq(Commands)
  BY <1>1, CommandsTyped, Tuples
<1>5. <<Mouse(s.mouse)>> \in Seq(Commands) BY <1>1, CommandsTyped, Tuples
<1> QED BY <1>2, <1>3, <1>4, <1>5, Tuples DEF Restore

LEMMA MobilizeTyped ==
  ASSUME NEW l \in Leases, NEW w \in Windows, NEW z \in Sizes
  PROVE  Mobilize(l, w, z) \in Seq(Commands)
<1>1. l.pane \in Panes /\ w.shape \in Shapes BY DEF Leases, Windows
<1>2. <<Mouse("on"), Policy("manual"), Read(l.pane)>> \in Seq(Commands)
  BY <1>1, CommandsTyped, Tuples
<1>3. (IF w.size # z THEN <<Resize(z)>> ELSE <<>>) \in Seq(Commands)
  BY CommandsTyped, Tuples
<1>4. (IF w.zoomed /\ w.active # l.pane THEN <<Layout(w.shape)>> ELSE <<>>)
        \in Seq(Commands)
  BY <1>1, CommandsTyped, Tuples
<1>5. (IF w.zoomed /\ w.active = l.pane THEN <<>>
       ELSE <<Select(l.pane), Zoom(l.pane)>>) \in Seq(Commands)
  BY <1>1, CommandsTyped, Tuples
<1> QED BY <1>2, <1>3, <1>4, <1>5, Tuples DEF Mobilize

LEMMA GiveBackTyped ==
  ASSUME TypeOK, NEW l \in Leases, NEW d \in Desktops
  PROVE  GiveBack(l, d) \in Seq(Commands)
<1> DEFINE pane == IF l.saved[d] # "none" THEN l.snap.active ELSE win.active
<1>1. /\ l.pane \in Panes /\ l.snap \in Windows /\ l.snap.active \in Panes
      /\ l.snap.mouse \in {"on", "off"}
      /\ win.shape \in Shapes /\ win.active \in Panes /\ client[d].size \in Sizes
  BY DEF Leases, Windows, TypeOK
<1>2. pane \in Panes BY <1>1
<1>3. Restore(l.snap, client[d].size) \in Seq(Commands) BY <1>1, RestoreTyped
<1>4. <<Read(l.pane)>> \in Seq(Commands) BY <1>1, CommandsTyped, Tuples
<1>5. <<Layout(win.shape), Select(pane), Mouse(l.snap.mouse)>> \in Seq(Commands)
  <2> HIDE DEF pane
  <2> QED BY <1>1, <1>2, CommandsTyped, Tuples
<1> QED BY <1>3, <1>4, <1>5, Tuples DEF GiveBack

\* What a desktop sets when it takes the window.
LEMMA FollowTyped ==
  ASSUME TypeOK, NEW d \in Desktops
  PROVE  /\ <<Policy("manual"), Resize(client[d].size)>> \in Seq(Outer)
         /\ <<Resize(client[d].size)>> \in Seq(Outer)
<1>1. client[d].size \in Sizes BY DEF TypeOK
<1> QED BY <1>1, CommandsTyped, Tuples

LEMMA SeqOuter ==
  ASSUME NEW s \in Seq(Outer)
  PROVE  s \in Seq(Commands)
BY DEF Outer
-----------------------------------------------------------------------------
(* The parts of the handlers *)

DesktopClients == [Desktops -> [here : BOOLEAN, size : Sizes, focused : BOOLEAN,
                                flag : BOOLEAN]]

LEMMA ViewTyped ==
  ASSUME TypeOK, NEW d \in Desktops
  PROVE  View(d) \in Views
BY DEF View, Views, TypeOK

LEMMA RememberedTyped ==
  ASSUME TypeOK, NEW f
  PROVE  Remembered(f) \subseteq Views \cup {None}
<1>1. \A d \in Here : View(d) \in Views BY ViewTyped DEF Here
<1> QED BY <1>1 DEF Remembered

LEMMA ProtectedTyped ==
  ASSUME TypeOK, NEW l \in Leases, NEW f, NEW t \in Protected(l, f)
  PROVE  /\ t.lease \in Leases /\ t.lease.stage = l.stage
         /\ t.client \in DesktopClients
<1>1. PICK S \in (SUBSET Here) \X (SUBSET Here) :
        t = [lease |-> [l EXCEPT !.quiet = TRUE,
                        !.saved = [d \in Desktops |->
                           IF d \in S[1] /\ @[d] = "none"
                           THEN IF client[d].flag THEN "on" ELSE "off"
                           ELSE @[d]]],
             client |-> [d \in Desktops |->
                  IF d \in S[2] THEN [client[d] EXCEPT !.flag = TRUE]
                                ELSE client[d]]]
  BY DEF Protected
<1> DEFINE sv == [d \in Desktops |->
                    IF d \in S[1] /\ l.saved[d] = "none"
                    THEN IF client[d].flag THEN "on" ELSE "off"
                    ELSE l.saved[d]]
           c == [d \in Desktops |->
                   IF d \in S[2] THEN [client[d] EXCEPT !.flag = TRUE]
                                 ELSE client[d]]
<1>2. sv \in [Desktops -> {"none", "on", "off"}] BY DEF Leases
<1>3. c \in DesktopClients
  <2>1. \A d \in Desktops :
          [client[d] EXCEPT !.flag = TRUE]
            \in [here : BOOLEAN, size : Sizes, focused : BOOLEAN, flag : BOOLEAN]
    <3> TAKE d \in Desktops
    <3>1. client[d] \in [here : BOOLEAN, size : Sizes, focused : BOOLEAN,
                         flag : BOOLEAN]
      BY DEF TypeOK
    <3> QED BY <3>1
  <2> QED BY <2>1 DEF DesktopClients, TypeOK
<1>4. t = [lease |-> [l EXCEPT !.quiet = TRUE, !.saved = sv], client |-> c]
  BY <1>1
<1> HIDE DEF sv, c
<1>5. [l EXCEPT !.quiet = TRUE, !.saved = sv] \in Leases
      /\ [l EXCEPT !.quiet = TRUE, !.saved = sv].stage = l.stage
  BY <1>2 DEF Leases
<1> QED BY <1>3, <1>4, <1>5

LEMMA UnflaggedTyped ==
  ASSUME TypeOK, NEW l, NEW cl \in DesktopClients, NEW f
  PROVE  Unflagged(l, cl, f) \subseteq DesktopClients
<1>1. \A d \in Desktops :
        [cl[d] EXCEPT !.flag = FALSE]
          \in [here : BOOLEAN, size : Sizes, focused : BOOLEAN, flag : BOOLEAN]
  BY DEF DesktopClients
<1>2. SUFFICES ASSUME NEW S
               PROVE  [d \in Desktops |-> IF d \in S THEN [cl[d] EXCEPT !.flag = FALSE]
                                          ELSE cl[d]] \in DesktopClients
  BY DEF Unflagged
<1> QED BY <1>1 DEF DesktopClients

LEMMA ReconciledTyped ==
  ASSUME TypeOK, NEW l \in Leases, NEW w \in Windows, NEW z \in Sizes,
         NEW f \in 0..MaxFailures, NEW r \in Reconciled(l, w, z, f)
  PROVE  /\ r.lease \in Leases /\ r.lease.stage = l.stage
         /\ r.lease.owner = "mobile"
         /\ r.win \in Windows /\ r.done \in BOOLEAN /\ r.fails \in 0..MaxFailures
<1> DEFINE begun == [l EXCEPT !.quiet = TRUE, !.owner = "mobile", !.mobile = z]
           Grabbed(x) == x \in Leases /\ x.stage = l.stage /\ x.owner = "mobile"
<1>1. Grabbed(begun) BY DEF Leases
<1>2. Mobilize(l, w, z) \in Seq(Commands) BY MobilizeTyped
<1>3. PICK e \in Ends(w, Mobilize(l, w, z), f) : r \in Settled(begun, e, f)
  BY DEF Reconciled
<1> HIDE DEF begun
<1>4. e \in Endings(Windows) BY <1>2, <1>3, EndsTyped
<1>5. e.win \in Windows /\ e.fails \in 0..MaxFailures BY <1>4 DEF Endings
<1>6. \A x \in Saw(begun, e) : Grabbed(x)
  <2>1. <<e.win.size, e.win.shape>> \in Sizes \X Shapes BY <1>5 DEF Windows
  <2>2. \A y \in (Sizes \X Shapes) \cup {None} : Grabbed([begun EXCEPT !.seen = y])
    BY <1>1 DEF Leases
  <2> HIDE DEF Grabbed
  <2> QED BY <2>1, <2>2 DEF Saw
<1>7. \A x : Grabbed(x) => \A v \in Views \cup {None} :
        Grabbed([x EXCEPT !.latest = v])
  BY DEF Leases
<1>8. Remembered(f) \subseteq Views \cup {None} BY RememberedTyped
<1>9. e.fails # MaxFailures => e.fails + 1 \in 0..MaxFailures
  BY <1>5, FailuresAssumption
<1>10. Grabbed(r.lease) /\ r.win \in Windows /\ r.done \in BOOLEAN
       /\ r.fails \in 0..MaxFailures
  <2> HIDE DEF Grabbed
  <2>1. CASE r = [lease |-> begun, win |-> e.win, done |-> FALSE, fails |-> e.fails]
    BY <1>1, <1>5, <2>1
  <2>2. ASSUME NEW x \in Saw(begun, e), NEW v \in Remembered(f),
               r = [lease |-> [x EXCEPT !.latest = v], win |-> e.win, done |-> TRUE,
                    fails |-> e.fails]
        PROVE  Grabbed(r.lease) /\ r.win \in Windows /\ r.done \in BOOLEAN
               /\ r.fails \in 0..MaxFailures
    BY <1>5, <1>6, <1>7, <1>8, <2>2
  <2>3. ASSUME NEW x \in Saw(begun, e), e.fails # MaxFailures,
               r = [lease |-> x, win |-> e.win, done |-> FALSE,
                    fails |-> e.fails + 1]
        PROVE  Grabbed(r.lease) /\ r.win \in Windows /\ r.done \in BOOLEAN
               /\ r.fails \in 0..MaxFailures
    BY <1>5, <1>6, <1>9, <2>3
  <2> QED BY <1>3, <2>1, <2>2, <2>3 DEF Settled
<1> QED BY <1>10

\* Results, as Becomes takes them.
Results == [lease : Leases \cup {None}, win : Windows, client : DesktopClients,
            fails : 0..MaxFailures]

LEMMA FollowedTyped ==
  ASSUME TypeOK, NEW l \in Leases, NEW d \in Desktops, NEW f \in 0..MaxFailures,
         NEW r \in Followed(l, d, f)
  PROVE  /\ r \in Results /\ r.lease \in Leases
         /\ r.lease.stage = l.stage /\ r.lease.owner = l.owner
         /\ SameView(r.win, win)
<1> DEFINE same == /\ l.latest # None
                   /\ l.latest.name = d /\ l.latest.size = client[d].size
           cmds == IF same THEN <<>>
                   ELSE <<Policy("manual"), Resize(client[d].size)>>
           x == [l EXCEPT !.latest = View(d)]
<1>1. cmds \in Seq(Outer)
  <2> HIDE DEF same
  <2> QED BY FollowTyped, Tuples
<1>2. PICK e \in Ends(win, cmds, f) :
        r = [lease |-> x, win |-> e.win, client |-> client, fails |-> e.fails]
  BY DEF Followed
<1> HIDE DEF cmds
<1>3. win \in Windows /\ client \in DesktopClients
  BY DEF TypeOK, DesktopClients
<1>4. SameView(e.win, win) /\ e \in Endings(Windows)
  BY <1>1, <1>2, <1>3, EndsOutside, EndsTyped, SeqOuter
<1>5. x \in Leases /\ x.stage = l.stage /\ x.owner = l.owner
  BY ViewTyped DEF Leases
<1> HIDE DEF x
<1> QED BY <1>2, <1>3, <1>4, <1>5 DEF Results, Endings

LEMMA TakenTyped ==
  ASSUME TypeOK, NEW l \in Leases, NEW d \in Desktops, NEW f \in 0..MaxFailures,
         NEW r \in Taken(l, d, f)
  PROVE  r \in Results /\ r.lease \in Leases /\ r.lease.stage = l.stage
<1> DEFINE ends == Ends(win, GiveBack(l, d), f)
           desktops == [l EXCEPT !.owner = "desktop", !.latest = View(d),
                                 !.saved = Nothing]
           cmds == <<Policy("manual"), Resize(client[d].size)>>
<1>1. win \in Windows /\ client \in DesktopClients
  BY DEF TypeOK, DesktopClients
<1>2. ends \subseteq Endings(Windows) BY <1>1, GiveBackTyped, EndsTyped
<1>3. desktops \in Leases /\ desktops.stage = l.stage
  BY ViewTyped DEF Leases, Nothing
<1>4. \/ \E e \in ends :
           r = [lease |-> l, win |-> e.win, client |-> client, fails |-> e.fails]
      \/ \E e \in ends : \E y \in Ends(e.win, cmds, e.fails),
            k \in Unflagged(l, client, f) :
           r = [lease |-> desktops, win |-> y.win, client |-> k, fails |-> y.fails]
  BY DEF Taken
<1>5. cmds \in Seq(Commands) BY FollowTyped, SeqOuter
<1> HIDE DEF ends, desktops, cmds
<1>6. ASSUME NEW e \in ends,
             r = [lease |-> l, win |-> e.win, client |-> client, fails |-> e.fails]
      PROVE  r \in Results /\ r.lease \in Leases /\ r.lease.stage = l.stage
  BY <1>1, <1>2, <1>6 DEF Results, Endings
<1>7. ASSUME NEW e \in ends, NEW y \in Ends(e.win, cmds, e.fails),
             NEW k \in Unflagged(l, client, f),
             r = [lease |-> desktops, win |-> y.win, client |-> k, fails |-> y.fails]
      PROVE  r \in Results /\ r.lease \in Leases /\ r.lease.stage = l.stage
  <2>1. e.win \in Windows /\ e.fails \in 0..MaxFailures BY <1>2 DEF Endings
  <2>2. y \in Endings(Windows) BY <1>5, <2>1, EndsTyped
  <2>3. k \in DesktopClients BY <1>1, UnflaggedTyped
  <2> QED BY <1>3, <1>7, <2>2, <2>3 DEF Results, Endings
<1> QED BY <1>4, <1>6, <1>7

LEMMA FellBackTyped ==
  ASSUME TypeOK, NEW l \in Leases, NEW w \in Windows, NEW cl \in DesktopClients,
         NEW f \in 0..MaxFailures, NEW r \in FellBack(l, w, cl, f)
  PROVE  r \in Results /\ r.lease \in Leases /\ r.lease.stage = l.stage
<1> DEFINE x == [l EXCEPT !.owner = "desktop", !.latest = None, !.saved = Nothing]
<1>1. x \in Leases /\ x.stage = l.stage BY DEF Leases, Nothing
<1>2. l.snap \in Windows BY DEF Leases
<1>3. Ends(w, Restore(l.snap, None), f) \subseteq Endings(Windows)
  BY <1>2, RestoreTyped, EndsTyped
<1>4. PICK e \in Ends(w, Restore(l.snap, None), f) :
        \/ \E k \in Unflagged(l, cl, f) :
             r = [lease |-> x, win |-> e.win, client |-> k, fails |-> e.fails]
        \/ r = [lease |-> l, win |-> e.win, client |-> cl, fails |-> e.fails]
  BY DEF FellBack
<1> HIDE DEF x
<1>5. Unflagged(l, cl, f) \subseteq DesktopClients BY UnflaggedTyped
<1>6. e \in Endings(Windows) BY <1>3, <1>4
<1> QED BY <1>1, <1>4, <1>5, <1>6 DEF Results, Endings

LEMMA FreedTyped ==
  ASSUME TypeOK, NEW l \in Leases, NEW w \in Windows, NEW cl \in DesktopClients,
         NEW f \in 0..MaxFailures, NEW r \in Freed(l, w, cl, f)
  PROVE  /\ r \in Results /\ r.lease = None
         /\ l.owner = "desktop" => SameView(r.win, w)
<1> DEFINE out == <<Policy(l.snap.policy), Mouse(l.snap.mouse)>>
           cmds == IF l.owner = "mobile" THEN Restore(l.snap, None) ELSE out
<1>1. /\ l.snap \in Windows /\ l.snap.mouse \in {"on", "off"}
      /\ l.snap.policy \in {"latest", "largest", "smallest", "manual"}
  BY DEF Leases, Windows
<1>2. out \in Seq(Outer) /\ out \in Seq(Commands)
  BY <1>1, CommandsTyped, Tuples, SeqOuter
<1>3. cmds \in Seq(Commands) BY <1>1, <1>2, RestoreTyped
<1>4. PICK q \in Released(l, w, cl, f) :
        r = [lease |-> None, win |-> q.win, client |-> q.client, fails |-> q.fails]
  BY DEF Freed
<1>5. PICK e \in Ends(w, cmds, f) :
        \E k \in IF e.done THEN Unflagged(l, cl, f) ELSE {cl} :
          q = [win |-> e.win, client |-> k, fails |-> e.fails]
  BY <1>4 DEF Released
<1>6. e \in Endings(Windows) BY <1>3, <1>5, EndsTyped
<1>7. l.owner = "desktop" => SameView(e.win, w)
  <2>1. l.owner = "desktop" => cmds = out OBVIOUS
  <2> HIDE DEF cmds, out
  <2> QED BY <1>2, <1>5, <2>1, EndsOutside
<1>8. q.client \in DesktopClients /\ q.win = e.win /\ q.fails = e.fails
  <2> HIDE DEF cmds, out
  <2> QED BY <1>5, UnflaggedTyped
<1> HIDE DEF cmds, out
<1> QED BY <1>4, <1>6, <1>7, <1>8 DEF Results, Endings
-----------------------------------------------------------------------------
(* The handlers *)

\* How a step may move the lease.
LeaseMoves ==
  \/ lease' = lease
  \/ lease = None /\ lease'.stage = "prepared" /\ lease'.owner = "mobile"
  \/ lease # None /\ lease' = None
  \/ /\ lease # None
     /\ lease'.stage = "prepared" => /\ lease.stage = "prepared"
                                     /\ lease'.owner = lease.owner

\* What it may not do to a window of the desktop.
ViewStays ==
  lease # lease' /\ Owner = "desktop" /\ (lease' = None \/ lease'.owner = "desktop")
    => SameView(win', win)

Proper == TypeOK' /\ LeaseMoves /\ ViewStays

LEMMA BecomesTyped ==
  ASSUME TypeOK, NEW r \in Results, Becomes(r)
  PROVE  TypeOK' /\ lease' = r.lease /\ win' = r.win
BY DEF Becomes, Results, TypeOK, DesktopClients

\* A lease of the same stage is a proper move, if the desktop did not have the
\* window, or the phone has it then, or the window was left as it was.
LEMMA SameStage ==
  ASSUME TypeOK, NEW r \in Results, Becomes(r), lease # None, r.lease \in Leases,
         r.lease.stage = lease.stage, r.lease.owner = lease.owner
           \/ lease.stage # "prepared",
         \/ lease.owner = "mobile" \/ r.lease.owner = "mobile"
         \/ SameView(r.win, win)
  PROVE  Proper
<1>1. TypeOK' /\ lease' = r.lease /\ win' = r.win BY BecomesTyped
<1>2. lease' # None BY <1>1, NoneAssumption
<1>3. LeaseMoves BY <1>1 DEF LeaseMoves
<1>4. ViewStays BY <1>1, <1>2 DEF ViewStays, Owner
<1> QED BY <1>1, <1>3, <1>4 DEF Proper

\* To give the lease up is one, if the view of the desktop stays.
LEMMA GivenUp ==
  ASSUME TypeOK, NEW r \in Results, Becomes(r), lease # None, r.lease = None,
         lease.owner = "desktop" => SameView(r.win, win)
  PROVE  Proper
<1>1. TypeOK' /\ lease' = r.lease /\ win' = r.win BY BecomesTyped
<1> QED BY <1>1 DEF Proper, LeaseMoves, ViewStays, Owner

LEMMA TypeFacts ==
  ASSUME TypeOK
  PROVE  /\ win \in Windows /\ client \in DesktopClients
         /\ failures \in 0..MaxFailures
         /\ lease # None => lease \in Leases
BY DEF TypeOK, DesktopClients

LEMMA PrepareProper ==
  ASSUME TypeOK, NEW p \in Panes, NEW z \in Sizes, Prepare(p, z)
  PROVE  Proper
<1> DEFINE fresh == [stage |-> "prepared", pane |-> p, snap |-> win,
                     owner |-> "mobile", mobile |-> z, latest |-> None,
                     saved |-> Nothing, seen |-> None, quiet |-> FALSE]
<1>1. fresh \in Leases /\ fresh.stage = "prepared"
  BY TypeFacts DEF Leases, Nothing
<1>2. lease = None BY DEF Prepare
<1>3. PICK t \in Protected(fresh, failures) :
        \E r \in Reconciled(t.lease, win, z, failures) :
          IF r.done
          THEN Becomes([lease |-> r.lease, win |-> r.win, client |-> t.client,
                        fails |-> r.fails])
          ELSE \E x \in Freed(r.lease, r.win, t.client, r.fails) : Becomes(x)
  BY DEF Prepare
<1> HIDE DEF fresh
<1>4. t.lease \in Leases /\ t.lease.stage = "prepared" /\ t.client \in DesktopClients
  BY <1>1, <1>3, ProtectedTyped
<1>5. PICK r \in Reconciled(t.lease, win, z, failures) :
        IF r.done
        THEN Becomes([lease |-> r.lease, win |-> r.win, client |-> t.client,
                      fails |-> r.fails])
        ELSE \E x \in Freed(r.lease, r.win, t.client, r.fails) : Becomes(x)
  BY <1>3
<1>6. /\ r.lease \in Leases /\ r.lease.stage = "prepared"
      /\ r.lease.owner = "mobile"
      /\ r.win \in Windows /\ r.done \in BOOLEAN /\ r.fails \in 0..MaxFailures
  BY <1>4, <1>5, TypeFacts, ReconciledTyped
<1>7. CASE r.done
  <2> DEFINE x == [lease |-> r.lease, win |-> r.win, client |-> t.client,
                   fails |-> r.fails]
  <2>1. x \in Results /\ x.lease = r.lease BY <1>4, <1>6 DEF Results
  <2>2. Becomes(x) BY <1>5, <1>7
  <2> HIDE DEF x
  <2>3. TypeOK' /\ lease' = r.lease BY <2>1, <2>2, BecomesTyped
  <2>4. lease' # None /\ lease'.owner = "mobile" BY <1>6, <2>3, NoneAssumption
  <2> QED BY <1>2, <1>6, <2>3, <2>4 DEF Proper, LeaseMoves, ViewStays
<1>8. CASE ~r.done
  <2>1. PICK x \in Freed(r.lease, r.win, t.client, r.fails) : Becomes(x)
    BY <1>5, <1>8
  <2>2. x \in Results /\ x.lease = None BY <1>4, <1>6, <2>1, FreedTyped
  <2>3. TypeOK' /\ lease' = None BY <2>1, <2>2, BecomesTyped
  <2> QED BY <1>2, <2>3 DEF Proper, LeaseMoves, ViewStays
<1> QED BY <1>6, <1>7, <1>8

\* reconcileMobileViewport of a lease without the flags.
LEMMA ReconcileProper ==
  ASSUME TypeOK, lease # None, NEW l \in Leases, l.stage = lease.stage,
         lease.stage = "prepared" => lease.owner = "mobile",
         NEW z \in Sizes, NEW r \in Reconciled(l, win, z, failures),
         Becomes([lease |-> r.lease, win |-> r.win, client |-> client,
                  fails |-> r.fails])
  PROVE  Proper
<1>1. /\ r.lease \in Leases /\ r.lease.stage = l.stage
      /\ r.lease.owner = "mobile"
      /\ r.win \in Windows /\ r.fails \in 0..MaxFailures
  BY TypeFacts, ReconciledTyped
<1> DEFINE x == [lease |-> r.lease, win |-> r.win, client |-> client,
                 fails |-> r.fails]
<1>2. x \in Results /\ x.lease = r.lease BY <1>1, TypeFacts DEF Results
<1> HIDE DEF x
<1>3. Becomes(x) BY DEF x
<1> QED BY <1>1, <1>2, <1>3, SameStage

LEMMA GrabProper ==
  ASSUME TypeOK, lease # None, NEW l \in Leases, l.stage # "prepared",
         NEW z \in Sizes, Grab(l, z, "attached")
  PROVE  Proper
<1>1. PICK t \in Protected(l, failures) :
        \E r \in Reconciled(t.lease, win, z, failures) :
          Becomes([lease |-> IF r.done THEN [r.lease EXCEPT !.stage = "attached"]
                             ELSE r.lease, win |-> r.win,
                   client |-> t.client, fails |-> r.fails])
  BY DEF Grab
<1>2. t.lease \in Leases /\ t.lease.stage # "prepared" /\ t.client \in DesktopClients
  BY <1>1, ProtectedTyped
<1>3. PICK r \in Reconciled(t.lease, win, z, failures) :
        Becomes([lease |-> IF r.done THEN [r.lease EXCEPT !.stage = "attached"]
                           ELSE r.lease, win |-> r.win,
                 client |-> t.client, fails |-> r.fails])
  BY <1>1
<1>4. /\ r.lease \in Leases /\ r.lease.stage # "prepared"
      /\ r.lease.owner = "mobile"
      /\ r.win \in Windows /\ r.done \in BOOLEAN /\ r.fails \in 0..MaxFailures
  BY <1>2, <1>3, TypeFacts, ReconciledTyped
<1> DEFINE y == IF r.done THEN [r.lease EXCEPT !.stage = "attached"] ELSE r.lease
           x == [lease |-> y, win |-> r.win, client |-> t.client, fails |-> r.fails]
<1>5. y \in Leases /\ y.stage # "prepared" /\ y.owner = "mobile"
  BY <1>4 DEF Leases
<1> HIDE DEF y
<1>6. x \in Results /\ x.lease = y BY <1>2, <1>4, <1>5 DEF Results
<1>7. Becomes(x) BY <1>3 DEF y
<1> HIDE DEF x
<1>8. TypeOK' /\ lease' = y BY <1>6, <1>7, BecomesTyped
<1>9. lease' # None BY <1>5, <1>8, NoneAssumption
<1> QED BY <1>5, <1>8, <1>9 DEF Proper, LeaseMoves, ViewStays

LEMMA AttachProper ==
  ASSUME TypeOK, NEW z \in Sizes, Attach(z)
  PROVE  Proper
<1> DEFINE l == [lease EXCEPT !.stage = "client"]
<1>1. lease # None /\ Grab(l, z, "attached") BY DEF Attach
<1>2. l \in Leases /\ l.stage # "prepared" BY <1>1, TypeFacts DEF Leases
<1> HIDE DEF l
<1> QED BY <1>1, <1>2, GrabProper

LEMMA MeasuredProper ==
  ASSUME TypeOK, lease # None, lease.stage = "attached", NEW z \in Sizes, Measured(z)
  PROVE  Proper
<1> DEFINE l == [lease EXCEPT !.mobile = z]
<1>1. l \in Leases /\ l.stage = lease.stage /\ l.owner = lease.owner
  BY TypeFacts DEF Leases
<1>2. \/ Becomes([lease |-> l, win |-> win, client |-> client,
                  fails |-> failures])
      \/ \E r \in Reconciled(l, win, z, failures) :
           Becomes([lease |-> r.lease, win |-> r.win, client |-> client,
                    fails |-> r.fails])
  BY DEF Measured
<1> HIDE DEF l
<1>3. CASE Becomes([lease |-> l, win |-> win, client |-> client,
                    fails |-> failures])
  <2> DEFINE x == [lease |-> l, win |-> win, client |-> client, fails |-> failures]
  <2>1. x \in Results /\ x.lease = l /\ SameView(x.win, win)
    BY <1>1, TypeFacts DEF Results, SameView
  <2>2. Becomes(x) BY <1>3
  <2> HIDE DEF x
  <2> QED BY <1>1, <2>1, <2>2, SameStage
<1>4. CASE \E r \in Reconciled(l, win, z, failures) :
             Becomes([lease |-> r.lease, win |-> r.win, client |-> client,
                      fails |-> r.fails])
  BY <1>1, <1>4, ReconcileProper
<1> QED BY <1>2, <1>3, <1>4

LEMMA ClaimProper ==
  ASSUME TypeOK, NEW z \in Sizes \cup {None}, ClaimMobile(z)
  PROVE  Proper
<1>1. lease # None /\ lease.stage = "attached" /\ lease \in Leases
  BY TypeFacts DEF ClaimMobile
<1>2. CASE lease.owner = "mobile"
  <2>1. z \in Sizes /\ Measured(z) BY <1>2 DEF ClaimMobile
  <2> QED BY <1>1, <2>1, MeasuredProper
<1>3. CASE lease.owner # "mobile"
  <2> DEFINE again == [lease EXCEPT !.snap = win]
             held == [again EXCEPT !.owner = "mobile"]
             y == IF z = None THEN lease.mobile ELSE z
             x == [lease |-> again, win |-> win, client |-> client,
                   fails |-> failures + 1]
  <2>1. /\ again \in Leases /\ again.stage = lease.stage
        /\ again.owner = lease.owner
    BY <1>1, TypeFacts DEF Leases
  <2>2. held \in Leases /\ held.stage # "prepared"
    <3> HIDE DEF again
    <3> QED BY <1>1, <2>1 DEF Leases
  <2>3. y \in Sizes BY <1>1 DEF Leases
  <2>4. \/ Grab(held, y, "attached")
        \/ failures < MaxFailures /\ Becomes(x)
    BY <1>3 DEF ClaimMobile
  <2>5. ASSUME failures < MaxFailures
        PROVE  x \in Results /\ x.lease = again /\ SameView(x.win, win)
    <3>1. failures + 1 \in 0..MaxFailures
      BY <2>5, TypeFacts, FailuresAssumption
    <3> HIDE DEF again
    <3> QED BY <2>1, <3>1, TypeFacts DEF Results, SameView
  <2> HIDE DEF again, held, y, x
  <2>6. CASE Grab(held, y, "attached") BY <1>1, <2>2, <2>3, <2>6, GrabProper
  <2>7. CASE failures < MaxFailures /\ Becomes(x)
    BY <1>1, <2>1, <2>5, <2>7, SameStage
  <2> QED BY <2>4, <2>6, <2>7
<1> QED BY <1>2, <1>3

LEMMA ReassertProper ==
  ASSUME TypeOK, Reassert
  PROVE  Proper
<1>1. lease # None /\ lease.owner = "mobile" /\ lease \in Leases
      /\ lease.mobile \in Sizes
  BY TypeFacts DEF Reassert, Leases
<1>2. PICK r \in Reconciled(lease, win, lease.mobile, failures) :
        Becomes([lease |-> r.lease, win |-> r.win, client |-> client,
                 fails |-> r.fails])
  BY DEF Reassert
<1> QED BY <1>1, <1>2, ReconcileProper

LEMMA ReturnProper ==
  ASSUME TypeOK, ReturnToDesktop
  PROVE  Proper
<1>1. lease # None /\ lease.stage # "prepared" /\ lease.owner = "mobile"
      /\ lease \in Leases
  BY TypeFacts DEF ReturnToDesktop
<1>2. ASSUME NEW l \in Leases, l.stage = lease.stage, NEW w \in Windows,
             NEW cl \in DesktopClients, NEW f \in 0..MaxFailures,
             NEW x \in FellBack(l, w, cl, f), Becomes(x)
      PROVE  Proper
  BY <1>1, <1>2, FellBackTyped, SameStage
<1>3. ASSUME NEW d \in Here, NEW r \in Taken(lease, d, failures),
             IF r.lease.owner = "desktop" THEN Becomes(r)
             ELSE \E x \in FellBack(r.lease, r.win, r.client, r.fails) : Becomes(x)
      PROVE  Proper
  <2>1. d \in Desktops BY DEF Here
  <2>2. r \in Results /\ r.lease \in Leases /\ r.lease.stage = lease.stage
    BY <1>1, <2>1, TypeFacts, TakenTyped
  <2>3. r.win \in Windows /\ r.client \in DesktopClients /\ r.fails \in 0..MaxFailures
    BY <2>2 DEF Results
  <2>4. CASE Becomes(r) BY <1>1, <2>2, <2>4, SameStage
  <2>5. CASE \E x \in FellBack(r.lease, r.win, r.client, r.fails) : Becomes(x)
    BY <1>2, <2>2, <2>3, <2>5
  <2> QED BY <1>3, <2>4, <2>5
<1>4. ASSUME NEW x \in FellBack(lease, win, client, failures), Becomes(x)
      PROVE  Proper
  BY <1>1, <1>2, <1>4, TypeFacts
<1> QED BY <1>3, <1>4 DEF ReturnToDesktop

LEMMA ReleaseProper ==
  ASSUME TypeOK, Release
  PROVE  Proper
<1>1. lease # None /\ lease \in Leases BY TypeFacts DEF Release
<1>2. PICK r \in Freed(lease, win, client, failures) : Becomes(r)
  BY DEF Release
<1>3. /\ r \in Results /\ r.lease = None
      /\ lease.owner = "desktop" => SameView(r.win, win)
  BY <1>1, <1>2, TypeFacts, FreedTyped
<1> QED BY <1>1, <1>2, <1>3, GivenUp

LEMMA DisposeProper ==
  ASSUME TypeOK, Dispose
  PROVE  Proper
<1>1. PICK r \in IF lease = None
                 THEN {[lease |-> None, win |-> win, client |-> client,
                        fails |-> failures]}
                 ELSE Freed(lease, win, client, failures) :
        /\ lease' = r.lease /\ win' = r.win /\ client' = r.client
        /\ failures' = r.fails
  BY DEF Dispose
<1>2. disposed' = TRUE /\ panes' = panes BY DEF Dispose
<1>3. /\ r \in Results /\ r.lease = None
      /\ lease # None /\ lease.owner = "desktop" => SameView(r.win, win)
  <2>1. CASE lease = None BY <1>1, <2>1, TypeFacts DEF Results
  <2>2. CASE lease # None BY <1>1, <2>2, TypeFacts, FreedTyped
  <2> QED BY <2>1, <2>2
<1>4. TypeOK' BY <1>1, <1>2, <1>3 DEF Results, TypeOK, DesktopClients
<1> QED BY <1>1, <1>3, <1>4 DEF Proper, LeaseMoves, ViewStays, Owner

LEMMA HookProper ==
  ASSUME TypeOK, NEW d \in Desktops, NEW event, NEW advanced, Hook(d, event, advanced)
  PROVE  Proper
<1>1. lease # None /\ lease.stage # "prepared" /\ lease \in Leases
  BY TypeFacts DEF Hook, Attached
<1> DEFINE y == [lease EXCEPT !.latest = View(d)]
           x == [lease |-> y, win |-> win, client |-> client, fails |-> failures]
<1>2. Becomes(x) \/ \E r \in ClaimedByDesktop(lease, d, failures) : Becomes(r)
  BY DEF Hook
<1>3. y \in Leases /\ y.stage = lease.stage BY <1>1, ViewTyped DEF Leases
<1> HIDE DEF y
<1>4. x \in Results /\ x.lease = y /\ SameView(x.win, win)
  BY <1>3, TypeFacts DEF Results, SameView
<1> HIDE DEF x
<1>5. CASE Becomes(x) BY <1>1, <1>3, <1>4, <1>5, SameStage
<1>6. ASSUME NEW r \in ClaimedByDesktop(lease, d, failures), Becomes(r)
      PROVE  Proper
  <2>1. CASE lease.owner = "desktop"
    <3>1. r \in Followed(lease, d, failures) BY <2>1 DEF ClaimedByDesktop
    <3> QED BY <1>1, <1>6, <3>1, TypeFacts, FollowedTyped, SameStage
  <2>2. CASE lease.owner # "desktop"
    <3>1. r \in Taken(lease, d, failures) BY <2>2 DEF ClaimedByDesktop
    <3>2. lease.owner = "mobile" BY <1>1, <2>2 DEF Leases
    <3> QED BY <1>1, <1>6, <3>1, <3>2, TypeFacts, TakenTyped, SameStage
  <2> QED BY <2>1, <2>2
<1> QED BY <1>2, <1>5, <1>6

LEMMA PollProper ==
  ASSUME TypeOK, Poll
  PROVE  Proper
<1>1. lease # None /\ lease.stage # "prepared" /\ lease \in Leases
  BY TypeFacts DEF Poll, Attached
<1>2. PICK d \in Stable : PollTakes(d) \/ PollFollows(d) BY DEF Poll
<1>3. d \in Desktops BY <1>2 DEF Stable, Here
<1>4. CASE PollTakes(d)
  <2>1. PICK r \in Taken(lease, d, failures) : Becomes(r) BY <1>4 DEF PollTakes
  <2>2. lease.owner = "mobile" BY <1>4 DEF PollTakes
  <2> QED BY <1>1, <1>3, <2>1, <2>2, TypeFacts, TakenTyped, SameStage
<1>5. CASE PollFollows(d)
  <2> DEFINE y == [lease EXCEPT !.latest = View(d)]
             x(e) == [lease |-> y, win |-> e.win, client |-> client,
                      fails |-> e.fails]
             cmds == <<Resize(client[d].size)>>
  <2>1. PICK e \in Ends(win, cmds, failures) : Becomes(x(e))
    BY <1>5 DEF PollFollows
  <2>2. y \in Leases /\ y.stage = lease.stage
    BY <1>1, <1>3, ViewTyped DEF Leases
  <2>3. cmds \in Seq(Outer) BY <1>3, FollowTyped
  <2> HIDE DEF y, cmds
  <2>4. SameView(e.win, win) /\ e \in Endings(Windows)
    BY <2>1, <2>3, TypeFacts, EndsOutside, EndsTyped, SeqOuter
  <2>5. x(e) \in Results /\ x(e).lease = y /\ SameView(x(e).win, win)
    BY <2>2, <2>4, TypeFacts DEF Results, Endings
  <2> HIDE DEF x
  <2> QED BY <1>1, <2>1, <2>2, <2>5, SameStage
<1> QED BY <1>2, <1>4, <1>5

LEMMA QuietProper ==
  ASSUME TypeOK, QuietEnds
  PROVE  Proper
<1>1. lease # None /\ lease \in Leases BY TypeFacts DEF QuietEnds
<1>2. lease' \in Leases /\ lease'.stage = lease.stage /\ lease'.owner = lease.owner
  BY <1>1 DEF QuietEnds, Leases
<1>3. TypeOK' /\ win' = win BY <1>2 DEF QuietEnds, TypeOK
<1>4. lease' # None BY <1>2, NoneAssumption
<1> QED BY <1>1, <1>2, <1>3, <1>4 DEF Proper, LeaseMoves, ViewStays, SameView
-----------------------------------------------------------------------------
(* The users, tmux, and the specification *)

LEMMA SeesProper ==
  ASSUME TypeOK, NEW d \in Desktops,
         NEW c \in [here : BOOLEAN, size : Sizes, focused : BOOLEAN, flag : BOOLEAN],
         Sees(d, c)
  PROVE  Proper
<1>1. client' \in DesktopClients BY TypeFacts DEF Sees, DesktopClients
<1>2. TypeOK' BY <1>1 DEF Sees, TypeOK, DesktopClients
<1> QED BY <1>2 DEF Sees, Proper, LeaseMoves, ViewStays

LEMMA EnvironmentProper ==
  ASSUME TypeOK, Environment
  PROVE  Proper
<1> DEFINE T == [here : BOOLEAN, size : Sizes, focused : BOOLEAN, flag : BOOLEAN]
<1>1. ASSUME NEW d \in Desktops, DesktopMoves(d) \/ DesktopFocus(d)
      PROVE  Proper
  <2>1. client[d] \in T BY DEF TypeOK
  <2>2. /\ [client[d] EXCEPT !.here = ~@] \in T
        /\ [client[d] EXCEPT !.focused = ~@] \in T
    BY <2>1
  <2> HIDE DEF T
  <2>3. \E c \in T : Sees(d, c) BY <1>1, <2>2 DEF DesktopMoves, DesktopFocus
  <2> QED BY <2>3, SeesProper DEF T
<1>2. ASSUME NEW d \in Desktops, NEW z \in Sizes, DesktopResizes(d, z)
      PROVE  Proper
  <2>1. client[d] \in T BY DEF TypeOK
  <2>2. [client[d] EXCEPT !.size = z] \in T BY <2>1
  <2> HIDE DEF T
  <2>3. \E c \in T : Sees(d, c) BY <1>2, <2>2 DEF DesktopResizes
  <2> QED BY <2>3, SeesProper DEF T
<1>3. ASSUME lease' = lease, client' = client, failures' = failures,
             disposed' = disposed, panes' \in SUBSET Panes, win' \in Windows
      PROVE  Proper
  BY <1>3 DEF Proper, LeaseMoves, ViewStays, TypeOK
<1>4. ASSUME NEW s \in Shapes, NEW p \in Panes, UserReshapes(s, p)
      PROVE  Proper
  <2>1. win' \in Windows BY <1>4, TypeFacts DEF UserReshapes, Windows
  <2> QED BY <1>3, <1>4, <2>1 DEF UserReshapes, TypeOK
<1>5. ASSUME NEW s \in Shapes, NEW p \in Panes, PaneCloses(p, s)
      PROVE  Proper
  <2> DEFINE q == CHOOSE x \in panes' : TRUE
             a == IF win.active = p THEN q ELSE win.active
  <2>1. panes' # {} /\ panes' \in SUBSET Panes BY <1>5 DEF PaneCloses, TypeOK
  <2>2. q \in Panes BY <2>1
  <2>3. a \in Panes
    <3> HIDE DEF q
    <3> QED BY <2>2, TypeFacts DEF Windows
  <2>4. win' = [win EXCEPT !.shape = s, !.zoomed = FALSE, !.active = a]
    BY <1>5 DEF PaneCloses
  <2> HIDE DEF a
  <2>5. win' \in Windows BY <2>3, <2>4, TypeFacts DEF Windows
  <2> QED BY <1>3, <1>5, <2>1, <2>5 DEF PaneCloses
<1>6. ASSUME Follow
      PROVE  Proper
  <2>1. FittedSize(win.policy, win.size) \in Sizes
    BY TypeFacts, FittedTyped DEF Windows
  <2>2. PICK z \in Sizes : win' = [win EXCEPT !.size = z]
    BY <1>6, <2>1, ClientSizesTyped DEF Follow
  <2>3. win' \in Windows BY <2>2, TypeFacts DEF Windows
  <2> QED BY <1>3, <1>6, <2>3 DEF Follow, TypeOK
<1> QED BY <1>1, <1>2, <1>4, <1>5, <1>6 DEF Environment

LEMMA HandlersProper ==
  ASSUME TypeOK, Handlers
  PROVE  Proper
BY PrepareProper, AttachProper, ClaimProper, ReassertProper, ReturnProper,
   ReleaseProper, DisposeProper, HookProper, PollProper, QuietProper,
   MeasuredProper DEF Handlers, ResizeMobile

LEMMA StepProper ==
  ASSUME TypeOK, [Next]_vars
  PROVE  Proper
<1>1. CASE UNCHANGED vars
  BY <1>1 DEF vars, TypeOK, Proper, LeaseMoves, ViewStays
<1>2. CASE Next BY <1>2, HandlersProper, EnvironmentProper DEF Next
<1> QED BY <1>1, <1>2

LEMMA InitTyped ==
  ASSUME Init
  PROVE  TypeOK
<1>1. client \in [Desktops -> [here : BOOLEAN, size : Sizes, focused : BOOLEAN,
                              flag : BOOLEAN]]
  <2>1. \A c \in [here : BOOLEAN, size : Sizes, focused : {FALSE}, flag : BOOLEAN] :
          c \in [here : BOOLEAN, size : Sizes, focused : BOOLEAN, flag : BOOLEAN]
    OBVIOUS
  <2> QED BY <2>1 DEF Init
<1>2. win \in Windows BY DEF Init
<1>3. panes \in SUBSET Panes /\ lease = None /\ disposed = FALSE /\ failures = 0
  BY DEF Init
<1>4. failures \in 0..MaxFailures BY <1>3, FailuresAssumption
<1> QED BY <1>1, <1>2, <1>3, <1>4 DEF TypeOK

\* Every variable keeps its type: a window is what tmux can show, a lease what
\* the manager's LeaseRecord can hold, and a handler that stops halfway leaves
\* nothing else (viewport-manager.ts).
THEOREM TypeCorrectness == Spec => []TypeOK
<1>1. TypeOK /\ [Next]_vars => TypeOK' BY StepProper DEF Proper
<1> QED BY <1>1, InitTyped, PTL DEF Spec

\* A desktop takeover is authoritative: while the desktop has the window and
\* the phone does not claim it, no handler and no release touches its layout,
\* its active pane or its zoom, whatever command fails.
THEOREM DesktopIsAuthoritative == Spec => DesktopLayoutStays
<1>1. TypeOK /\ [Next]_vars =>
        [lease # lease' /\ Owner = "desktop"
           /\ (lease' = None \/ lease'.owner = "desktop")
         => /\ win'.shape = win.shape /\ win'.active = win.active
            /\ win'.zoomed = win.zoomed]_vars
  BY StepProper DEF Proper, ViewStays, SameView
<1> QED BY <1>1, TypeCorrectness, PTL DEF Spec, DesktopLayoutStays

\* A step of the manager is one of the lease, or none.
LEMMA LeaseStep ==
  ASSUME TypeOK, TypeOK', LeaseMoves
  PROVE  [Lease!Next]_(Lease!vars)
<1> USE DEF Lease!Next, Lease!vars
<1>1. CASE lease' = lease BY <1>1
<1>2. CASE lease = None /\ lease' # None /\ lease'.stage = "prepared"
           /\ lease'.owner = "mobile"
  BY <1>2 DEF Lease!Prepare
<1>3. CASE lease # None /\ lease' = None BY <1>3 DEF Lease!Release
<1>4. CASE /\ lease # None /\ lease' # None
           /\ lease'.stage = "prepared" => /\ lease.stage = "prepared"
                                           /\ lease'.owner = lease.owner
  <2>1. lease'.owner \in {"mobile", "desktop"} BY <1>4 DEF TypeOK, Leases
  <2>2. CASE lease'.stage = "prepared" BY <1>4, <2>2
  <2>3. CASE lease'.stage # "prepared" /\ lease.stage = "prepared"
    BY <1>4, <2>1, <2>3 DEF Lease!Attach
  <2>4. CASE lease'.stage # "prepared" /\ lease.stage # "prepared"
    BY <1>4, <2>1, <2>4 DEF Lease!HandOver
  <2> QED BY <2>2, <2>3, <2>4
<1> QED BY <1>1, <1>2, <1>3, <1>4 DEF LeaseMoves

\* What TerminalSession relies on: the manager implements the lease of a
\* window, for any number of commands that fail, in whichever handler.
THEOREM ManagerImplementsLease == Spec => LeaseSpec
<1>1. Init => Lease!Init BY DEF Init, Lease!Init
<1>2. TypeOK /\ TypeOK' /\ [Next]_vars => [Lease!Next]_(Lease!vars)
  BY StepProper, LeaseStep DEF Proper
<1> QED BY <1>1, <1>2, TypeCorrectness, PTL DEF Spec, LeaseSpec, Lease!Spec
-----------------------------------------------------------------------------
(* When nothing fails, a sequence of commands has one end *)

Run(w, cmds) == Stages(w, cmds)[Len(cmds)]

LEMMA StagesStep ==
  ASSUME NEW w, NEW cmds, Len(cmds) \in Nat
  PROVE  /\ Stages(w, cmds)[0] = w
         /\ \A i \in 0..Len(cmds) : i + 1 \in 0..Len(cmds) =>
              Stages(w, cmds)[i + 1] = Apply(Stages(w, cmds)[i], cmds[i + 1])
<1> DEFINE s == Stages(w, cmds)
<1>1. s = [i \in 0..Len(cmds) |-> IF i = 0 THEN w ELSE Apply(s[i - 1], cmds[i])]
  BY StagesUnfold
<1> HIDE DEF s
<1>2. \A i \in 0..Len(cmds) :
        s[i] = IF i = 0 THEN w ELSE Apply(s[i - 1], cmds[i])
  BY <1>1
<1>3. ASSUME NEW i \in 0..Len(cmds), i + 1 \in 0..Len(cmds)
      PROVE  s[i + 1] = Apply(s[i], cmds[i + 1])
  <2>1. i + 1 # 0 /\ (i + 1) - 1 = i OBVIOUS
  <2> QED BY <1>2, <1>3, <2>1
<1>4. s[0] = w BY <1>2
<1> QED BY <1>3, <1>4 DEF s

\* Two sequences of commands run one after the other.
LEMMA RunConcat ==
  ASSUME NEW w, NEW s \in Seq(Commands), NEW t \in Seq(Commands)
  PROVE  Run(w, s \o t) = Run(Run(w, s), t)
<1> DEFINE both == Stages(w, s \o t)
           one == Stages(w, s)
           two == Stages(Run(w, s), t)
           A == {n \in Nat : n <= Len(s) => both[n] = one[n]}
           B == {n \in Nat : n <= Len(t) => both[Len(s) + n] = two[n]}
<1>1. /\ Len(s) \in Nat /\ Len(t) \in Nat /\ Len(s \o t) = Len(s) + Len(t)
      /\ \A i \in 1..Len(s) : (s \o t)[i] = s[i]
      /\ \A i \in 1..Len(t) : (s \o t)[Len(s) + i] = t[i]
  OBVIOUS
<1>2. /\ both[0] = w
      /\ \A i \in 0..Len(s \o t) : i + 1 \in 0..Len(s \o t) =>
           both[i + 1] = Apply(both[i], (s \o t)[i + 1])
  <2> DEFINE st == s \o t
  <2>1. Len(st) \in Nat BY <1>1
  <2> HIDE DEF st
  <2>2. /\ Stages(w, st)[0] = w
        /\ \A i \in 0..Len(st) : i + 1 \in 0..Len(st) =>
             Stages(w, st)[i + 1] = Apply(Stages(w, st)[i], st[i + 1])
    BY <2>1, StagesStep
  <2> QED BY <2>2 DEF st
<1>3. /\ one[0] = w
      /\ \A i \in 0..Len(s) : i + 1 \in 0..Len(s) =>
           one[i + 1] = Apply(one[i], s[i + 1])
  BY <1>1, StagesStep
<1>4. /\ two[0] = Run(w, s)
      /\ \A i \in 0..Len(t) : i + 1 \in 0..Len(t) =>
           two[i + 1] = Apply(two[i], t[i + 1])
  BY <1>1, StagesStep
<1>5. /\ both[0] = w /\ one[0] = w /\ two[0] = Run(w, s)
      /\ \A i \in 0..Len(s \o t) : i + 1 \in 0..Len(s \o t) =>
           both[i + 1] = Apply(both[i], (s \o t)[i + 1])
      /\ \A i \in 0..Len(s) : i + 1 \in 0..Len(s) =>
           one[i + 1] = Apply(one[i], s[i + 1])
      /\ \A i \in 0..Len(t) : i + 1 \in 0..Len(t) =>
           two[i + 1] = Apply(two[i], t[i + 1])
  <2> HIDE DEF both, one, two
  <2> QED BY <1>2, <1>3, <1>4
<1> DEFINE st == s \o t
<1> HIDE DEF both, one, two, st
<1>6. /\ \A i \in 0..(Len(s) + Len(t)) : i + 1 \in 0..(Len(s) + Len(t)) =>
           both[i + 1] = Apply(both[i], st[i + 1])
      /\ \A i \in 1..Len(s) : st[i] = s[i]
      /\ \A i \in 1..Len(t) : st[Len(s) + i] = t[i]
  BY <1>1, <1>5 DEF st
<1>7. \A n \in Nat : n \in A => n + 1 \in A
  <2> SUFFICES ASSUME NEW n \in Nat, n \in A, n + 1 <= Len(s)
               PROVE  both[n + 1] = one[n + 1]
    OBVIOUS
  <2>1. /\ n \in 0..Len(s) /\ n + 1 \in 0..Len(s) /\ n + 1 \in 1..Len(s)
        /\ n \in 0..(Len(s) + Len(t)) /\ n + 1 \in 0..(Len(s) + Len(t))
    BY <1>1
  <2>2. both[n] = one[n] BY <2>1
  <2>3. both[n + 1] = Apply(both[n], st[n + 1]) BY <1>6, <2>1
  <2>4. one[n + 1] = Apply(one[n], s[n + 1]) BY <1>5, <2>1
  <2>5. st[n + 1] = s[n + 1] BY <1>6, <2>1
  <2> QED BY <2>2, <2>3, <2>4, <2>5
<1>8. 0 \in A BY <1>5
<1>9. Nat \subseteq A
  <2> HIDE DEF A
  <2> QED BY <1>7, <1>8, SetInduction
<1>10. both[Len(s)] = Run(w, s) BY <1>1, <1>9 DEF Run, one
<1>11. 0 \in B BY <1>1, <1>5, <1>10
<1>12. \A n \in Nat : n \in B => n + 1 \in B
  <2> SUFFICES ASSUME NEW n \in Nat, n \in B, n + 1 <= Len(t)
               PROVE  both[Len(s) + (n + 1)] = two[n + 1]
    OBVIOUS
  <2> DEFINE m == Len(s) + n
  <2>1. /\ n \in 0..Len(t) /\ n + 1 \in 0..Len(t) /\ n + 1 \in 1..Len(t)
        /\ m \in 0..(Len(s) + Len(t)) /\ m + 1 \in 0..(Len(s) + Len(t))
        /\ m + 1 = Len(s) + (n + 1) /\ n <= Len(t)
    BY <1>1
  <2>2. both[m] = two[n] BY <2>1
  <2>3. both[m + 1] = Apply(both[m], st[m + 1])
    <3> HIDE DEF m
    <3> QED BY <1>6, <2>1
  <2>4. two[n + 1] = Apply(two[n], t[n + 1]) BY <1>5, <2>1
  <2>5. st[m + 1] = t[n + 1]
    <3>1. st[Len(s) + (n + 1)] = t[n + 1] BY <1>6, <2>1
    <3> QED BY <2>1, <3>1
  <2> HIDE DEF m
  <2> QED BY <2>1, <2>2, <2>3, <2>4, <2>5
<1>13. Nat \subseteq B
  <2> HIDE DEF B
  <2> QED BY <1>11, <1>12, SetInduction
<1>14. both[Len(s) + Len(t)] = two[Len(t)] BY <1>1, <1>13
<1> QED BY <1>1, <1>14 DEF Run, both, two

LEMMA RunNone ==
  ASSUME NEW w
  PROVE  Run(w, <<>>) = w
<1>1. Len(<<>>) = 0 OBVIOUS
<1> QED BY <1>1, StagesStep DEF Run

LEMMA RunOne ==
  ASSUME NEW w, NEW a
  PROVE  Run(w, <<a>>) = Apply(w, a)
<1> DEFINE s == <<a>>
<1>1. Len(s) = 1 /\ s[1] = a OBVIOUS
<1> HIDE DEF s
<1>2. Stages(w, s)[0] = w /\ Stages(w, s)[0 + 1] = Apply(Stages(w, s)[0], s[0 + 1])
  BY <1>1, StagesStep
<1>3. Run(w, s) = Apply(w, a) BY <1>1, <1>2 DEF Run
<1> QED BY <1>3 DEF s

LEMMA RunTwo ==
  ASSUME NEW w, NEW a, NEW b
  PROVE  Run(w, <<a, b>>) = Apply(Apply(w, a), b)
<1> DEFINE s == <<a, b>>
<1>1. Len(s) = 2 /\ \A i \in 0..1 : i \in 0..Len(s) /\ i + 1 \in 0..Len(s)
  OBVIOUS
<1>2. Len(s) = 2 /\ s[1] = a /\ s[2] = b OBVIOUS
<1> HIDE DEF s
<1>3. /\ Stages(w, s)[0] = w
      /\ Stages(w, s)[0 + 1] = Apply(Stages(w, s)[0], s[0 + 1])
      /\ Stages(w, s)[1 + 1] = Apply(Stages(w, s)[1], s[1 + 1])
  <2>1. Len(s) \in Nat BY <1>2
  <2>2. \A i \in 0..Len(s) : i + 1 \in 0..Len(s) =>
          Stages(w, s)[i + 1] = Apply(Stages(w, s)[i], s[i + 1])
    BY <2>1, StagesStep
  <2>3. Stages(w, s)[0] = w BY <2>1, StagesStep
  <2> QED BY <1>1, <2>2, <2>3
<1>4. Run(w, s) = Apply(Apply(w, a), b) BY <1>2, <1>3 DEF Run
<1> QED BY <1>4 DEF s

LEMMA RunThree ==
  ASSUME NEW w, NEW a, NEW b, NEW c
  PROVE  Run(w, <<a, b, c>>) = Apply(Apply(Apply(w, a), b), c)
<1> DEFINE s == <<a, b, c>>
<1>1. Len(s) = 3 /\ \A i \in 0..2 : i \in 0..Len(s) /\ i + 1 \in 0..Len(s)
  OBVIOUS
<1>2. Len(s) = 3 /\ s[1] = a /\ s[2] = b /\ s[3] = c OBVIOUS
<1> HIDE DEF s
<1>3. /\ Stages(w, s)[0] = w
      /\ Stages(w, s)[0 + 1] = Apply(Stages(w, s)[0], s[0 + 1])
      /\ Stages(w, s)[1 + 1] = Apply(Stages(w, s)[1], s[1 + 1])
      /\ Stages(w, s)[2 + 1] = Apply(Stages(w, s)[2], s[2 + 1])
  <2>1. Len(s) \in Nat BY <1>2
  <2>2. \A i \in 0..Len(s) : i + 1 \in 0..Len(s) =>
          Stages(w, s)[i + 1] = Apply(Stages(w, s)[i], s[i + 1])
    BY <2>1, StagesStep
  <2>3. Stages(w, s)[0] = w BY <2>1, StagesStep
  <2> QED BY <1>1, <2>2, <2>3
<1>4. Run(w, s) = Apply(Apply(Apply(w, a), b), c) BY <1>2, <1>3 DEF Run
<1> QED BY <1>4 DEF s

LEMMA RunFour ==
  ASSUME NEW w, NEW a \in Seq(Commands), NEW b \in Seq(Commands),
         NEW c \in Seq(Commands), NEW d \in Seq(Commands)
  PROVE  Run(w, a \o b \o c \o d) = Run(Run(Run(Run(w, a), b), c), d)
<1> DEFINE ab == a \o b
           abc == ab \o c
<1>1. ab \in Seq(Commands) /\ Run(w, ab) = Run(Run(w, a), b)
  BY RunConcat, Tuples
<1> HIDE DEF ab
<1>2. abc \in Seq(Commands) /\ Run(w, abc) = Run(Run(w, ab), c)
  BY <1>1, RunConcat, Tuples
<1> HIDE DEF abc
<1>3. Run(w, abc \o d) = Run(Run(w, abc), d) BY <1>2, RunConcat
<1> QED BY <1>1, <1>2, <1>3 DEF ab, abc
-----------------------------------------------------------------------------
(* What the parts of the handlers leave, when nothing fails *)

\* No command fails by itself, and no pane goes.
Whole ==
  /\ MaxFailures = 0 /\ "close" \notin Events
  /\ failures = 0 /\ panes = Panes

LEMMA EndsNow ==
  ASSUME Whole, NEW w, NEW cmds \in Seq(Commands), NEW e \in Ends(w, cmds, 0)
  PROVE  e.win = Run(w, cmds) /\ e.done = TRUE /\ e.fails = 0
<1>1. \A i \in 1..Len(cmds) : Possible(cmds[i])
  <2>1. \A k \in Commands : Possible(k) BY DEF Commands, Possible, Whole
  <2> QED BY <2>1
<1> DEFINE stop(n) == n = Len(cmds) \/ ~Possible(cmds[n + 1])
<1>2. PICK n \in 0..Len(cmds) :
        /\ stop(n) \/ 0 < MaxFailures
        /\ e = [win |-> Stages(w, cmds)[n], done |-> n = Len(cmds),
                fails |-> IF stop(n) THEN 0 ELSE 0 + 1]
  BY DEF Ends
<1>3. n = Len(cmds)
  <2>1. stop(n) BY <1>2 DEF Whole
  <2>2. n # Len(cmds) => n + 1 \in 1..Len(cmds) OBVIOUS
  <2> QED BY <1>1, <2>1, <2>2
<1> QED BY <1>2, <1>3 DEF Run

LEMMA RunTyped ==
  ASSUME TypeOK, NEW w \in Windows, NEW cmds \in Seq(Commands)
  PROVE  Run(w, cmds) \in Windows
<1>1. Len(cmds) \in Nat /\ \A i \in 1..Len(cmds) : cmds[i] \in Commands
  OBVIOUS
<1>2. \A v \in Windows : \A i \in 1..Len(cmds) : Apply(v, cmds[i]) \in Windows
  BY <1>1, ApplyTyped
<1>3. \A n \in 0..Len(cmds) : Stages(w, cmds)[n] \in Windows
  BY <1>1, <1>2, StagesKeep
<1> QED BY <1>1, <1>3 DEF Run

\* One command each.
SameOptions(u, v) == u.mouse = v.mouse /\ u.policy = v.policy /\ u.size = v.size

LEMMA MouseLeaves ==
  ASSUME NEW w \in Windows, NEW m \in {"on", "off"}
  PROVE  /\ Apply(w, Mouse(m)) \in Windows
         /\ Apply(w, Mouse(m)).mouse = m
         /\ Apply(w, Mouse(m)).policy = w.policy
         /\ Apply(w, Mouse(m)).size = w.size
         /\ Apply(w, Mouse(m)).zoomed = w.zoomed
<1>1. Apply(w, Mouse(m)) = [w EXCEPT !.mouse = m] BY DEF Apply, Mouse
<1>2. [w EXCEPT !.mouse = m] \in Windows BY DEF Windows
<1> QED BY <1>1, <1>2 DEF Windows

LEMMA PolicyLeaves ==
  ASSUME NEW w \in Windows, NEW m \in {"latest", "largest", "smallest", "manual"}
  PROVE  /\ Apply(w, Policy(m)) \in Windows
         /\ Apply(w, Policy(m)).mouse = w.mouse
         /\ Apply(w, Policy(m)).policy = m
         /\ Apply(w, Policy(m)).size = w.size
         /\ Apply(w, Policy(m)).zoomed = w.zoomed
<1>1. Apply(w, Policy(m)) = [w EXCEPT !.policy = m] BY DEF Apply, Policy
<1>2. [w EXCEPT !.policy = m] \in Windows BY DEF Windows
<1> QED BY <1>1, <1>2 DEF Windows

LEMMA ResizeLeaves ==
  ASSUME NEW w \in Windows, NEW z \in Sizes
  PROVE  /\ Apply(w, Resize(z)) \in Windows
         /\ Apply(w, Resize(z)).mouse = w.mouse
         /\ Apply(w, Resize(z)).policy = "manual"
         /\ Apply(w, Resize(z)).size = z
         /\ Apply(w, Resize(z)).zoomed = w.zoomed
<1>1. Apply(w, Resize(z)) = [w EXCEPT !.size = z, !.policy = "manual"]
  BY DEF Apply, Resize
<1>2. [w EXCEPT !.size = z, !.policy = "manual"] \in Windows BY DEF Windows
<1> QED BY <1>1, <1>2 DEF Windows

LEMMA LayoutLeaves ==
  ASSUME NEW w \in Windows, NEW s \in Shapes
  PROVE  /\ Apply(w, Layout(s)) \in Windows
         /\ SameOptions(Apply(w, Layout(s)), w)
         /\ Apply(w, Layout(s)).zoomed = FALSE
<1>1. Apply(w, Layout(s)) = [w EXCEPT !.shape = s, !.zoomed = FALSE]
  BY DEF Apply, Layout
<1>2. [w EXCEPT !.shape = s, !.zoomed = FALSE] \in Windows BY DEF Windows
<1> QED BY <1>1, <1>2 DEF Windows, SameOptions

LEMMA SelectLeaves ==
  ASSUME NEW w \in Windows, NEW p \in Panes
  PROVE  /\ Apply(w, Select(p)) \in Windows
         /\ SameOptions(Apply(w, Select(p)), w)
         /\ w.zoomed = FALSE => Apply(w, Select(p)).zoomed = FALSE
<1> DEFINE q == w.zoomed /\ w.active = p
<1>1. Apply(w, Select(p)) = [w EXCEPT !.active = p, !.zoomed = q]
  BY DEF Apply, Select
<1>2. q \in BOOLEAN /\ (w.zoomed = FALSE => q = FALSE) OBVIOUS
<1> HIDE DEF q
<1>3. [w EXCEPT !.active = p, !.zoomed = q] \in Windows BY <1>2 DEF Windows
<1> QED BY <1>1, <1>2, <1>3 DEF Windows, SameOptions

LEMMA ZoomLeaves ==
  ASSUME NEW w \in Windows, NEW p \in Panes
  PROVE  /\ Apply(w, Zoom(p)) \in Windows
         /\ SameOptions(Apply(w, Zoom(p)), w)
         /\ w.zoomed = FALSE => Apply(w, Zoom(p)).zoomed = TRUE
<1> DEFINE q == ~w.zoomed
<1>1. Apply(w, Zoom(p)) = [w EXCEPT !.zoomed = q]
  BY DEF Apply, Zoom
<1>2. q \in BOOLEAN /\ (w.zoomed = FALSE => q = TRUE) OBVIOUS
<1> HIDE DEF q
<1>3. [w EXCEPT !.zoomed = q] \in Windows BY <1>2 DEF Windows
<1> QED BY <1>1, <1>2, <1>3 DEF Windows, SameOptions

LEMMA ReadLeaves ==
  ASSUME NEW w, NEW p
  PROVE  Apply(w, Read(p)) = w
BY DEF Apply, Read

\* A restored window has the zoom and the mouse option of the snapshot.
LEMMA RestoreLeaves ==
  ASSUME TypeOK, NEW w \in Windows, NEW s \in Windows, NEW z \in Sizes \cup {None}
  PROVE  /\ Run(w, Restore(s, z)).mouse = s.mouse
         /\ Run(w, Restore(s, z)).zoomed = s.zoomed
<1> DEFINE a == <<Layout(s.shape), Select(s.active)>>
           b == IF s.zoomed THEN <<Zoom(s.active)>> ELSE <<>>
           c == RestoreSize(s, z)
           d == <<Mouse(s.mouse)>>
           v1 == Run(w, a)
           v2 == Run(v1, b)
           v3 == Run(v2, c)
<1>1. /\ s.size \in Sizes /\ s.shape \in Shapes /\ s.active \in Panes
      /\ s.policy \in {"latest", "largest", "smallest", "manual"}
      /\ s.mouse \in {"on", "off"} /\ s.zoomed \in BOOLEAN
  BY DEF Windows
<1>2. c \in Seq(Outer)
  <2> DEFINE y == IF z = None THEN s.size ELSE z
  <2>1. y \in Sizes BY <1>1
  <2>2. /\ <<Resize(s.size)>> \in Seq(Outer)
        /\ <<Resize(y), Policy("latest")>> \in Seq(Outer)
        /\ s.policy \in {"largest", "smallest"} =>
             <<Fit(s.policy), Policy(s.policy)>> \in Seq(Outer)
    <3> HIDE DEF y
    <3> QED BY <1>1, <2>1, CommandsTyped, Tuples
  <2>3. CASE s.policy = "manual" BY <2>2, <2>3 DEF RestoreSize
  <2>4. CASE s.policy = "latest" BY <2>2, <2>4 DEF RestoreSize
  <2>5. CASE s.policy \in {"largest", "smallest"} BY <2>2, <2>5 DEF RestoreSize
  <2> QED BY <1>1, <2>3, <2>4, <2>5
<1>3. /\ a \in Seq(Commands) /\ b \in Seq(Commands) /\ c \in Seq(Commands)
      /\ d \in Seq(Commands)
  BY <1>1, <1>2, CommandsTyped, Tuples, SeqOuter
<1>4. Run(w, Restore(s, z)) = Run(v3, d)
  <2>1. Restore(s, z) = a \o b \o c \o d BY DEF Restore
  <2> HIDE DEF a, b, c, d
  <2> QED BY <1>3, <2>1, RunFour
<1>5. v1 \in Windows /\ v1.zoomed = FALSE
  <2> DEFINE u == Apply(w, Layout(s.shape))
  <2>1. u \in Windows /\ u.zoomed = FALSE BY <1>1, LayoutLeaves
  <2>2. v1 = Apply(u, Select(s.active))
    <3> DEFINE x == Layout(s.shape)  y == Select(s.active)
    <3> HIDE DEF x, y
    <3>1. Run(w, <<x, y>>) = Apply(Apply(w, x), y) BY RunTwo
    <3> QED BY <3>1 DEF x, y
  <2> HIDE DEF u
  <2> QED BY <1>1, <2>1, <2>2, SelectLeaves
<1>6. v2 \in Windows /\ v2.zoomed = s.zoomed
  <2> HIDE DEF v1
  <2>1. CASE s.zoomed
    <3>1. v2 = Apply(v1, Zoom(s.active)) BY <2>1, RunOne
    <3> HIDE DEF v2
    <3> QED BY <1>1, <1>5, <2>1, <3>1, ZoomLeaves
  <2>2. CASE ~s.zoomed BY <1>1, <1>5, <2>2, RunNone
  <2> QED BY <2>1, <2>2
<1>7. v3 \in Windows /\ v3.zoomed = s.zoomed
  <2> HIDE DEF c, v2
  <2>1. v3 \in Windows BY <1>3, <1>6, RunTyped
  <2> DEFINE S == {v \in Windows : v.zoomed = v2.zoomed}
  <2>2. Len(c) \in Nat /\ \A i \in 1..Len(c) : c[i] \in Outer BY <1>2
  <2>3. \A v \in S : \A i \in 1..Len(c) : Apply(v, c[i]) \in S
    BY <2>2, ApplyTyped DEF SameView, Outer
  <2>4. v2 \in S BY <1>6
  <2>5. \A n \in 0..Len(c) : Stages(v2, c)[n] \in S
    <3> HIDE DEF S
    <3> QED BY <2>2, <2>3, <2>4, StagesKeep
  <2>6. v3 \in S
    <3> HIDE DEF S
    <3> QED BY <2>2, <2>5 DEF Run
  <2> QED BY <1>6, <2>1, <2>6
<1>8. Run(v3, d) = Apply(v3, Mouse(s.mouse))
  <2> DEFINE x == Mouse(s.mouse)
  <2> HIDE DEF v3, x
  <2>1. Run(v3, <<x>>) = Apply(v3, x) BY RunOne
  <2> QED BY <2>1 DEF x
<1> HIDE DEF v3, d
<1> QED BY <1>1, <1>4, <1>7, <1>8, MouseLeaves

\* The window of the phone.
LEMMA MobilizeLeaves ==
  ASSUME TypeOK, NEW l \in Leases, NEW w \in Windows, NEW z \in Sizes
  PROVE  /\ Run(w, Mobilize(l, w, z)).mouse = "on"
         /\ Run(w, Mobilize(l, w, z)).policy = "manual"
         /\ Run(w, Mobilize(l, w, z)).size = z
<1> DEFINE a == <<Mouse("on"), Policy("manual"), Read(l.pane)>>
           b == IF w.size # z THEN <<Resize(z)>> ELSE <<>>
           c == IF w.zoomed /\ w.active # l.pane THEN <<Layout(w.shape)>> ELSE <<>>
           d == IF w.zoomed /\ w.active = l.pane THEN <<>>
                ELSE <<Select(l.pane), Zoom(l.pane)>>
           v1 == Run(w, a)
           v2 == Run(v1, b)
           v3 == Run(v2, c)
<1>1. l.pane \in Panes /\ w.shape \in Shapes BY DEF Leases, Windows
<1>2. /\ a \in Seq(Commands) /\ b \in Seq(Commands) /\ c \in Seq(Commands)
      /\ d \in Seq(Commands)
  BY <1>1, CommandsTyped, Tuples
<1>3. Run(w, Mobilize(l, w, z)) = Run(v3, d)
  <2>1. Mobilize(l, w, z) = a \o b \o c \o d BY DEF Mobilize
  <2> HIDE DEF a, b, c, d
  <2> QED BY <1>2, <2>1, RunFour
<1>4. v1 \in Windows /\ v1.mouse = "on" /\ v1.policy = "manual" /\ v1.size = w.size
  <2> DEFINE u == Apply(w, Mouse("on"))
             x == Apply(u, Policy("manual"))
  <2>1. u \in Windows /\ u.mouse = "on" /\ u.size = w.size BY MouseLeaves
  <2>2. x \in Windows /\ x.mouse = "on" /\ x.policy = "manual" /\ x.size = w.size
    <3> HIDE DEF u
    <3> QED BY <2>1, PolicyLeaves
  <2>3. v1 = Apply(x, Read(l.pane))
    <3> DEFINE i == Mouse("on")  j == Policy("manual")  k == Read(l.pane)
    <3> HIDE DEF i, j, k
    <3>1. Run(w, <<i, j, k>>) = Apply(Apply(Apply(w, i), j), k) BY RunThree
    <3> QED BY <3>1 DEF i, j, k
  <2> HIDE DEF x
  <2> QED BY <2>2, <2>3, ReadLeaves
<1> HIDE DEF v1
<1>5. v2 \in Windows /\ v2.mouse = "on" /\ v2.policy = "manual" /\ v2.size = z
  <2>1. CASE w.size # z
    <3>1. v2 = Apply(v1, Resize(z)) BY <2>1, RunOne
    <3> HIDE DEF v2
    <3> QED BY <1>4, <3>1, ResizeLeaves
  <2>2. CASE w.size = z BY <1>4, <2>2, RunNone
  <2> QED BY <2>1, <2>2
<1> HIDE DEF v2
<1>6. v3 \in Windows /\ SameOptions(v3, v2)
  <2>1. CASE w.zoomed /\ w.active # l.pane
    <3>1. v3 = Apply(v2, Layout(w.shape)) BY <2>1, RunOne
    <3> HIDE DEF v3
    <3> QED BY <1>1, <1>5, <3>1, LayoutLeaves
  <2>2. CASE ~(w.zoomed /\ w.active # l.pane)
    BY <1>5, <2>2, RunNone DEF SameOptions
  <2> QED BY <2>1, <2>2
<1> HIDE DEF v3
<1>7. SameOptions(Run(v3, d), v3)
  <2>1. CASE w.zoomed /\ w.active = l.pane BY <2>1, RunNone DEF SameOptions
  <2>2. CASE ~(w.zoomed /\ w.active = l.pane)
    <3> DEFINE u == Apply(v3, Select(l.pane))
    <3>1. u \in Windows /\ SameOptions(u, v3) BY <1>1, <1>6, SelectLeaves
    <3>2. Run(v3, d) = Apply(u, Zoom(l.pane))
      <4> DEFINE i == Select(l.pane)  j == Zoom(l.pane)
      <4>1. d = <<i, j>> BY <2>2
      <4> HIDE DEF i, j, d
      <4>2. Run(v3, <<i, j>>) = Apply(Apply(v3, i), j) BY RunTwo
      <4> QED BY <4>1, <4>2 DEF i, j
    <3> HIDE DEF u
    <3>3. SameOptions(Run(v3, d), u)
      <4> HIDE DEF d
      <4> QED BY <1>1, <3>1, <3>2, ZoomLeaves
    <3> QED BY <3>1, <3>3 DEF SameOptions
  <2> QED BY <2>1, <2>2
<1> HIDE DEF d
<1> QED BY <1>3, <1>5, <1>6, <1>7 DEF SameOptions

\* The window a desktop claims from the phone.
LEMMA GiveBackLeaves ==
  ASSUME TypeOK, NEW l \in Leases, NEW d \in Desktops
  PROVE  /\ Run(win, GiveBack(l, d)).mouse = l.snap.mouse
         /\ Run(win, GiveBack(l, d)).zoomed => l.snap.zoomed
<1> DEFINE pane == IF l.saved[d] # "none" THEN l.snap.active ELSE win.active
           a == <<Read(l.pane)>>
           b == Restore(l.snap, client[d].size)
           c == <<Layout(win.shape), Select(pane), Mouse(l.snap.mouse)>>
<1>1. /\ l.pane \in Panes /\ l.snap \in Windows /\ l.snap.active \in Panes
      /\ l.snap.mouse \in {"on", "off"} /\ l.snap.zoomed \in BOOLEAN
      /\ win \in Windows /\ win.shape \in Shapes /\ win.active \in Panes
      /\ client[d].size \in Sizes
  BY DEF Leases, Windows, TypeOK
<1>2. pane \in Panes BY <1>1
<1>3. a \in Seq(Commands) BY <1>1, CommandsTyped, Tuples
<1>4. b \in Seq(Commands) BY <1>1, RestoreTyped
<1>5. c \in Seq(Commands)
  <2> HIDE DEF pane
  <2> QED BY <1>1, <1>2, CommandsTyped, Tuples
<1>6. GiveBack(l, d) = a \o b \/ GiveBack(l, d) = a \o c BY DEF GiveBack
<1>7. Run(win, a) = win
  <2> DEFINE x == Read(l.pane)
  <2>1. Run(win, <<x>>) = Apply(win, x)
    <3> HIDE DEF x
    <3> QED BY RunOne
  <2> QED BY <2>1, ReadLeaves
<1> HIDE DEF a
<1>8. CASE GiveBack(l, d) = a \o b
  <2>1. Run(win, GiveBack(l, d)) = Run(win, b)
    <3> HIDE DEF b
    <3> QED BY <1>3, <1>4, <1>7, <1>8, RunConcat
  <2> QED BY <1>1, <2>1, RestoreLeaves
<1>9. CASE GiveBack(l, d) = a \o c
  <2> DEFINE x == Layout(win.shape)  y == Select(pane)  z == Mouse(l.snap.mouse)
             u == Apply(win, x)
             v == Apply(u, y)
  <2>1. Run(win, GiveBack(l, d)) = Run(win, c)
    <3> HIDE DEF c
    <3> QED BY <1>3, <1>5, <1>7, <1>9, RunConcat
  <2>2. Run(win, <<x, y, z>>) = Apply(v, z)
    <3> HIDE DEF x, y, z
    <3> QED BY RunThree
  <2>3. u \in Windows /\ u.zoomed = FALSE BY <1>1, LayoutLeaves
  <2> HIDE DEF u, pane
  <2>4. v \in Windows /\ v.zoomed = FALSE BY <1>2, <2>3, SelectLeaves
  <2> HIDE DEF v
  <2>5. Apply(v, z).mouse = l.snap.mouse /\ Apply(v, z).zoomed = FALSE
    BY <1>1, <2>4, MouseLeaves
  <2> QED BY <2>1, <2>2, <2>5
<1> QED BY <1>6, <1>8, <1>9

\* The flags a lease has to give back.
Kept(l, cl) ==
  \A d \in Desktops :
    /\ l.saved[d] = "none" => cl[d].flag = (d \in OwnFlag)
    /\ l.saved[d] = "off" => d \notin OwnFlag
    /\ l.saved[d] = "on" => d \in OwnFlag /\ cl[d].flag

OwnFlags(cl) == \A d \in Desktops : cl[d].flag = (d \in OwnFlag)

SameHere(cl) == \A d \in Desktops : cl[d].here = client[d].here

LEMMA ProtectedLeaves ==
  ASSUME TypeOK, Whole, NEW l \in Leases, Kept(l, client),
         NEW t \in Protected(l, 0)
  PROVE  t.lease.snap = l.snap /\ Kept(t.lease, t.client) /\ SameHere(t.client)
<1> DEFINE sv == [d \in Desktops |->
                    IF d \in Here /\ l.saved[d] = "none"
                    THEN IF client[d].flag THEN "on" ELSE "off"
                    ELSE l.saved[d]]
           c == [d \in Desktops |->
                   IF d \in Here THEN [client[d] EXCEPT !.flag = TRUE]
                                 ELSE client[d]]
<1>1. t = [lease |-> [l EXCEPT !.quiet = TRUE, !.saved = sv], client |-> c]
  <2>1. PICK S \in {<<Here, Here>>} :
          t = [lease |-> [l EXCEPT !.quiet = TRUE,
                        !.saved = [d \in Desktops |->
                           IF d \in S[1] /\ @[d] = "none"
                           THEN IF client[d].flag THEN "on" ELSE "off"
                           ELSE @[d]]],
               client |-> [d \in Desktops |->
                  IF d \in S[2] THEN [client[d] EXCEPT !.flag = TRUE]
                                ELSE client[d]]]
    BY DEF Protected, Whole
  <2>2. S[1] = Here /\ S[2] = Here OBVIOUS
  <2> QED BY <2>1, <2>2
<1>2. \A d \in Desktops :
        /\ sv[d] = IF d \in Here /\ l.saved[d] = "none"
                   THEN IF client[d].flag THEN "on" ELSE "off"
                   ELSE l.saved[d]
        /\ c[d].here = client[d].here
        /\ c[d].flag = IF d \in Here THEN TRUE ELSE client[d].flag
        /\ client[d].flag \in BOOLEAN
  BY DEF TypeOK
<1> HIDE DEF sv, c
<1>3. t.lease.snap = l.snap /\ t.lease.saved = sv /\ t.client = c
  BY <1>1 DEF Leases
<1>4. \A d \in Desktops :
        /\ sv[d] = "none" => c[d].flag = (d \in OwnFlag)
        /\ sv[d] = "off" => d \notin OwnFlag
        /\ sv[d] = "on" => d \in OwnFlag /\ c[d].flag
  <2> TAKE d \in Desktops
  <2>1. /\ l.saved[d] \in {"none", "on", "off"}
        /\ l.saved[d] = "none" => client[d].flag = (d \in OwnFlag)
        /\ l.saved[d] = "off" => d \notin OwnFlag
        /\ l.saved[d] = "on" => d \in OwnFlag /\ client[d].flag
    BY DEF Kept, Leases
  <2>2. CASE d \in Here /\ l.saved[d] = "none" BY <1>2, <2>1, <2>2
  <2>3. CASE d \in Here /\ l.saved[d] # "none" BY <1>2, <2>1, <2>3
  <2>4. CASE d \notin Here BY <1>2, <2>1, <2>4
  <2> QED BY <2>2, <2>3, <2>4
<1> QED BY <1>2, <1>3, <1>4 DEF Kept, SameHere

LEMMA UnflaggedLeaves ==
  ASSUME Whole, NEW l \in Leases, NEW cl \in DesktopClients, Kept(l, cl),
         NEW k \in Unflagged(l, cl, 0)
  PROVE  /\ OwnFlags(k)
         /\ \A d \in Desktops : k[d].here = cl[d].here /\ k[d].size = cl[d].size
<1>1. k = [d \in Desktops |-> IF l.saved[d] = "off" THEN [cl[d] EXCEPT !.flag = FALSE]
                              ELSE cl[d]]
  BY DEF Unflagged, Whole
<1>2. \A d \in Desktops :
        /\ k[d].here = cl[d].here /\ k[d].size = cl[d].size
        /\ k[d].flag = IF l.saved[d] = "off" THEN FALSE ELSE cl[d].flag
  <2> TAKE d \in Desktops
  <2>1. cl[d] \in [here : BOOLEAN, size : Sizes, focused : BOOLEAN, flag : BOOLEAN]
    BY DEF DesktopClients
  <2>2. k[d] = IF l.saved[d] = "off" THEN [cl[d] EXCEPT !.flag = FALSE] ELSE cl[d]
    BY <1>1
  <2> QED BY <2>1, <2>2
<1>3. \A d \in Desktops : k[d].flag = (d \in OwnFlag)
  <2> TAKE d \in Desktops
  <2>1. /\ l.saved[d] \in {"none", "on", "off"}
        /\ l.saved[d] = "none" => cl[d].flag = (d \in OwnFlag)
        /\ l.saved[d] = "off" => d \notin OwnFlag
        /\ l.saved[d] = "on" => d \in OwnFlag /\ cl[d].flag
        /\ cl[d].flag \in BOOLEAN
    BY DEF Kept, Leases, DesktopClients
  <2>2. CASE l.saved[d] = "none" BY <1>2, <2>1, <2>2
  <2>3. CASE l.saved[d] = "off"
    <3>1. (d \in OwnFlag) = FALSE BY <2>1, <2>3
    <3>2. k[d].flag = FALSE BY <1>2, <2>3
    <3> QED BY <3>1, <3>2
  <2>4. CASE l.saved[d] = "on"
    <3>1. (d \in OwnFlag) = TRUE BY <2>1, <2>4
    <3>2. cl[d].flag = TRUE BY <2>1, <2>4
    <3>3. k[d].flag = cl[d].flag BY <1>2, <2>4
    <3> QED BY <3>1, <3>2, <3>3
  <2> QED BY <2>1, <2>2, <2>3, <2>4
<1> QED BY <1>2, <1>3 DEF OwnFlags

\* The phone has the window in size z, and l to give back.
Mobilized(r, l, z) ==
  /\ r.fails = 0
  /\ r.lease.owner = "mobile" /\ r.lease.mobile = z
  /\ r.lease.snap = l.snap /\ r.lease.saved = l.saved
  /\ r.win.mouse = "on" /\ r.win.policy = "manual" /\ r.win.size = z

LEMMA ReconciledLeaves ==
  ASSUME TypeOK, Whole, NEW l \in Leases, NEW w \in Windows, NEW z \in Sizes,
         NEW r \in Reconciled(l, w, z, 0)
  PROVE  r.done = TRUE /\ Mobilized(r, l, z)
<1> DEFINE begun == [l EXCEPT !.quiet = TRUE, !.owner = "mobile", !.mobile = z]
           Held(x) == x \in Leases /\ x.owner = "mobile" /\ x.mobile = z
                        /\ x.snap = l.snap /\ x.saved = l.saved
<1>1. Held(begun) BY DEF Leases
<1>2. Mobilize(l, w, z) \in Seq(Commands) BY MobilizeTyped
<1>3. PICK e \in Ends(w, Mobilize(l, w, z), 0) : r \in Settled(begun, e, 0)
  BY DEF Reconciled
<1> HIDE DEF begun
<1>4. e.win = Run(w, Mobilize(l, w, z)) /\ e.done = TRUE /\ e.fails = 0
  BY <1>2, <1>3, EndsNow
<1>5. e.win \in Windows BY <1>2, <1>4, RunTyped
<1>6. \A x \in Saw(begun, e) : Held(x)
  <2>1. <<e.win.size, e.win.shape>> \in Sizes \X Shapes BY <1>5 DEF Windows
  <2>2. \A y \in (Sizes \X Shapes) \cup {None} : Held([begun EXCEPT !.seen = y])
    BY <1>1 DEF Leases
  <2> HIDE DEF Held
  <2> QED BY <2>1, <2>2 DEF Saw
<1>7. PICK x \in Saw(begun, e), v \in Remembered(0) :
        r = [lease |-> [x EXCEPT !.latest = v], win |-> e.win, done |-> TRUE,
             fails |-> e.fails]
  BY <1>3, <1>4 DEF Settled, Whole
<1>8. v \in Views \cup {None} BY RememberedTyped
<1>9. Held([x EXCEPT !.latest = v]) BY <1>6, <1>8 DEF Leases
<1>10. e.win.mouse = "on" /\ e.win.policy = "manual" /\ e.win.size = z
  BY <1>4, MobilizeLeaves
<1> DEFINE y == [x EXCEPT !.latest = v]
<1> HIDE DEF y
<1>11. r = [lease |-> y, win |-> e.win, done |-> TRUE, fails |-> e.fails] /\ Held(y)
  BY <1>7, <1>9 DEF y
<1> QED BY <1>4, <1>10, <1>11 DEF Mobilized

\* The lease of a window that the desktop with view v took.
Lost(l, v) == [l EXCEPT !.owner = "desktop", !.latest = v, !.saved = Nothing]

\* What the desktop gets of the phone's window.
LEMMA TakenLeaves ==
  ASSUME TypeOK, Whole, NEW l \in Leases, NEW d \in Desktops, Kept(l, client),
         NEW r \in Taken(l, d, 0)
  PROVE  /\ r.fails = 0
         /\ r.lease = Lost(l, View(d))
         /\ r.win.mouse = l.snap.mouse /\ (r.win.zoomed => l.snap.zoomed)
         /\ r.win.policy = "manual" /\ r.win.size = client[d].size
         /\ OwnFlags(r.client) /\ SameHere(r.client)
<1> DEFINE ends == Ends(win, GiveBack(l, d), 0)
           desktops == [l EXCEPT !.owner = "desktop", !.latest = View(d),
                                 !.saved = Nothing]
           cmds == <<Policy("manual"), Resize(client[d].size)>>
<1>1. win \in Windows /\ client \in DesktopClients /\ client[d].size \in Sizes
  BY DEF TypeOK, DesktopClients
<1>2. \/ \E e \in ends : ~e.done
      \/ \E e \in ends : \E y \in Ends(e.win, cmds, e.fails),
            k \in Unflagged(l, client, 0) :
           r = [lease |-> desktops, win |-> y.win, client |-> k, fails |-> y.fails]
  BY DEF Taken
<1>3. cmds \in Seq(Commands) BY FollowTyped, SeqOuter
<1>4. \A e \in ends : /\ e.win = Run(win, GiveBack(l, d))
                      /\ e.done = TRUE /\ e.fails = 0
  BY GiveBackTyped, EndsNow
<1> HIDE DEF ends, desktops
<1>5. PICK e \in ends : \E y \in Ends(e.win, cmds, 0),
            k \in Unflagged(l, client, 0) :
           r = [lease |-> desktops, win |-> y.win, client |-> k, fails |-> y.fails]
  <2> HIDE DEF cmds
  <2> QED BY <1>2, <1>4
<1>6. PICK y \in Ends(e.win, cmds, 0), k \in Unflagged(l, client, 0) :
           r = [lease |-> desktops, win |-> y.win, client |-> k, fails |-> y.fails]
  BY <1>5
<1> DEFINE v == Run(win, GiveBack(l, d))
<1>7. v \in Windows /\ v.mouse = l.snap.mouse /\ (v.zoomed => l.snap.zoomed)
  BY <1>1, GiveBackTyped, GiveBackLeaves, RunTyped
<1>8. y.win = Run(v, cmds) /\ y.fails = 0
  <2> HIDE DEF cmds
  <2>1. y.win = Run(e.win, cmds) /\ y.fails = 0 BY <1>3, <1>6, EndsNow
  <2>2. e.win = v BY <1>4
  <2> QED BY <2>1, <2>2
<1> HIDE DEF v
<1>9. /\ Run(v, cmds).mouse = v.mouse /\ Run(v, cmds).zoomed = v.zoomed
      /\ Run(v, cmds).policy = "manual" /\ Run(v, cmds).size = client[d].size
  <2> DEFINE i == Policy("manual")  j == Resize(client[d].size)  u == Apply(v, i)
  <2>1. Run(v, <<i, j>>) = Apply(u, j)
    <3> HIDE DEF i, j
    <3> QED BY RunTwo
  <2>2. u \in Windows /\ u.mouse = v.mouse /\ u.zoomed = v.zoomed
    BY <1>7, PolicyLeaves
  <2> HIDE DEF u
  <2>3. /\ Apply(u, j).mouse = u.mouse /\ Apply(u, j).zoomed = u.zoomed
        /\ Apply(u, j).policy = "manual" /\ Apply(u, j).size = client[d].size
    BY <1>1, <2>2, ResizeLeaves
  <2> QED BY <2>1, <2>2, <2>3
<1>10. OwnFlags(k) /\ SameHere(k)
  BY <1>1, <1>6, UnflaggedLeaves DEF SameHere
<1> HIDE DEF cmds
<1> QED BY <1>6, <1>7, <1>8, <1>9, <1>10 DEF desktops, Lost

LEMMA FellBackLeaves ==
  ASSUME TypeOK, Whole, NEW l \in Leases, NEW w \in Windows, Kept(l, client),
         NEW r \in FellBack(l, w, client, 0)
  PROVE  /\ r.fails = 0
         /\ r.lease = Lost(l, None)
         /\ r.win.mouse = l.snap.mouse /\ r.win.zoomed = l.snap.zoomed
         /\ OwnFlags(r.client) /\ SameHere(r.client)
<1> DEFINE x == [l EXCEPT !.owner = "desktop", !.latest = None, !.saved = Nothing]
           cmds == Restore(l.snap, None)
<1>1. l.snap \in Windows /\ client \in DesktopClients
  BY DEF Leases, TypeOK, DesktopClients
<1>2. cmds \in Seq(Commands) BY <1>1, RestoreTyped
<1>3. PICK e \in Ends(w, cmds, 0) :
        \/ \E k \in Unflagged(l, client, 0) :
             r = [lease |-> x, win |-> e.win, client |-> k, fails |-> e.fails]
        \/ ~e.done
  BY DEF FellBack
<1>4. e.win = Run(w, cmds) /\ e.done = TRUE /\ e.fails = 0
  <2> HIDE DEF cmds
  <2> QED BY <1>2, <1>3, EndsNow
<1> HIDE DEF x
<1>5. PICK k \in Unflagged(l, client, 0) :
        r = [lease |-> x, win |-> e.win, client |-> k, fails |-> e.fails]
  <2> HIDE DEF cmds
  <2> QED BY <1>3, <1>4
<1>6. OwnFlags(k) /\ SameHere(k) BY <1>1, <1>5, UnflaggedLeaves DEF SameHere
<1>7. e.win.mouse = l.snap.mouse /\ e.win.zoomed = l.snap.zoomed
  BY <1>1, <1>4, RestoreLeaves
<1> HIDE DEF cmds
<1> QED BY <1>4, <1>5, <1>6, <1>7 DEF x, Lost

LEMMA FreedLeaves ==
  ASSUME TypeOK, Whole, NEW l \in Leases, NEW w \in Windows, Kept(l, client),
         NEW r \in Freed(l, w, client, 0)
  PROVE  /\ r.fails = 0
         /\ r.win.mouse = l.snap.mouse
         /\ IF l.owner = "mobile" THEN r.win.zoomed = l.snap.zoomed
                                  ELSE r.win.zoomed = w.zoomed
         /\ OwnFlags(r.client) /\ SameHere(r.client)
<1> DEFINE out == <<Policy(l.snap.policy), Mouse(l.snap.mouse)>>
           cmds == IF l.owner = "mobile" THEN Restore(l.snap, None) ELSE out
<1>1. /\ l.snap \in Windows /\ l.snap.mouse \in {"on", "off"}
      /\ l.snap.policy \in {"latest", "largest", "smallest", "manual"}
      /\ client \in DesktopClients
  BY DEF Leases, Windows, TypeOK, DesktopClients
<1>2. out \in Seq(Commands) BY <1>1, CommandsTyped, Tuples, SeqOuter
<1>3. cmds \in Seq(Commands) BY <1>1, <1>2, RestoreTyped
<1>4. PICK q \in Released(l, w, client, 0) :
        r = [lease |-> None, win |-> q.win, client |-> q.client, fails |-> q.fails]
  BY DEF Freed
<1>5. PICK e \in Ends(w, cmds, 0) :
        \E k \in IF e.done THEN Unflagged(l, client, 0) ELSE {client} :
          q = [win |-> e.win, client |-> k, fails |-> e.fails]
  BY <1>4 DEF Released
<1>6. e.win = Run(w, cmds) /\ e.done = TRUE /\ e.fails = 0
  <2> HIDE DEF cmds
  <2> QED BY <1>3, <1>5, EndsNow
<1>7. PICK k \in Unflagged(l, client, 0) :
        q = [win |-> e.win, client |-> k, fails |-> e.fails]
  <2> HIDE DEF cmds
  <2> QED BY <1>5, <1>6
<1>8. OwnFlags(k) /\ SameHere(k) BY <1>1, <1>7, UnflaggedLeaves DEF SameHere
<1>9. CASE l.owner = "mobile"
  <2>1. e.win = Run(w, Restore(l.snap, None)) BY <1>6, <1>9
  <2>2. e.win.mouse = l.snap.mouse /\ e.win.zoomed = l.snap.zoomed
    BY <1>1, <2>1, RestoreLeaves
  <2> HIDE DEF cmds
  <2> QED BY <1>4, <1>6, <1>7, <1>8, <1>9, <2>2
<1>10. CASE l.owner # "mobile"
  <2> DEFINE i == Policy(l.snap.policy)  j == Mouse(l.snap.mouse)  u == Apply(w, i)
  <2>1. Run(w, <<i, j>>) = Apply(u, j)
    <3> HIDE DEF i, j
    <3> QED BY RunTwo
  <2>2. u \in Windows /\ u.zoomed = w.zoomed BY <1>1, PolicyLeaves
  <2> HIDE DEF u
  <2>3. Apply(u, j).mouse = l.snap.mouse /\ Apply(u, j).zoomed = u.zoomed
    BY <1>1, <2>2, MouseLeaves
  <2>4. e.win = Apply(u, j) BY <1>6, <1>10, <2>1
  <2> HIDE DEF cmds, j
  <2> QED BY <1>4, <1>6, <1>7, <1>8, <1>10, <2>2, <2>3, <2>4
<1> QED BY <1>9, <1>10
-----------------------------------------------------------------------------
(* The window and its clients go back, when nothing fails *)

HomeWin(w) == w.mouse = UserMouse /\ (w.zoomed => UserZoomed)

\* What holds of a lease, the window and its clients together: the desktop
\* has what it had, the lease knows how to give it back, and whoever has the
\* window has it in its size.
Good(l, w, cl) ==
  /\ l = None \/ l.owner = "desktop" => HomeWin(w) /\ OwnFlags(cl)
  /\ l # None => HomeWin(l.snap) /\ Kept(l, cl)
  /\ l # None /\ l.owner = "mobile"
       => w.policy = "manual" /\ w.size = l.mobile /\ w.mouse = "on"
  /\ "move" \notin Events /\ l # None /\ l.owner = "desktop"
       => IF l.latest = None THEN \A d \in Desktops : ~cl[d].here
          ELSE w.policy # "manual" \/ w.size = l.latest.size

Handing == TypeOK /\ Whole /\ Good(lease, win, client)

Still == failures' = 0 /\ panes' = panes /\ Good(lease', win', client')

LEMMA BecomesGood ==
  ASSUME NEW r, Becomes(r), r.fails = 0, Good(r.lease, r.win, r.client)
  PROVE  Still
BY DEF Becomes, Still

\* A lease of the phone.
LEMMA MobileGood ==
  ASSUME NEW l \in Leases, NEW w, NEW cl, l.owner = "mobile",
         HomeWin(l.snap), Kept(l, cl),
         w.policy = "manual", w.size = l.mobile, w.mouse = "on"
  PROVE  Good(l, w, cl)
BY NoneAssumption DEF Good

\* A lease that the desktop has.
LEMMA DesktopGood ==
  ASSUME NEW l \in Leases, NEW w, NEW cl, l.owner = "desktop", l.saved = Nothing,
         HomeWin(l.snap), HomeWin(w), OwnFlags(cl),
         IF l.latest = None THEN \A d \in Desktops : ~cl[d].here
         ELSE w.policy # "manual" \/ w.size = l.latest.size
  PROVE  Good(l, w, cl)
<1>1. \A d \in Desktops : l.saved[d] = "none" BY DEF Nothing
<1>2. Kept(l, cl) BY <1>1 DEF Kept, OwnFlags
<1> QED BY <1>2 DEF Good

\* What a handler of a lease may count on.
LEMMA HandingFacts ==
  ASSUME Handing
  PROVE  /\ TypeOK /\ Whole /\ failures = 0 /\ 0 \in 0..MaxFailures
         /\ win \in Windows
         /\ client \in DesktopClients
         /\ lease # None => /\ lease \in Leases /\ HomeWin(lease.snap)
                            /\ Kept(lease, client)
BY TypeFacts, FailuresAssumption DEF Handing, Whole, Good

LEMMA ReconciledBoth ==
  ASSUME Handing, NEW l \in Leases, NEW z \in Sizes,
         NEW r \in Reconciled(l, win, z, failures)
  PROVE  r.done = TRUE /\ r.lease \in Leases /\ Mobilized(r, l, z)
<1>1. failures = 0 /\ TypeOK /\ Whole /\ win \in Windows /\ 0 \in 0..MaxFailures
  BY HandingFacts
<1>2. r \in Reconciled(l, win, z, 0) BY <1>1
<1>3. r.lease \in Leases BY <1>1, <1>2, ReconciledTyped
<1>4. r.done = TRUE /\ Mobilized(r, l, z) BY <1>1, <1>2, ReconciledLeaves
<1> QED BY <1>3, <1>4

LEMMA ReconcileGood ==
  ASSUME Handing, NEW l \in Leases, HomeWin(l.snap), NEW z \in Sizes,
         NEW cl, Kept(l, cl), NEW r \in Reconciled(l, win, z, failures), NEW s,
         Becomes([lease |-> s, win |-> r.win, client |-> cl, fails |-> r.fails]),
         s \in Leases, s.owner = r.lease.owner, s.mobile = r.lease.mobile,
         s.snap = r.lease.snap, s.saved = r.lease.saved
  PROVE  Still
<1>1. Mobilized(r, l, z) BY ReconciledBoth
<1>2. /\ r.fails = 0 /\ s.owner = "mobile" /\ s.mobile = z
      /\ s.snap = l.snap /\ s.saved = l.saved
      /\ r.win.mouse = "on" /\ r.win.policy = "manual" /\ r.win.size = z
  BY <1>1 DEF Mobilized
<1>3. Kept(s, cl) BY <1>2 DEF Kept
<1>4. Good(s, r.win, cl) BY <1>2, <1>3, MobileGood
<1> DEFINE x == [lease |-> s, win |-> r.win, client |-> cl, fails |-> r.fails]
<1>5. x.lease = s /\ x.win = r.win /\ x.client = cl /\ x.fails = 0 BY <1>2
<1>6. Becomes(x) OBVIOUS
<1> HIDE DEF x
<1> QED BY <1>4, <1>5, <1>6, BecomesGood

LEMMA GrabGood ==
  ASSUME Handing, NEW l \in Leases, HomeWin(l.snap), Kept(l, client),
         NEW z \in Sizes, Grab(l, z, "attached")
  PROVE  Still
<1>1. TypeOK /\ Whole /\ failures = 0 /\ win \in Windows
  BY TypeFacts DEF Handing, Whole
<1>2. PICK t \in Protected(l, failures) :
        \E r \in Reconciled(t.lease, win, z, failures) :
          Becomes([lease |-> IF r.done THEN [r.lease EXCEPT !.stage = "attached"]
                             ELSE r.lease, win |-> r.win,
                   client |-> t.client, fails |-> r.fails])
  BY DEF Grab
<1>3. t.lease \in Leases /\ t.lease.snap = l.snap /\ Kept(t.lease, t.client)
  BY <1>1, <1>2, ProtectedTyped, ProtectedLeaves
<1>4. PICK r \in Reconciled(t.lease, win, z, failures) :
        Becomes([lease |-> IF r.done THEN [r.lease EXCEPT !.stage = "attached"]
                           ELSE r.lease, win |-> r.win,
                 client |-> t.client, fails |-> r.fails])
  BY <1>2
<1> DEFINE s == IF r.done THEN [r.lease EXCEPT !.stage = "attached"] ELSE r.lease
<1>5. r.lease \in Leases BY <1>3, <1>4, ReconciledBoth
<1>6. /\ s \in Leases /\ s.owner = r.lease.owner /\ s.mobile = r.lease.mobile
      /\ s.snap = r.lease.snap /\ s.saved = r.lease.saved
  BY <1>5 DEF Leases
<1>7. Becomes([lease |-> s, win |-> r.win, client |-> t.client, fails |-> r.fails])
  BY <1>4
<1>8. HomeWin(t.lease.snap) BY <1>3
<1> HIDE DEF s
<1> QED BY <1>3, <1>4, <1>6, <1>7, <1>8, ReconcileGood

LEMMA PrepareGood ==
  ASSUME Handing, NEW p \in Panes, NEW z \in Sizes, Prepare(p, z)
  PROVE  Still
<1> DEFINE fresh == [stage |-> "prepared", pane |-> p, snap |-> win,
                     owner |-> "mobile", mobile |-> z, latest |-> None,
                     saved |-> Nothing, seen |-> None, quiet |-> FALSE]
<1>1. TypeOK /\ Whole /\ failures = 0 /\ win \in Windows /\ lease = None
  BY TypeFacts DEF Handing, Whole, Prepare
<1>2. HomeWin(win) /\ OwnFlags(client) BY <1>1 DEF Handing, Good
<1>3. fresh \in Leases /\ fresh.snap = win /\ \A d \in Desktops : fresh.saved[d] = "none"
  BY <1>1 DEF Leases, Nothing
<1>4. PICK t \in Protected(fresh, failures) :
        \E r \in Reconciled(t.lease, win, z, failures) :
          IF r.done
          THEN Becomes([lease |-> r.lease, win |-> r.win, client |-> t.client,
                        fails |-> r.fails])
          ELSE \E x \in Freed(r.lease, r.win, t.client, r.fails) : Becomes(x)
  BY DEF Prepare
<1> HIDE DEF fresh
<1>5. Kept(fresh, client) BY <1>2, <1>3 DEF Kept, OwnFlags
<1>6. t.lease \in Leases /\ t.lease.snap = win /\ Kept(t.lease, t.client)
  BY <1>1, <1>3, <1>4, <1>5, ProtectedTyped, ProtectedLeaves
<1>7. PICK r \in Reconciled(t.lease, win, z, failures) :
        IF r.done
        THEN Becomes([lease |-> r.lease, win |-> r.win, client |-> t.client,
                      fails |-> r.fails])
        ELSE \E x \in Freed(r.lease, r.win, t.client, r.fails) : Becomes(x)
  BY <1>4
<1>8. r.done = TRUE /\ r.lease \in Leases
  BY <1>6, <1>7, ReconciledBoth
<1>9. Becomes([lease |-> r.lease, win |-> r.win, client |-> t.client,
               fails |-> r.fails])
  BY <1>7, <1>8
<1>10. HomeWin(t.lease.snap) BY <1>2, <1>6
<1> QED BY <1>6, <1>7, <1>8, <1>9, <1>10, ReconcileGood

LEMMA AttachGood ==
  ASSUME Handing, NEW z \in Sizes, Attach(z)
  PROVE  Still
<1> DEFINE l == [lease EXCEPT !.stage = "client"]
<1>1. lease # None /\ Grab(l, z, "attached") BY DEF Attach
<1>2. l \in Leases /\ l.snap = lease.snap /\ l.saved = lease.saved
  BY <1>1, HandingFacts DEF Leases
<1> HIDE DEF l
<1>3. HomeWin(l.snap) /\ Kept(l, client)
  BY <1>1, <1>2, HandingFacts DEF Kept
<1> QED BY <1>1, <1>2, <1>3, GrabGood

LEMMA MeasuredGood ==
  ASSUME Handing, lease # None, NEW z \in Sizes, Measured(z)
  PROVE  Still
<1> DEFINE l == [lease EXCEPT !.mobile = z]
<1>1. /\ l \in Leases /\ l.snap = lease.snap /\ l.saved = lease.saved
      /\ l.owner = lease.owner /\ l.latest = lease.latest /\ l.mobile = z
      /\ lease \in Leases
  BY HandingFacts DEF Leases
<1>2. HomeWin(l.snap) /\ Kept(l, client) BY <1>1, HandingFacts DEF Kept
<1>3. \/ /\ lease.owner = "desktop" \/ z = lease.mobile
         /\ Becomes([lease |-> l, win |-> win, client |-> client,
                     fails |-> failures])
      \/ \E r \in Reconciled(l, win, z, failures) :
           Becomes([lease |-> r.lease, win |-> r.win, client |-> client,
                    fails |-> r.fails])
  BY DEF Measured
<1> HIDE DEF l
<1>4. CASE /\ lease.owner = "desktop" \/ z = lease.mobile
           /\ Becomes([lease |-> l, win |-> win, client |-> client,
                       fails |-> failures])
  <2> DEFINE x == [lease |-> l, win |-> win, client |-> client, fails |-> failures]
  <2>1. x.lease = l /\ x.win = win /\ x.client = client /\ x.fails = 0
    BY HandingFacts
  <2>2. Becomes(x) BY <1>4
  <2>3. Good(l, win, client)
    <3>1. Good(lease, win, client) BY DEF Handing
    <3> QED BY <1>1, <1>2, <1>4, <3>1, NoneAssumption DEF Good
  <2> HIDE DEF x
  <2> QED BY <2>1, <2>2, <2>3, BecomesGood
<1>5. ASSUME NEW r \in Reconciled(l, win, z, failures),
             Becomes([lease |-> r.lease, win |-> r.win, client |-> client,
                      fails |-> r.fails])
      PROVE  Still
  <2>1. r.lease \in Leases BY <1>1, <1>5, ReconciledBoth
  <2> QED BY <1>1, <1>2, <1>5, <2>1, ReconcileGood
<1> QED BY <1>3, <1>4, <1>5

LEMMA ClaimGood ==
  ASSUME Handing, NEW z \in Sizes \cup {None}, ClaimMobile(z)
  PROVE  Still
<1>1. lease # None /\ lease \in Leases BY HandingFacts DEF ClaimMobile
<1>2. CASE lease.owner = "mobile"
  <2>1. z \in Sizes /\ Measured(z) BY <1>2 DEF ClaimMobile
  <2> QED BY <1>1, <2>1, MeasuredGood
<1>3. CASE lease.owner # "mobile"
  <2> DEFINE again == [lease EXCEPT !.snap = win]
             held == [again EXCEPT !.owner = "mobile"]
             y == IF z = None THEN lease.mobile ELSE z
  <2>1. again \in Leases /\ again.saved = lease.saved /\ again.snap = win
    BY <1>1, HandingFacts DEF Leases
  <2>2. Grab(held, y, "attached")
    <3>1. ~(failures < MaxFailures) BY HandingFacts DEF Whole
    <3> QED BY <1>3, <3>1 DEF ClaimMobile
  <2> HIDE DEF again
  <2>3. held \in Leases /\ held.saved = lease.saved /\ held.snap = win
    BY <2>1 DEF Leases
  <2>4. y \in Sizes BY <1>1 DEF Leases
  <2>5. HomeWin(win)
    <3>1. lease.owner = "desktop" BY <1>1, <1>3 DEF Leases
    <3> QED BY <3>1 DEF Handing, Good
  <2> HIDE DEF held, y
  <2>6. HomeWin(held.snap) /\ Kept(held, client)
    BY <1>1, <2>3, <2>5, HandingFacts DEF Kept
  <2> QED BY <2>2, <2>3, <2>4, <2>6, GrabGood
<1> QED BY <1>2, <1>3

LEMMA ReassertGood ==
  ASSUME Handing, Reassert
  PROVE  Still
<1>1. lease # None /\ lease \in Leases /\ lease.mobile \in Sizes
  BY HandingFacts DEF Reassert, Leases
<1>2. PICK r \in Reconciled(lease, win, lease.mobile, failures) :
        Becomes([lease |-> r.lease, win |-> r.win, client |-> client,
                 fails |-> r.fails])
  BY DEF Reassert
<1>3. r.lease \in Leases BY <1>1, <1>2, ReconciledBoth
<1> QED BY <1>1, <1>2, <1>3, HandingFacts, ReconcileGood

\* What the desktop took, and what it got back.
LEMMA TakenGood ==
  ASSUME Handing, lease # None, NEW d \in Desktops,
         NEW r \in Taken(lease, d, failures)
  PROVE  r.lease.owner = "desktop" /\ (Becomes(r) => Still)
<1>1. /\ TypeOK /\ Whole /\ failures = 0 /\ lease \in Leases
      /\ HomeWin(lease.snap) /\ Kept(lease, client)
  BY HandingFacts
<1>2. r \in Taken(lease, d, 0) BY <1>1
<1> DEFINE l == Lost(lease, View(d))
<1>3. r.lease = l BY <1>1, <1>2, TakenLeaves
<1>4. r.fails = 0 /\ OwnFlags(r.client) BY <1>1, <1>2, TakenLeaves
<1>5. r.win.mouse = lease.snap.mouse BY <1>1, <1>2, TakenLeaves
<1>6. r.win.zoomed => lease.snap.zoomed BY <1>1, <1>2, TakenLeaves
<1>7. r.win.policy = "manual" BY <1>1, <1>2, TakenLeaves
<1>8. r.win.size = client[d].size BY <1>1, <1>2, TakenLeaves
<1>9. /\ r.fails = 0 /\ r.lease = l
      /\ r.win.mouse = lease.snap.mouse /\ (r.win.zoomed => lease.snap.zoomed)
      /\ r.win.policy = "manual" /\ r.win.size = client[d].size
      /\ OwnFlags(r.client)
  BY <1>3, <1>4, <1>5, <1>6, <1>7, <1>8
<1>10. View(d) \in Views /\ View(d).size = client[d].size
  BY <1>1, ViewTyped DEF View
<1>11. /\ l \in Leases /\ l.owner = "desktop" /\ l.saved = Nothing
      /\ l.snap = lease.snap /\ l.latest = View(d)
  BY <1>1, <1>10 DEF Leases, Nothing, Lost
<1> HIDE DEF l
<1>12. HomeWin(r.win) BY <1>1, <1>9 DEF HomeWin
<1>13. l.latest # None BY <1>10, <1>11, NoneAssumption
<1>14. Good(l, r.win, r.client)
  BY <1>1, <1>9, <1>10, <1>11, <1>12, <1>13, DesktopGood
<1> QED BY <1>9, <1>11, <1>14, BecomesGood

LEMMA FollowedGood ==
  ASSUME Handing, lease # None, lease.owner = "desktop", NEW d \in Desktops,
         NEW cmds \in {<<>>, <<Resize(client[d].size)>>,
                       <<Policy("manual"), Resize(client[d].size)>>},
         cmds = <<>> => lease.latest # None /\ lease.latest.size = client[d].size,
         NEW e \in Ends(win, cmds, failures),
         Becomes([lease |-> [lease EXCEPT !.latest = View(d)], win |-> e.win,
                  client |-> client, fails |-> e.fails])
  PROVE  Still
<1>1. /\ TypeOK /\ Whole /\ failures = 0 /\ lease \in Leases /\ win \in Windows
      /\ HomeWin(lease.snap) /\ Kept(lease, client)
  BY HandingFacts
<1> DEFINE l == [lease EXCEPT !.latest = View(d)]
           x == [lease |-> l, win |-> e.win, client |-> client, fails |-> e.fails]
           z == client[d].size
<1>2. z \in Sizes BY <1>1 DEF TypeOK
<1>3. cmds \in Seq(Commands) BY <1>1, FollowTyped, SeqOuter, Tuples
<1>4. e.win = Run(win, cmds) /\ e.fails = 0 BY <1>1, <1>3, EndsNow
<1>5. View(d) \in Views /\ View(d).size = z /\ View(d) # None
  BY <1>1, ViewTyped, NoneAssumption DEF View
<1>6. /\ l \in Leases /\ l.owner = "desktop" /\ l.saved = lease.saved
      /\ l.snap = lease.snap /\ l.latest = View(d)
  BY <1>1, <1>5 DEF Leases
<1>7. /\ HomeWin(win) /\ OwnFlags(client)
      /\ "move" \notin Events /\ lease.latest # None
           => win.policy # "manual" \/ win.size = lease.latest.size
  BY DEF Handing, Good
<1>8. /\ e.win.mouse = win.mouse /\ e.win.zoomed = win.zoomed
      /\ \/ cmds = <<>> /\ e.win = win
         \/ e.win.size = z
  <2>1. CASE cmds = <<>> BY <1>4, <2>1, RunNone
  <2>2. CASE cmds = <<Resize(client[d].size)>>
    <3> DEFINE i == Resize(z)
    <3>1. Run(win, <<i>>) = Apply(win, i)
      <4> HIDE DEF i
      <4> QED BY RunOne
    <3> QED BY <1>1, <1>2, <1>4, <2>2, <3>1, ResizeLeaves
  <2>3. CASE cmds = <<Policy("manual"), Resize(client[d].size)>>
    <3> DEFINE i == Policy("manual")  j == Resize(z)  u == Apply(win, i)
    <3>1. Run(win, <<i, j>>) = Apply(u, j)
      <4> HIDE DEF i, j
      <4> QED BY RunTwo
    <3>2. u \in Windows /\ u.mouse = win.mouse /\ u.zoomed = win.zoomed
      BY <1>1, PolicyLeaves
    <3> HIDE DEF u
    <3>3. /\ Apply(u, j).mouse = u.mouse /\ Apply(u, j).zoomed = u.zoomed
          /\ Apply(u, j).size = z
      BY <1>2, <3>2, ResizeLeaves
    <3>4. e.win = Apply(u, j) BY <1>4, <2>3, <3>1
    <3> HIDE DEF j
    <3> QED BY <3>2, <3>3, <3>4
  <2> QED BY <2>1, <2>2, <2>3
<1>9. x.lease = l /\ x.win = e.win /\ x.client = client /\ x.fails = 0
  BY <1>4
<1>10. Becomes(x) OBVIOUS
<1> HIDE DEF l, x, z
<1>11. HomeWin(e.win) BY <1>7, <1>8 DEF HomeWin
<1>12. Kept(l, client) BY <1>1, <1>6 DEF Kept
<1>13. "move" \notin Events => e.win.policy # "manual" \/ e.win.size = View(d).size
  <2>1. CASE cmds = <<>> /\ e.win = win BY <1>5, <1>7, <2>1 DEF z
  <2>2. CASE e.win.size = z BY <1>5, <2>2
  <2> QED BY <1>8, <2>1, <2>2
<1>14. Good(l, e.win, client)
  BY <1>1, <1>5, <1>6, <1>7, <1>11, <1>12, <1>13, NoneAssumption DEF Good
<1> QED BY <1>9, <1>10, <1>14, BecomesGood

LEMMA ReturnGood ==
  ASSUME Handing, ReturnToDesktop
  PROVE  Still
<1>1. /\ TypeOK /\ Whole /\ failures = 0 /\ lease # None /\ lease \in Leases
      /\ HomeWin(lease.snap) /\ Kept(lease, client) /\ win \in Windows
  BY HandingFacts DEF ReturnToDesktop
<1>2. ASSUME NEW d \in Here, NEW r \in Taken(lease, d, failures),
             IF r.lease.owner = "desktop" THEN Becomes(r)
             ELSE \E x \in FellBack(r.lease, r.win, r.client, r.fails) : Becomes(x)
      PROVE  Still
  <2>1. d \in Desktops BY DEF Here
  <2> QED BY <1>1, <1>2, <2>1, TakenGood
<1>3. ASSUME Here = {}, NEW r \in FellBack(lease, win, client, failures), Becomes(r)
      PROVE  Still
  <2> DEFINE l == Lost(lease, None)
  <2>1. r \in FellBack(lease, win, client, 0) BY <1>1
  <2>2. r.lease = l BY <1>1, <2>1, FellBackLeaves
  <2>3. r.fails = 0 /\ OwnFlags(r.client) /\ SameHere(r.client)
    BY <1>1, <2>1, FellBackLeaves
  <2>4. r.win.mouse = lease.snap.mouse BY <1>1, <2>1, FellBackLeaves
  <2>5. r.win.zoomed = lease.snap.zoomed BY <1>1, <2>1, FellBackLeaves
  <2>6. /\ r.fails = 0 /\ r.lease = l
        /\ r.win.mouse = lease.snap.mouse /\ r.win.zoomed = lease.snap.zoomed
        /\ OwnFlags(r.client) /\ SameHere(r.client)
    BY <2>2, <2>3, <2>4, <2>5
  <2>7. /\ l \in Leases /\ l.owner = "desktop" /\ l.saved = Nothing
        /\ l.snap = lease.snap /\ l.latest = None
    BY <1>1 DEF Leases, Nothing, Lost
  <2> HIDE DEF l
  <2>8. HomeWin(r.win) BY <1>1, <2>6 DEF HomeWin
  <2>9. \A d \in Desktops : ~r.client[d].here
    BY <1>3, <2>6 DEF SameHere, Here
  <2>10. Good(l, r.win, r.client)
    BY <1>1, <2>6, <2>7, <2>8, <2>9, DesktopGood
  <2> QED BY <1>3, <2>6, <2>10, BecomesGood
<1>4. ~(failures < MaxFailures) BY <1>1 DEF Whole
<1> QED BY <1>2, <1>3, <1>4 DEF ReturnToDesktop

LEMMA FreedGood ==
  ASSUME Handing, lease # None, NEW r \in Freed(lease, win, client, failures)
  PROVE  r.fails = 0 /\ r.lease = None /\ Good(r.lease, r.win, r.client)
<1>1. /\ TypeOK /\ Whole /\ failures = 0 /\ lease \in Leases
      /\ HomeWin(lease.snap) /\ Kept(lease, client) /\ win \in Windows
  BY HandingFacts
<1>2. r \in Freed(lease, win, client, 0) BY <1>1
<1>3. /\ r.fails = 0
      /\ r.win.mouse = lease.snap.mouse
      /\ IF lease.owner = "mobile" THEN r.win.zoomed = lease.snap.zoomed
                                   ELSE r.win.zoomed = win.zoomed
      /\ OwnFlags(r.client)
  BY <1>1, <1>2, FreedLeaves
<1>4. r.lease = None BY DEF Freed
<1>5. lease.owner # "mobile" => HomeWin(win)
  BY <1>1 DEF Handing, Good, Leases
<1>6. HomeWin(r.win) BY <1>1, <1>3, <1>5 DEF HomeWin
<1> QED BY <1>3, <1>4, <1>6 DEF Good

LEMMA ReleaseGood ==
  ASSUME Handing, Release
  PROVE  Still
<1>1. lease # None BY DEF Release
<1>2. PICK r \in Freed(lease, win, client, failures) : Becomes(r)
  BY DEF Release
<1> QED BY <1>1, <1>2, FreedGood, BecomesGood

LEMMA DisposeGood ==
  ASSUME Handing, Dispose
  PROVE  Still
<1>1. PICK r \in IF lease = None
                 THEN {[lease |-> None, win |-> win, client |-> client,
                        fails |-> failures]}
                 ELSE Freed(lease, win, client, failures) :
        /\ lease' = r.lease /\ win' = r.win /\ client' = r.client
        /\ failures' = r.fails
  BY DEF Dispose
<1>2. r.fails = 0 /\ Good(r.lease, r.win, r.client)
  <2>1. CASE lease = None
    <3>1. /\ r.lease = lease /\ r.win = win /\ r.client = client
          /\ r.fails = failures
      BY <1>1, <2>1
    <3> QED BY <3>1, HandingFacts DEF Handing
  <2>2. CASE lease # None BY <1>1, <2>2, FreedGood
  <2> QED BY <2>1, <2>2
<1> QED BY <1>1, <1>2 DEF Still, Dispose

LEMMA HookGood ==
  ASSUME Handing, NEW d \in Desktops, NEW event, NEW advanced,
         Hook(d, event, advanced)
  PROVE  Still
<1>1. /\ TypeOK /\ Whole /\ failures = 0 /\ lease # None /\ lease \in Leases
      /\ HomeWin(lease.snap) /\ Kept(lease, client) /\ d \in Here
  BY HandingFacts DEF Hook, Attached
<1> DEFINE l == [lease EXCEPT !.latest = View(d)]
           x == [lease |-> l, win |-> win, client |-> client, fails |-> failures]
<1>2. \/ lease.latest = None /\ Becomes(x)
      \/ \E r \in ClaimedByDesktop(lease, d, failures) : Becomes(r)
  BY DEF Hook
<1>3. CASE lease.latest = None /\ Becomes(x)
  <2>1. x.lease = l /\ x.win = win /\ x.client = client /\ x.fails = 0 BY <1>1
  <2>2. Becomes(x) BY <1>3
  <2>3. /\ l \in Leases /\ l.owner = lease.owner /\ l.saved = lease.saved
        /\ l.snap = lease.snap /\ l.mobile = lease.mobile
    BY <1>1, ViewTyped DEF Leases
  <2> HIDE DEF l, x
  <2>4. Kept(l, client) BY <1>1, <2>3 DEF Kept
  <2>5. Good(lease, win, client) BY DEF Handing
  <2>6. ~("move" \notin Events /\ lease.owner = "desktop")
    BY <1>1, <1>3, <2>5 DEF Good, Here
  <2>7. Good(l, win, client)
    BY <1>1, <2>3, <2>4, <2>5, <2>6, NoneAssumption DEF Good
  <2> QED BY <2>1, <2>2, <2>7, BecomesGood
<1> HIDE DEF l, x
<1>4. ASSUME NEW r \in ClaimedByDesktop(lease, d, failures), Becomes(r)
      PROVE  Still
  <2>1. CASE lease.owner # "desktop"
    BY <1>1, <1>4, <2>1, TakenGood DEF ClaimedByDesktop
  <2>2. CASE lease.owner = "desktop"
    <3> DEFINE same == /\ lease.latest # None
                       /\ lease.latest.name = d /\ lease.latest.size = client[d].size
               cmds == IF same THEN <<>>
                       ELSE <<Policy("manual"), Resize(client[d].size)>>
    <3>1. PICK e \in Ends(win, cmds, failures) :
            r = [lease |-> [lease EXCEPT !.latest = View(d)], win |-> e.win,
                 client |-> client, fails |-> e.fails]
      BY <2>2 DEF ClaimedByDesktop, Followed
    <3>2. cmds \in {<<>>, <<Resize(client[d].size)>>,
                    <<Policy("manual"), Resize(client[d].size)>>}
      OBVIOUS
    <3>3. cmds = <<>> => lease.latest # None /\ lease.latest.size = client[d].size
      OBVIOUS
    <3>4. Becomes([lease |-> [lease EXCEPT !.latest = View(d)], win |-> e.win,
                   client |-> client, fails |-> e.fails])
      BY <1>4, <3>1
    <3> HIDE DEF cmds
    <3> QED BY <1>1, <2>2, <3>1, <3>2, <3>3, <3>4, FollowedGood
  <2> QED BY <2>1, <2>2
<1> QED BY <1>2, <1>3, <1>4

LEMMA PollGood ==
  ASSUME Handing, Poll
  PROVE  Still
<1>1. lease # None BY DEF Poll, Attached
<1>2. PICK d \in Stable : PollTakes(d) \/ PollFollows(d) BY DEF Poll
<1>3. d \in Desktops BY <1>2 DEF Stable, Here
<1>4. CASE PollTakes(d) BY <1>1, <1>3, <1>4, TakenGood DEF PollTakes
<1>5. CASE PollFollows(d)
  <2> DEFINE cmds == <<Resize(client[d].size)>>
  <2>1. PICK e \in Ends(win, cmds, failures) :
          Becomes([lease |-> [lease EXCEPT !.latest = View(d)], win |-> e.win,
                   client |-> client, fails |-> e.fails])
    BY <1>5 DEF PollFollows
  <2>2. lease.owner = "desktop" BY <1>5 DEF PollFollows
  <2>3. cmds \in {<<>>, <<Resize(client[d].size)>>,
                  <<Policy("manual"), Resize(client[d].size)>>} /\ cmds # <<>>
    OBVIOUS
  <2> HIDE DEF cmds
  <2> QED BY <1>1, <1>3, <2>1, <2>2, <2>3, FollowedGood
<1> QED BY <1>2, <1>4, <1>5

LEMMA QuietGood ==
  ASSUME Handing, QuietEnds
  PROVE  Still
<1>1. lease # None /\ lease \in Leases BY HandingFacts DEF QuietEnds
<1>2. /\ lease' \in Leases /\ lease'.owner = lease.owner
      /\ lease'.mobile = lease.mobile /\ lease'.snap = lease.snap
      /\ lease'.saved = lease.saved /\ lease'.latest = lease.latest
  BY <1>1 DEF QuietEnds, Leases
<1>3. Kept(lease', client) BY <1>1, <1>2, HandingFacts DEF Kept
<1>4. win' = win /\ client' = client /\ failures' = 0 /\ panes' = panes
  BY HandingFacts DEF QuietEnds
<1>5. Good(lease, win, client) BY DEF Handing
<1>6. Good(lease', win, client)
  BY <1>1, <1>2, <1>3, <1>5, NoneAssumption DEF Good
<1> QED BY <1>4, <1>6 DEF Still

\* Users move, focus and resize their clients: the flags are not theirs.
LEMMA SeesGood ==
  ASSUME Handing, NEW d \in Desktops, NEW c, Sees(d, c),
         c.flag = client[d].flag, "move" \in Events \/ c.here = client[d].here
  PROVE  Still
<1>1. \A x \in Desktops : client'[x] = IF x = d THEN c ELSE client[x]
  BY HandingFacts DEF Sees, DesktopClients
<1>2. \A x \in Desktops :
        /\ client'[x].flag = client[x].flag
        /\ "move" \notin Events => client'[x].here = client[x].here
  BY <1>1
<1>3. lease' = lease /\ win' = win /\ failures' = 0 /\ panes' = panes
  BY HandingFacts DEF Sees
<1>4. Kept(lease, client) => Kept(lease, client') BY <1>2 DEF Kept
<1>5. OwnFlags(client) => OwnFlags(client') BY <1>2 DEF OwnFlags
<1>6. Good(lease, win, client) BY DEF Handing
<1>7. Good(lease, win, client') BY <1>2, <1>4, <1>5, <1>6 DEF Good
<1> QED BY <1>3, <1>7 DEF Still

\* So does a window that keeps its options, if its size is its own.
LEMMA WindowGood ==
  ASSUME Handing, UNCHANGED <<panes, client, lease, failures>>,
         win'.mouse = win.mouse, win'.policy = win.policy,
         win'.zoomed => win.zoomed,
         win'.size = win.size \/ win.policy # "manual"
  PROVE  Still
<1>1. lease # None => lease \in Leases BY HandingFacts
<1>2. Good(lease, win, client) BY DEF Handing
<1>3. HomeWin(win) => HomeWin(win') BY DEF HomeWin
<1>4. Good(lease, win', client) BY <1>1, <1>2, <1>3 DEF Good
<1> QED BY <1>4, HandingFacts DEF Still

LEMMA EnvironmentGood ==
  ASSUME Handing, Environment
  PROVE  Still
<1>1. ASSUME NEW d \in Desktops, DesktopMoves(d) PROVE Still
  <2> DEFINE c == [client[d] EXCEPT !.here = ~@]
  <2>1. c.flag = client[d].flag BY HandingFacts DEF DesktopClients
  <2>2. Sees(d, c) /\ "move" \in Events BY <1>1 DEF DesktopMoves
  <2> HIDE DEF c
  <2> QED BY <2>1, <2>2, SeesGood
<1>2. ASSUME NEW d \in Desktops, DesktopFocus(d) PROVE Still
  <2> DEFINE c == [client[d] EXCEPT !.focused = ~@]
  <2>1. c.flag = client[d].flag /\ c.here = client[d].here
    BY HandingFacts DEF DesktopClients
  <2>2. Sees(d, c) BY <1>2 DEF DesktopFocus
  <2> HIDE DEF c
  <2> QED BY <2>1, <2>2, SeesGood
<1>3. ASSUME NEW d \in Desktops, NEW z \in Sizes, DesktopResizes(d, z) PROVE Still
  <2> DEFINE c == [client[d] EXCEPT !.size = z]
  <2>1. c.flag = client[d].flag /\ c.here = client[d].here
    BY HandingFacts DEF DesktopClients
  <2>2. Sees(d, c) BY <1>3 DEF DesktopResizes
  <2> HIDE DEF c
  <2> QED BY <2>1, <2>2, SeesGood
<1>4. ASSUME NEW s \in Shapes, NEW p \in Panes, UserReshapes(s, p) PROVE Still
  <2>1. win' = [win EXCEPT !.shape = s, !.active = p, !.zoomed = FALSE]
        /\ UNCHANGED <<panes, client, lease, failures>>
    BY <1>4 DEF UserReshapes
  <2>2. /\ win'.mouse = win.mouse /\ win'.policy = win.policy
        /\ win'.size = win.size /\ win'.zoomed = FALSE
    BY <2>1, HandingFacts DEF Windows
  <2> QED BY <2>1, <2>2, WindowGood
<1>5. ASSUME NEW s \in Shapes, NEW p \in Panes, PaneCloses(p, s) PROVE Still
  BY <1>5, HandingFacts DEF PaneCloses, Whole
<1>6. ASSUME Follow PROVE Still
  <2>1. UNCHANGED <<panes, client, lease, failures>> /\ win.policy # "manual"
    BY <1>6 DEF Follow
  <2>2. PICK z : win' = [win EXCEPT !.size = z] BY <1>6 DEF Follow
  <2>3. /\ win'.mouse = win.mouse /\ win'.policy = win.policy
        /\ win'.zoomed = win.zoomed
    BY <2>2, HandingFacts DEF Windows
  <2> QED BY <2>1, <2>3, WindowGood
<1> QED BY <1>1, <1>2, <1>3, <1>4, <1>5, <1>6 DEF Environment

LEMMA HandlersGood ==
  ASSUME Handing, Handlers
  PROVE  Still
<1>1. ASSUME NEW z \in Sizes, ResizeMobile(z) PROVE Still
  BY <1>1, MeasuredGood DEF ResizeMobile
<1> QED BY <1>1, PrepareGood, AttachGood, ClaimGood, ReassertGood, ReturnGood,
           ReleaseGood, DisposeGood, HookGood, PollGood, QuietGood DEF Handlers

LEMMA HandingStep ==
  ASSUME Handing, [Next]_vars
  PROVE  Handing'
<1>1. TypeOK' BY StepProper DEF Handing, Proper
<1>2. Still
  <2>1. CASE UNCHANGED vars
    BY <2>1, HandingFacts DEF vars, Handing, Still
  <2>2. CASE Next BY <2>2, HandlersGood, EnvironmentGood DEF Next
  <2> QED BY <2>1, <2>2
<1>3. Whole' BY <1>2, HandingFacts DEF Whole, Still
<1>4. Good(lease, win, client)' BY <1>2 DEF Still
<1> QED BY <1>1, <1>3, <1>4 DEF Handing

\* Nothing can fail: no tmux command does by itself, and no pane goes.
NothingFails == MaxFailures = 0 /\ "close" \notin Events

LEMMA HandingStart ==
  ASSUME Init, NothingFails
  PROVE  Handing
<1>1. TypeOK BY InitTyped
<1>2. Whole BY DEF Init, NothingFails, Whole
<1>3. lease = None /\ HomeWin(win) /\ OwnFlags(client)
  BY DEF Init, HomeWin, OwnFlags
<1>4. Good(lease, win, client) BY <1>3 DEF Good
<1> QED BY <1>1, <1>2, <1>4 DEF Handing

LEMMA HandingInvariance == NothingFails /\ Spec => []Handing
<1>1. Init /\ NothingFails => Handing BY HandingStart
<1>2. Handing /\ [Next]_vars => Handing' BY HandingStep
<1> QED BY <1>1, <1>2, PTL DEF Spec

\* While nothing fails, a window that the desktop has again has the mouse
\* option and at most the zoom of its user, and every client the active-pane
\* flag its user gave it, wherever the clients went in between, and however
\* often the phone took the window (claimDesktop, returnToDesktop,
\* releaseRecord, restoreDesktopClientFlags).
THEOREM BorrowedGoesBack == NothingFails /\ Spec => []HandedBack
<1>1. Handing => HandedBack
  BY DEF Handing, Good, HandedBack, WindowHandedBack, ClientsHandedBack,
    DesktopHas, HomeWin, OwnFlags
<1> QED BY <1>1, HandingInvariance, PTL

\* While nothing fails, the phone has its window in the size it last asked
\* for, and fixed, even if the clients come and go (reconcileMobileViewport).
THEOREM PhoneHasItsSize == NothingFails /\ Spec => []PhoneSized
<1>1. Handing => PhoneSized BY DEF Handing, Good, PhoneSized
<1> QED BY <1>1, HandingInvariance, PTL

\* And when the clients stay at the window, so has a desktop that took it:
\* the size it is remembered with, or none that is fixed (claimDesktop,
\* pollDesktopClients, resizeMobile).
THEOREM OwnerHasItsSize ==
  NothingFails /\ "move" \notin Events /\ Spec => []OwnerSized
<1> DEFINE Inv == Handing /\ "move" \notin Events
<1>1. Init /\ NothingFails /\ "move" \notin Events => Inv BY HandingStart
<1>2. Inv /\ [Next]_vars => Inv' BY HandingStep
<1>3. Inv => OwnerSized
  BY DEF Handing, Good, OwnerSized, PhoneSized, DesktopSized
<1> HIDE DEF Inv
<1> QED BY <1>1, <1>2, <1>3, PTL DEF Spec
=============================================================================
