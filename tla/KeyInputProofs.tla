--------------------------- MODULE KeyInputProofs ---------------------------
(***************************************************************************)
(* Theorems about KeyInput, for every keyboard, panel, number of fingers,  *)
(* length of the queue and pair of layouts: its types; a start finds the   *)
(* layout the user chose; a button acts once per touch; no key is stuck,   *)
(* and what the machine finds pressed is what is held and touched.         *)
(*                                                                         *)
(* A poll folds the events it reads into hw_down and the points it finds   *)
(* into the brightness and the speed.  What a fold does for sequences of   *)
(* every length is shown by induction: Induction states it for a set of    *)
(* numbers, so that it can be cited, and Iterates says that a recursive    *)
(* function defined by CHOOSE solves its equations.                        *)
(***************************************************************************)
EXTENDS KeyInput, FiniteSetTheorems, SequenceTheorems, WellFoundedInduction, TLAPS

(* The file holds the layout last chosen, unless that did not reach it: a  *)
(* failing open leaves an older one, a failing write or a power loss none. *)
Agrees ==
  /\ mode \in Layouts
  /\ chosen \in Layouts \cup {"none"}
  /\ chosen # "none" => kbmode = chosen

LEMMA InitAgrees == Init => Agrees
BY DEF Init, Agrees, Layouts

LEMMA PolledAgrees ==
  ASSUME NEW reading, NEW points, NEW failures, Agrees, Polled(reading, points, failures)
  PROVE  Agrees'
<1>1. CASE UNCHANGED <<mode, kbmode, chosen>>
  BY <1>1 DEF Agrees
<1>2. ASSUME NEW failed \in failures, mode' = Other(mode), kbmode' = Written(failed),
             chosen' = IF failed = "no" THEN mode' ELSE "none"
      PROVE  Agrees'
  <2>1. CASE failed = "no"
    BY <1>2, <2>1 DEF Agrees, Written, Filed, Other, Layouts
  <2>2. CASE failed # "no"
    BY <1>2, <2>2 DEF Agrees, Other, Layouts
  <2> QED BY <2>1, <2>2
<1> QED BY <1>1, <1>2 DEF Polled

LEMMA NextAgrees == Agrees /\ [Next]_vars => Agrees'
<1> SUFFICES ASSUME Agrees, [Next]_vars PROVE Agrees'
  OBVIOUS
<1>1. CASE User
  BY <1>1 DEF User, Agrees
<1>2. CASE Start
  BY <1>2 DEF Start, Agrees, Layouts
<1>3. CASE Poll
  BY <1>3, PolledAgrees DEF Poll
<1>4. CASE CrashWriting
  BY <1>4, PolledAgrees DEF CrashWriting
<1>5. CASE Serve
  BY <1>5 DEF Serve, Agrees
<1>6. CASE Crash
  BY <1>6 DEF Crash, Agrees
<1>7. CASE UNCHANGED vars
  BY <1>7 DEF vars, Agrees
<1> QED BY <1>1, <1>2, <1>3, <1>4, <1>5, <1>6, <1>7 DEF Next

(* A start takes over the layout last chosen, over any number of starts,   *)
(* exits and power losses, and whatever fails, unless that choice did not  *)
(* reach the file or this start cannot open it.                            *)
(* (nc2000_run.c:469-475, 625-636)                                         *)
THEOREM ChoiceIsKept == Spec => LayoutIsRemembered
<1> DEFINE Kept == chosen # "none" /\ ~unread' /\ Start => mode' = chosen
<1>1. Agrees => [Kept]_vars
  BY DEF Agrees, Start, Layouts
<1>2. Spec => [][Agrees]_vars /\ []Agrees
  BY InitAgrees, NextAgrees, PTL DEF Spec
<1>3. Spec => [][Kept]_vars
  BY <1>1, <1>2, PTL
<1> QED BY <1>3 DEF LayoutIsRemembered

------------------------------------------------------------------------------
(* Buttons *)

(* The buttons under the fingers in layout m. *)
Under(m) == {Face[m][p] : p \in fingers} \cap Buttons

(* A button that acted since a finger last moved and is still under one    *)
(* was seen at the last poll; and unless the layout was changed since      *)
(* then, all that acted are still under the fingers.                       *)
Once ==
  /\ IsFiniteSet(fingers)
  /\ still \cap Under(mode) \subseteq prev
  /\ "toggle" \notin still => still \subseteq Under(mode)

(* A panel that does not fail reports every finger. *)
LEMMA AllFingers ==
  ASSUME IsFiniteSet(fingers), "touch" \notin Faults, NEW points \in Points
  PROVE  {On(points[i]) : i \in DOMAIN points} = {Face[mode][p] : p \in fingers}
<1> DEFINE n == Cardinality(fingers)
<1>1. n \in Nat
  BY FS_CardinalityType
<1>2. points \in [1..n -> fingers] /\ IsInjective(points)
  BY DEF Points
<1>3. points \in Injection(1..n, fingers)
  BY <1>2 DEF Injection, IsInjective
<1>4. Cardinality(1..n) = n
  <2>1. Cardinality(1..n) = IF 1 > n THEN 0 ELSE n - 1 + 1
    BY <1>1, FS_Interval
  <2> QED BY <1>1, <2>1
<1>5. points \in Surjection(1..n, fingers)
  BY <1>3, <1>4, FS_Injection
<1>6. \A p \in fingers : \E i \in 1..n : points[i] = p
  BY <1>5 DEF Surjection
<1> QED BY <1>2, <1>6 DEF On

LEMMA InitOnce == Init => Once
BY FS_EmptySet DEF Init, Once

(* What a poll makes act has not acted since a finger last moved. *)
LEMMA PolledOnce ==
  ASSUME Once, "touch" \notin Faults,
         NEW reading, NEW points \in Points, NEW failures, Polled(reading, points, failures)
  PROVE  /\ Once'
         /\ "toggle" \in still => mode' = mode
         /\ \A b \in still : b \in request' => b \in request
<1> DEFINE acting == Under(mode) \ prev
<1>1. /\ fingers' = fingers /\ prev' = Under(mode) /\ still' = still \cup acting
      /\ request' = request \cup (acting \cap {"save", "exit"})
      /\ IF "toggle" \in acting THEN mode' = Other(mode) ELSE mode' = mode
  <2>1. {On(points[i]) : i \in DOMAIN points} = {Face[mode][p] : p \in fingers}
    BY AllFingers DEF Once
  <2> QED BY <2>1 DEF Polled, Newly, Under
<1>2. still \cap acting = {}
  BY DEF Once
<1>3. CASE "toggle" \in acting
  <2>1. still \subseteq Under(mode)
    BY <1>2, <1>3 DEF Once
  <2>2. still' \subseteq prev' /\ "toggle" \in still'
    BY <1>1, <1>3, <2>1
  <2>3. Once'
    BY <1>1, <2>2 DEF Once
  <2> QED BY <1>1, <1>2, <1>3, <2>3
<1>4. CASE "toggle" \notin acting
  <2>1. Under(mode)' = Under(mode) /\ mode' = mode
    BY <1>1, <1>4 DEF Under
  <2>2. Once'
    BY <1>1, <2>1 DEF Once
  <2> QED BY <1>1, <1>2, <2>1, <2>2
<1> QED BY <1>3, <1>4

LEMMA NextOnce ==
  ASSUME "touch" \notin Faults
  PROVE  Once /\ [Next]_vars => Once'
<1> SUFFICES ASSUME Once, [Next]_vars PROVE Once'
  OBVIOUS
<1>1. CASE User
  <2>1. IsFiniteSet(fingers')
    <3>1. \/ fingers' = fingers
          \/ \E p \in Spots : fingers' = fingers \ {p} \/ fingers' = fingers \cup {p}
      BY <1>1 DEF User, Key, Touch
    <3> QED BY <3>1, FS_AddElement, FS_RemoveElement DEF Once
  <2>2. UNCHANGED <<mode, prev>> /\ (still' = {} \/ (fingers' = fingers /\ still' = still))
    BY <1>1 DEF User
  <2> QED BY <2>1, <2>2 DEF Once, Under
<1>2. CASE Start
  BY <1>2 DEF Start, Once, Under, user
<1>3. CASE Poll
  BY <1>3, PolledOnce DEF Poll
<1>4. CASE CrashWriting
  BY <1>4, PolledOnce DEF CrashWriting
<1>5. CASE Serve
  BY <1>5 DEF Serve, Once, Under, user
<1>6. CASE Crash
  BY <1>6 DEF Crash, Once, Under, user
<1>7. CASE UNCHANGED vars
  BY <1>7 DEF vars, Once, Under, user
<1> QED BY <1>1, <1>2, <1>3, <1>4, <1>5, <1>6, <1>7 DEF Next

(* While no finger moves a button acts once, in every layout and through   *)
(* its changes, if the panel's reports do not fail.                        *)
(* (nc2000_run.c:555-558)                                                  *)
THEOREM TouchActsOnce == ASSUME "touch" \notin Faults PROVE Spec => ButtonsActOnce
<1> DEFINE Acts == \A b \in Buttons : b \in still /\ ~User =>
                     /\ b = "toggle" => mode' = mode \/ phase = "off"
                     /\ b \in request' => b \in request
<1>1. Once /\ [Next]_vars => [Acts]_vars
  <2> SUFFICES ASSUME Once, Next, ~User PROVE Acts
    OBVIOUS
  <2>1. CASE Start
    BY <2>1 DEF Start
  <2>2. CASE Poll
    BY <2>2, PolledOnce DEF Poll
  <2>3. CASE CrashWriting
    BY <2>3, PolledOnce DEF CrashWriting
  <2>4. CASE Serve
    BY <2>4 DEF Serve
  <2>5. CASE Crash
    BY <2>5 DEF Crash
  <2> QED BY <2>1, <2>2, <2>3, <2>4, <2>5 DEF Next
<1>2. Spec => [][Next]_vars /\ []Once
  BY InitOnce, NextOnce, PTL DEF Spec
<1>3. Spec => [][Acts]_vars
  BY <1>1, <1>2, PTL
<1> QED BY <1>3 DEF ButtonsActOnce

------------------------------------------------------------------------------
(* Folds over a sequence.  The library's induction theorems cannot be      *)
(* instantiated by the provers; that every set of numbers has a least      *)
(* element, which WFMin gives, is as good.                                 *)

(* A set of numbers has a least one. *)
LEMMA Least ==
  ASSUME NEW T, T \subseteq Nat, T # {}
  PROVE  \E n \in T : \A m \in T : n <= m
<1> DEFINE R == OpToRel(<, Nat)
<1>1. IsWellFoundedOn(R, Nat)
  BY NatLessThanWellFounded
<1>2. \A n, m \in T : m < n => <<m, n>> \in R
  BY DEF OpToRel
<1> HIDE DEF R
<1>3. PICK n \in T : \A m \in T : <<m, n>> \notin R
  BY <1>1, WFMin
<1>4. n \in Nat /\ \A m \in T : m \in Nat /\ ~(m < n)
  BY <1>2, <1>3
<1> QED BY <1>4

(* Induction, over a set of numbers. *)
LEMMA Induction ==
  ASSUME NEW T, 0 \in T, \A n \in Nat : n \in T => n + 1 \in T
  PROVE  Nat \subseteq T
<1> SUFFICES ASSUME Nat \ T # {} PROVE FALSE
  OBVIOUS
<1>1. PICK n \in Nat \ T : \A m \in Nat \ T : n <= m
  BY Least
<1>2. n # 0 /\ n - 1 \in Nat
  BY <1>1
<1>3. n - 1 \in T
  BY <1>1, <1>2
<1> QED BY <1>1, <1>2, <1>3

(* The largest element of a set of numbers. *)
LEMMA LargestOf ==
  ASSUME NEW k \in Nat, NEW S \in SUBSET (1..k+1), k + 1 \in S
  PROVE  Max(S) = k + 1
<1>1. \A x \in S : (\A y \in S : x >= y) => x = k + 1
  OBVIOUS
<1>2. \A y \in S : k + 1 >= y
  OBVIOUS
<1> QED BY <1>1, <1>2 DEF Max

LEMMA MaxIn ==
  ASSUME NEW n \in Nat, NEW S \in SUBSET (1..n), S # {}
  PROVE  Max(S) \in S
<1> DEFINE T == {n - x : x \in S}
<1>1. PICK m \in T : \A y \in T : m <= y
  <2>1. \A x \in S : n - x \in Nat
    OBVIOUS
  <2>2. PICK x \in S : TRUE
    OBVIOUS
  <2>3. n - x \in T
    OBVIOUS
  <2>4. T # {} /\ T \subseteq Nat
    BY <2>1, <2>3
  <2> HIDE DEF T
  <2> QED BY <2>4, Least
<1>2. PICK x \in S : m = n - x
  OBVIOUS
<1>3. \A y \in S : x >= y
  <2> SUFFICES ASSUME NEW y \in S PROVE x >= y
    OBVIOUS
  <2>1. n - y \in T
    OBVIOUS
  <2>2. m <= n - y
    BY <1>1, <2>1
  <2> QED BY <1>2, <2>2
<1> QED BY <1>3 DEF Max

(* f makes a step from b for each number of a set, in their order. *)
Solves(f, V, b, n, step) ==
  /\ f \in [SUBSET (1..n) -> V]
  /\ \A S \in SUBSET (1..n) :
       f[S] = IF S = {} THEN b ELSE step[<<f[S \ {Max(S)}], Max(S)>>]

LEMMA Iterates ==
  ASSUME NEW V, NEW b \in V, NEW n \in Nat, NEW step \in [V \X (1..n) -> V]
  PROVE  \E f : Solves(f, V, b, n, step)
<1> DEFINE T == {k \in Nat : k <= n => \E f : Solves(f, V, b, k, step)}
<1>1. 0 \in T
  <2> DEFINE f == [S \in SUBSET (1..0) |-> b]
  <2>1. \A S \in SUBSET (1..0) : S = {}
    OBVIOUS
  <2>2. Solves(f, V, b, 0, step)
    BY <2>1 DEF Solves
  <2> QED BY <2>2
<1>2. ASSUME NEW k \in Nat, k \in T PROVE k + 1 \in T
  <2> SUFFICES ASSUME k + 1 <= n PROVE \E f : Solves(f, V, b, k + 1, step)
    OBVIOUS
  <2>1. PICK f : Solves(f, V, b, k, step)
    BY <1>2
  <2> HIDE DEF T
  <2> USE DEF Solves
  <2> DEFINE g == [S \in SUBSET (1..k+1) |->
                     IF k + 1 \in S THEN step[<<f[S \ {k + 1}], k + 1>>] ELSE f[S]]
  <2>2. \A S \in SUBSET (1..k+1) :
          /\ k + 1 \in S => S \ {k + 1} \in SUBSET (1..k)
          /\ k + 1 \notin S => S \in SUBSET (1..k)
    OBVIOUS
  <2>3. \A v \in V : step[<<v, k + 1>>] \in V
    OBVIOUS
  <2>4. g \in [SUBSET (1..k+1) -> V]
    BY <2>1, <2>2, <2>3
  <2>5. ASSUME NEW S \in SUBSET (1..k+1)
        PROVE  g[S] = IF S = {} THEN b ELSE step[<<g[S \ {Max(S)}], Max(S)>>]
    <3>1. CASE k + 1 \in S
      <4>1. Max(S) = k + 1
        BY <3>1, LargestOf
      <4>2. S \ {k + 1} \in SUBSET (1..k+1) /\ k + 1 \notin S \ {k + 1} /\ S # {}
        BY <3>1
      <4>3. g[S \ {k + 1}] = f[S \ {k + 1}]
        BY <4>2
      <4>4. g[S] = step[<<f[S \ {k + 1}], k + 1>>]
        BY <3>1
      <4> HIDE DEF g
      <4> QED BY <4>1, <4>2, <4>3, <4>4
    <3>2. CASE k + 1 \notin S /\ S # {}
      <4>1. S \in SUBSET (1..k) /\ S \ {Max(S)} \in SUBSET (1..k) /\ k + 1 \notin S \ {Max(S)}
        BY <2>2, <3>2
      <4>2. g[S] = f[S] /\ g[S \ {Max(S)}] = f[S \ {Max(S)}]
        BY <3>2, <4>1
      <4> HIDE DEF g
      <4> QED BY <2>1, <3>2, <4>1, <4>2
    <3>3. CASE S = {}
      <4>1. g[S] = f[S] /\ S \in SUBSET (1..k)
        BY <3>3
      <4> HIDE DEF g
      <4> QED BY <2>1, <3>3, <4>1
    <3> QED BY <3>1, <3>2, <3>3
  <2> HIDE DEF g
  <2> QED BY <2>4, <2>5
<1>3. n \in T
  <2> HIDE DEF T
  <2> QED BY <1>1, <1>2, Induction
<1> QED BY <1>3


(* The numbers up to k, of which k is the last. *)
LEMMA UpTo ==
  ASSUME NEW n \in Nat, NEW k \in 1..n
  PROVE  /\ 1..k \in SUBSET (1..n) /\ 1..k # {} /\ Max(1..k) = k
         /\ (1..k) \ {k} = 1..k-1 /\ k - 1 \in 0..n /\ k \in 0..n
<1>1. k \in Nat \ {0} /\ k <= n /\ k - 1 \in Nat /\ k - 1 + 1 = k
  OBVIOUS
<1>2. 1..k \in SUBSET (1..n) /\ k \in 1..k /\ (1..k) \ {k} = 1..k-1
  BY <1>1
<1>3. Max(1..k) = k
  BY <1>1, <1>2, LargestOf
<1> QED BY <1>1, <1>2, <1>3

------------------------------------------------------------------------------
(* What the events of the keyboard do *)

Events == [key : HwKeys, down : BOOLEAN]

LEMMA CodesOfKeys ==
  ASSUME NEW k \in HwKeys
  PROVE  CodeOf[k] \in Codes \cup {NoCode}
  BY KeyAssumption DEF Codes

LEMMA HeldType ==
  ASSUME NEW h \in SUBSET Codes, NEW e \in Events
  PROVE  Held(h, e) \in SUBSET Codes
<1>1. CodeOf[e.key] \in Codes \cup {NoCode}
  BY CodesOfKeys DEF Events
<1> QED BY <1>1 DEF Held

(* The codes held after each of the events q. *)
Run(g, h, q) == g[0] = h /\ \A k \in 1..Len(q) : g[k] = Held(g[k-1], q[k])
Down(h, q)   == FoldLeft(Held, h, q)

(* The fold has a value, and it is reached event by event. *)
LEMMA HeldRuns ==
  ASSUME NEW h \in SUBSET Codes, NEW q \in Seq(Events)
  PROVE  \E g : Run(g, h, q) /\ g[Len(q)] = Down(h, q)
<1> DEFINE F(i) == [S \in SUBSET DOMAIN q |->
                      IF S = {} THEN h ELSE Held(i[S \ {Max(S)}], q[Max(S)])]
           c == CHOOSE i : i = F(i)
           n == Len(q)
<1>1. Down(h, q) = c[DOMAIN q]
  BY DEF Down, FoldLeft, MapThenFoldSet
<1>2. n \in Nat /\ DOMAIN q = 1..n
  OBVIOUS
<1>3. \E i : i = F(i)
  <2> DEFINE V == SUBSET Codes
             step == [x \in V \X (1..n) |-> Held(x[1], q[x[2]])]
  <2>1. /\ h \in V
        /\ step \in [V \X (1..n) -> V]
        /\ \A v \in V, k \in 1..n : step[<<v, k>>] = Held(v, q[k])
    BY HeldType
  <2> HIDE DEF V, n, step
  <2>2. PICK f : Solves(f, V, h, n, step)
    BY <1>2, <2>1, Iterates
  <2>3. ASSUME NEW S \in SUBSET (1..n), S # {}
        PROVE  f[S] = Held(f[S \ {Max(S)}], q[Max(S)])
    <3>1. Max(S) \in 1..n
      BY <1>2, <2>3, MaxIn
    <3>2. f[S \ {Max(S)}] \in V
      BY <2>2 DEF Solves
    <3>3. f[S] = step[<<f[S \ {Max(S)}], Max(S)>>]
      BY <2>2, <2>3 DEF Solves
    <3> QED BY <2>1, <3>1, <3>2, <3>3
  <2>4. f[{}] = h
    BY <2>2 DEF Solves
  <2>5. f = F(f)
    BY <1>2, <2>2, <2>3, <2>4 DEF Solves
  <2> QED BY <2>5
<1>4. c = F(c)
  <2> HIDE DEF F
  <2> QED BY <1>3
<1> HIDE DEF c, n
<1> DEFINE g == [k \in 0..n |-> c[1..k]]
<1>5. g[n] = Down(h, q)
  BY <1>1, <1>2
<1>6. Run(g, h, q)
  <2>1. g[0] = h
    <3>1. 1..0 = {}
      OBVIOUS
    <3>2. c[{}] = h
      BY <1>4
    <3> QED BY <1>2, <3>1, <3>2
  <2>2. ASSUME NEW k \in 1..n PROVE g[k] = Held(g[k-1], q[k])
    <3>1. c[1..k] = Held(c[(1..k) \ {Max(1..k)}], q[Max(1..k)])
      BY <1>2, <1>4, UpTo
    <3> QED BY <1>2, <3>1, UpTo
  <2> HIDE DEF g
  <2> QED BY <2>1, <2>2 DEF Run, n
<1> HIDE DEF g
<1> QED BY <1>5, <1>6 DEF n

(* So two runs over the same events agree, and keep the type. *)
LEMMA RunIs ==
  ASSUME NEW h \in SUBSET Codes, NEW q \in Seq(Events), NEW g, Run(g, h, q)
  PROVE  g[Len(q)] = Down(h, q) /\ \A k \in 0..Len(q) : g[k] \in SUBSET Codes
<1>1. PICK f : Run(f, h, q) /\ f[Len(q)] = Down(h, q)
  BY HeldRuns
<1> DEFINE T == {k \in Nat : k <= Len(q) => f[k] = g[k] /\ g[k] \in SUBSET Codes}
<1>2. 0 \in T
  BY <1>1 DEF Run
<1>3. ASSUME NEW k \in Nat, k \in T PROVE k + 1 \in T
  <2> SUFFICES ASSUME k + 1 <= Len(q) PROVE f[k+1] = g[k+1] /\ g[k+1] \in SUBSET Codes
    OBVIOUS
  <2>1. f[k] = g[k] /\ g[k] \in SUBSET Codes /\ k + 1 \in 1..Len(q) /\ (k + 1) - 1 = k
    BY <1>3
  <2>2. f[k+1] = Held(f[k], q[k+1]) /\ g[k+1] = Held(g[k], q[k+1])
    BY <1>1, <2>1 DEF Run
  <2>3. q[k+1] \in Events
    BY <2>1
  <2> QED BY <2>1, <2>2, <2>3, HeldType
<1>4. Nat \subseteq T
  <2> HIDE DEF T
  <2> QED BY <1>2, <1>3, Induction
<1>5. \A k \in 0..Len(q) : k \in T
  BY <1>4
<1>6. Len(q) \in 0..Len(q)
  OBVIOUS
<1> QED BY <1>1, <1>5, <1>6

LEMMA DownType ==
  ASSUME NEW h \in SUBSET Codes, NEW q \in Seq(Events)
  PROVE  Down(h, q) \in SUBSET Codes
<1>1. PICK g : Run(g, h, q)
  BY HeldRuns
<1>2. Len(q) \in 0..Len(q)
  OBVIOUS
<1> QED BY <1>1, <1>2, RunIs

(* No event; one more event; the first events and then the others. *)
LEMMA DownOfNone ==
  ASSUME NEW h \in SUBSET Codes
  PROVE  Down(h, <<>>) = h
<1>1. <<>> \in Seq(Events) /\ Len(<<>>) = 0
  OBVIOUS
<1>2. PICK g : Run(g, h, <<>>)
  BY <1>1, HeldRuns
<1> QED BY <1>1, <1>2, RunIs DEF Run

LEMMA DownOfMore ==
  ASSUME NEW h \in SUBSET Codes, NEW q \in Seq(Events), NEW e \in Events
  PROVE  Down(h, Append(q, e)) = Held(Down(h, q), e)
<1> DEFINE r == Append(q, e)
<1>1. /\ r \in Seq(Events) /\ Len(r) = Len(q) + 1 /\ Len(q) \in Nat
      /\ r[Len(q) + 1] = e /\ \A k \in 1..Len(q) : r[k] = q[k]
  BY AppendProperties
<1> HIDE DEF r
<1>2. PICK g : Run(g, h, r) /\ g[Len(r)] = Down(h, r)
  BY <1>1, HeldRuns
<1>3. Run(g, h, q)
  BY <1>1, <1>2 DEF Run
<1>4. g[Len(r)] = Held(g[Len(q)], e)
  <2>1. Len(q) + 1 \in 1..Len(r) /\ Len(q) + 1 - 1 = Len(q)
    BY <1>1
  <2> QED BY <1>1, <1>2, <2>1 DEF Run
<1> QED BY <1>2, <1>3, <1>4, RunIs DEF r

LEMMA DownInParts ==
  ASSUME NEW h \in SUBSET Codes, NEW q \in Seq(Events), NEW n \in 0..Len(q)
  PROVE  Down(Down(h, SubSeq(q, 1, n)), SubSeq(q, n + 1, Len(q))) = Down(h, q)
<1> DEFINE a == SubSeq(q, 1, n)
           b == SubSeq(q, n + 1, Len(q))
           m == Len(q) - n
<1>1. /\ Len(q) \in Nat /\ n \in Nat /\ m \in Nat /\ n + m = Len(q)
  OBVIOUS
<1>2. a \in Seq(Events) /\ Len(a) = n /\ \A k \in 1..n : a[k] = q[k]
  BY <1>1, SubSeqProperties
<1>3. b \in Seq(Events) /\ Len(b) = m /\ \A k \in 1..m : b[k] = q[n + k]
  <2>1. n + 1 \in Int /\ Len(q) \in Int /\ \A i \in n+1..Len(q) : q[i] \in Events
    BY <1>1
  <2>2. /\ b \in Seq(Events) /\ Len(b) = IF n + 1 <= Len(q) THEN Len(q) - (n+1) + 1 ELSE 0
        /\ \A i \in 1..Len(q)-(n+1)+1 : b[i] = q[(n+1) + i - 1]
    <3> HIDE DEF m
    <3> QED BY <2>1, SubSeqProperties
  <2>3. ASSUME NEW k \in 1..m PROVE b[k] = q[n + k]
    <3>1. k \in 1..Len(q)-(n+1)+1 /\ (n+1) + k - 1 = n + k
      BY <1>1
    <3> HIDE DEF b
    <3> QED BY <2>2, <3>1
  <2> HIDE DEF b
  <2>4. Len(b) = m
    <3>1. CASE n + 1 <= Len(q)
      <4>1. Len(b) = Len(q) - (n+1) + 1
        BY <2>2, <3>1
      <4> QED BY <1>1, <4>1
    <3>2. CASE n = Len(q)
      <4>1. ~(n + 1 <= Len(q))
        BY <1>1, <3>2
      <4>2. Len(b) = 0
        BY <2>2, <4>1
      <4>3. m = 0
        BY <1>1, <3>2
      <4> QED BY <4>2, <4>3
    <3>3. n + 1 <= Len(q) \/ n = Len(q)
      OBVIOUS
    <3> QED BY <3>1, <3>2, <3>3
  <2> HIDE DEF m
  <2> QED BY <2>2, <2>3, <2>4
<1> HIDE DEF a, b, m
<1>4. PICK g : Run(g, h, q) /\ g[Len(q)] = Down(h, q)
  BY HeldRuns
<1>5. Run(g, h, a)
  BY <1>1, <1>2, <1>4 DEF Run
<1>6. g[n] = Down(h, a) /\ g[n] \in SUBSET Codes
  <2>1. g[Len(a)] = Down(h, a) /\ \A k \in 0..Len(a) : g[k] \in SUBSET Codes
    BY <1>2, <1>5, RunIs
  <2> QED BY <1>1, <1>2, <2>1
<1> DEFINE f == [k \in 0..m |-> g[n + k]]
<1>7. Run(f, g[n], b)
  <2>1. f[0] = g[n]
    BY <1>1
  <2>2. ASSUME NEW k \in 1..m PROVE f[k] = Held(f[k-1], b[k])
    <3>1. n + k \in 1..Len(q) /\ n + k - 1 = n + (k - 1) /\ k \in 0..m /\ k - 1 \in 0..m
      BY <1>1
    <3>2. g[n + k] = Held(g[n + k - 1], q[n + k])
      BY <1>4, <3>1 DEF Run
    <3> QED BY <1>3, <3>1, <3>2
  <2> HIDE DEF f
  <2> QED BY <1>3, <2>1, <2>2 DEF Run
<1>8. f[m] = g[Len(q)]
  BY <1>1
<1> HIDE DEF f
<1>9. f[m] = Down(g[n], b)
  BY <1>3, <1>6, <1>7, RunIs
<1> QED BY <1>4, <1>6, <1>8, <1>9 DEF a, b

(* What was held before can only leave more held. *)
LEMMA DownOfFewer ==
  ASSUME NEW h \in SUBSET Codes, NEW q \in Seq(Events)
  PROVE  Down({}, q) \subseteq Down(h, q)
<1>1. PICK f : Run(f, {}, q) /\ f[Len(q)] = Down({}, q)
  BY HeldRuns
<1>2. PICK g : Run(g, h, q) /\ g[Len(q)] = Down(h, q)
  BY HeldRuns
<1> DEFINE T == {k \in Nat : k <= Len(q) => f[k] \subseteq g[k]}
<1>3. 0 \in T
  BY <1>1 DEF Run
<1>4. ASSUME NEW k \in Nat, k \in T PROVE k + 1 \in T
  <2> SUFFICES ASSUME k + 1 <= Len(q) PROVE f[k+1] \subseteq g[k+1]
    OBVIOUS
  <2>1. f[k] \subseteq g[k] /\ k + 1 \in 1..Len(q) /\ (k + 1) - 1 = k
    BY <1>4
  <2>2. f[k+1] = Held(f[k], q[k+1]) /\ g[k+1] = Held(g[k], q[k+1])
    BY <1>1, <1>2, <2>1 DEF Run
  <2> QED BY <2>1, <2>2 DEF Held
<1>5. Nat \subseteq T
  <2> HIDE DEF T
  <2> QED BY <1>3, <1>4, Induction
<1>6. Len(q) \in T
  BY <1>5
<1> QED BY <1>1, <1>2, <1>6

------------------------------------------------------------------------------
(* What the fingers on the panel do *)

Swipes == [origin : {NoSwipe} \cup {Height[p] : p \in Spots},
           brightness : 1..Brightest, backlight : 1..Brightest]

LEMMA SwipedType ==
  ASSUME NEW s \in Swipes, NEW p \in Spots
  PROVE  Swiped(s, p) \in Swipes
<1> DEFINE Origins == {NoSwipe} \cup {Height[q] : q \in Spots}
<1>1. Height[p] \in Origins
  OBVIOUS
<1>2. \A t \in Swipes : [t EXCEPT !.origin = Height[p]] \in Swipes
  BY <1>1 DEF Swipes
<1>3. \A delta \in {1, -1} : Brighter(s, delta) \in Swipes
  BY DEF Brighter, Swipes
<1> QED BY <1>2, <1>3 DEF Swiped

(* The swipe and the brightness keep their types over all the fingers. *)
LEMMA SwipedFoldType ==
  ASSUME NEW b \in Swipes, NEW n \in Nat, NEW s \in [1..n -> Spots]
  PROVE  FoldLeft(Swiped, b, s) \in Swipes
<1> DEFINE F(i) == [S \in SUBSET DOMAIN s |->
                      IF S = {} THEN b ELSE Swiped(i[S \ {Max(S)}], s[Max(S)])]
           c == CHOOSE i : i = F(i)
<1>1. FoldLeft(Swiped, b, s) = c[1..n]
  BY DEF FoldLeft, MapThenFoldSet
<1>2. \E i : i = F(i)
  <2> DEFINE step == [x \in Swipes \X (1..n) |-> Swiped(x[1], s[x[2]])]
  <2>1. /\ step \in [Swipes \X (1..n) -> Swipes]
        /\ \A v \in Swipes, k \in 1..n : step[<<v, k>>] = Swiped(v, s[k])
    BY SwipedType
  <2> HIDE DEF step
  <2>2. PICK f : Solves(f, Swipes, b, n, step)
    BY <2>1, Iterates
  <2>3. ASSUME NEW S \in SUBSET (1..n), S # {}
        PROVE  f[S] = Swiped(f[S \ {Max(S)}], s[Max(S)])
    <3>1. Max(S) \in 1..n
      BY <2>3, MaxIn
    <3>2. f[S \ {Max(S)}] \in Swipes
      BY <2>2 DEF Solves
    <3>3. f[S] = step[<<f[S \ {Max(S)}], Max(S)>>]
      BY <2>2, <2>3 DEF Solves
    <3> QED BY <2>1, <3>1, <3>2, <3>3
  <2>4. f = F(f)
    BY <2>2, <2>3 DEF Solves
  <2> QED BY <2>4
<1>3. c = F(c)
  <2> HIDE DEF F
  <2> QED BY <1>2
<1> HIDE DEF c
<1> DEFINE T == {k \in Nat : k <= n => c[1..k] \in Swipes}
<1>4. 0 \in T
  <2>1. 1..0 = {}
    OBVIOUS
  <2>2. c[{}] = b
    BY <1>3
  <2> QED BY <2>1, <2>2
<1>5. ASSUME NEW k \in Nat, k \in T PROVE k + 1 \in T
  <2> SUFFICES ASSUME k + 1 <= n PROVE c[1..k+1] \in Swipes
    OBVIOUS
  <2>1. k + 1 \in 1..n /\ (k + 1) - 1 = k /\ c[1..k] \in Swipes
    BY <1>5
  <2>2. c[1..k+1] = Swiped(c[(1..k+1) \ {Max(1..k+1)}], s[Max(1..k+1)])
    BY <1>3, <2>1, UpTo
  <2>3. c[1..k+1] = Swiped(c[1..k], s[k+1])
    BY <2>1, <2>2, UpTo
  <2> QED BY <2>1, <2>3, SwipedType
<1>6. Nat \subseteq T
  <2> HIDE DEF T
  <2> QED BY <1>4, <1>5, Induction
<1>7. n \in T
  BY <1>6
<1> QED BY <1>1, <1>7

LEMMA SpedType ==
  ASSUME NEW f \in BOOLEAN, NEW p \in Spots
  PROVE  Sped(f, p) \in BOOLEAN
  BY DEF Sped

(* And so does the speed. *)
LEMMA SpedFoldType ==
  ASSUME NEW b \in BOOLEAN, NEW n \in Nat, NEW s \in [1..n -> Spots]
  PROVE  FoldLeft(Sped, b, s) \in BOOLEAN
<1> DEFINE F(i) == [S \in SUBSET DOMAIN s |->
                      IF S = {} THEN b ELSE Sped(i[S \ {Max(S)}], s[Max(S)])]
           c == CHOOSE i : i = F(i)
<1>1. FoldLeft(Sped, b, s) = c[1..n]
  BY DEF FoldLeft, MapThenFoldSet
<1>2. \E i : i = F(i)
  <2> DEFINE step == [x \in BOOLEAN \X (1..n) |-> Sped(x[1], s[x[2]])]
  <2>1. /\ step \in [BOOLEAN \X (1..n) -> BOOLEAN]
        /\ \A v \in BOOLEAN, k \in 1..n : step[<<v, k>>] = Sped(v, s[k])
    BY SpedType
  <2> HIDE DEF step
  <2>2. PICK f : Solves(f, BOOLEAN, b, n, step)
    BY <2>1, Iterates
  <2>3. ASSUME NEW S \in SUBSET (1..n), S # {}
        PROVE  f[S] = Sped(f[S \ {Max(S)}], s[Max(S)])
    <3>1. Max(S) \in 1..n
      BY <2>3, MaxIn
    <3>2. f[S \ {Max(S)}] \in BOOLEAN
      BY <2>2 DEF Solves
    <3>3. f[S] = step[<<f[S \ {Max(S)}], Max(S)>>]
      BY <2>2, <2>3 DEF Solves
    <3> QED BY <2>1, <3>1, <3>2, <3>3
  <2>4. f = F(f)
    BY <2>2, <2>3 DEF Solves
  <2> QED BY <2>4
<1>3. c = F(c)
  <2> HIDE DEF F
  <2> QED BY <1>2
<1> HIDE DEF c
<1> DEFINE T == {k \in Nat : k <= n => c[1..k] \in BOOLEAN}
<1>4. 0 \in T
  <2>1. 1..0 = {}
    OBVIOUS
  <2>2. c[{}] = b
    BY <1>3
  <2> QED BY <2>1, <2>2
<1>5. ASSUME NEW k \in Nat, k \in T PROVE k + 1 \in T
  <2> SUFFICES ASSUME k + 1 <= n PROVE c[1..k+1] \in BOOLEAN
    OBVIOUS
  <2>1. k + 1 \in 1..n /\ (k + 1) - 1 = k /\ c[1..k] \in BOOLEAN
    BY <1>5
  <2>2. c[1..k+1] = Sped(c[(1..k+1) \ {Max(1..k+1)}], s[Max(1..k+1)])
    BY <1>3, <2>1, UpTo
  <2>3. c[1..k+1] = Sped(c[1..k], s[k+1])
    BY <2>1, <2>2, UpTo
  <2> QED BY <2>1, <2>3, SpedType
<1>6. Nat \subseteq T
  <2> HIDE DEF T
  <2> QED BY <1>4, <1>5, Induction
<1>7. n \in T
  BY <1>6
<1> QED BY <1>1, <1>7

------------------------------------------------------------------------------
(* Types *)

(* The inductive invariant: what the fingers, the queue and the swipe are  *)
(* exactly; and the codes last pushed are those the machine finds pressed. *)
IInv ==
  /\ TypeOK
  /\ IsFiniteSet(fingers) /\ queue \in Seq(Events) /\ swipe \in Swipes /\ starts \in Nat
  /\ matrix = kb_state

LEMMA InitIInv == Init => IInv
<1> SUFFICES ASSUME Init PROVE IInv
  OBVIOUS
<1>1. swipe \in Swipes /\ Brightest \in 1..Brightest
  BY KeyAssumption DEF Init, Swipes
<1>2. IsFiniteSet(fingers)
  BY FS_EmptySet DEF Init
<1>3. queue \in Seq(Events) /\ DOMAIN queue = {}
  BY DEF Init
<1> QED BY <1>1, <1>2, <1>3 DEF Init, IInv, TypeOK, Layouts, Swipes

(* What the panel reports are spots, as many as fingers, or none. *)
LEMMA PointsType ==
  ASSUME IInv, NEW points \in Points
  PROVE  \E n \in Nat : points \in [1..n -> Spots] /\ DOMAIN points = 1..n
<1>1. Cardinality(fingers) \in Nat
  BY FS_CardinalityType DEF IInv
<1>2. CASE points = <<>>
  <2>1. points \in [1..0 -> Spots]
    BY <1>2
  <2> QED BY <2>1
<1>3. CASE points # <<>>
  <2>1. points \in [1..Cardinality(fingers) -> fingers]
    BY <1>3 DEF Points
  <2>2. fingers \subseteq Spots
    BY DEF IInv, TypeOK
  <2> QED BY <1>1, <2>1, <2>2
<1> QED BY <1>2, <1>3

(* A poll reads events from the front of the queue, and no more of them    *)
(* are gone than there were.                                               *)
LEMMA ReadingType ==
  ASSUME IInv, NEW reading \in Reading
  PROVE  /\ reading.n \in 0..Len(queue) /\ reading.gone \in 0..Len(queue)
         /\ "i2c" \notin Faults => reading.n = reading.gone
<1> DEFINE all == IF ~attached THEN 0
                  ELSE IF Len(queue) < MaxPoll THEN Len(queue) ELSE MaxPoll
<1>1. Len(queue) \in Nat
  BY DEF IInv
<1>2. all \in 0..Len(queue)
  BY <1>1, KeyAssumption
<1> HIDE DEF all
<1>3. /\ reading.n \in 0..all /\ reading.gone \in 0..all
      /\ "i2c" \notin Faults => reading.n = reading.gone
  <2>1. CASE reading = [n |-> all, gone |-> all]
    BY <1>1, <1>2, <2>1
  <2>2. CASE "i2c" \in Faults /\ reading \in {[n |-> i, gone |-> j] : i \in 0..all, j \in 0..all}
    BY <2>2
  <2> QED BY <2>1, <2>2 DEF Reading, Taken, all
<1> QED BY <1>1, <1>2, <1>3

(* A poll with what it reads keeps the types, and leaves the machine the   *)
(* codes that are held or touched.                                         *)
LEMMA PolledKeeps ==
  ASSUME IInv, NEW reading \in Reading, NEW points \in Points, NEW failures,
         Polled(reading, points, failures),
         phase' \in {"off", "poll", "serve"}
  PROVE  /\ IInv'
         /\ hw_down' = Down(hw_down, SubSeq(queue, 1, reading.n))
         /\ queue' = SubSeq(queue, reading.gone + 1, Len(queue))
         /\ matrix' = hw_down' \cup ({On(points[i]) : i \in DOMAIN points} \ Marks)
<1> DEFINE touched == {On(points[i]) : i \in DOMAIN points}
           acting  == Newly(touched \cap Buttons)
           held    == Down(hw_down, SubSeq(queue, 1, reading.n))
           want    == held \cup (touched \ Marks)
<1>1. PICK n \in Nat : points \in [1..n -> Spots] /\ DOMAIN points = 1..n
  BY PointsType
<1>2. mode \in Layouts
  BY DEF IInv, TypeOK
<1>3. touched \ Marks \subseteq Codes
  <2>1. \A i \in DOMAIN points : On(points[i]) \in {Face[m][p] : m \in Layouts, p \in Spots}
    BY <1>1, <1>2 DEF On
  <2>2. \A i \in DOMAIN points : On(points[i]) # NoCode
    BY <1>1, <1>2, KeyAssumption DEF On
  <2> QED BY <2>1, <2>2 DEF Codes
<1>4. /\ SubSeq(queue, 1, reading.n) \in Seq(Events)
      /\ SubSeq(queue, reading.gone + 1, Len(queue)) \in Seq(Events)
  <2>1. /\ queue \in Seq(Events) /\ Len(queue) \in Nat
        /\ reading.n \in 0..Len(queue) /\ reading.gone \in 0..Len(queue)
    BY ReadingType DEF IInv
  <2>2. \A i \in 1..Len(queue) : queue[i] \in Events
    BY <2>1
  <2>3. /\ \A i \in 1..reading.n : queue[i] \in Events
        /\ \A i \in reading.gone+1..Len(queue) : queue[i] \in Events
    BY <2>1, <2>2
  <2>4. 1 \in Int /\ reading.n \in Int /\ reading.gone + 1 \in Int /\ Len(queue) \in Int
    BY <2>1
  <2> QED BY <2>3, <2>4, SubSeqProperties
<1>5. held \in SUBSET Codes
  BY <1>4, DownType DEF IInv, TypeOK
<1>6. swipe' \in Swipes
  <2>1. [swipe EXCEPT !.origin = NoSwipe] \in Swipes
    BY DEF IInv, Swipes
  <2>2. FoldLeft(Swiped, swipe, points) \in Swipes
    BY <1>1, SwipedFoldType DEF IInv
  <2> QED BY <2>1, <2>2 DEF Polled
<1>7. fast' \in BOOLEAN
  <2>1. FoldLeft(Sped, fast, points) \in BOOLEAN
    BY <1>1, SpedFoldType DEF IInv, TypeOK
  <2> QED BY <2>1 DEF Polled
<1>8. /\ queue' = SubSeq(queue, reading.gone + 1, Len(queue))
      /\ hw_down' = held /\ kb_state' = want /\ matrix' = Pushed(want)
      /\ request' = request \cup (acting \cap {"save", "exit"})
      /\ prev' = touched \cap Buttons /\ still' = still \cup acting
      /\ UNCHANGED <<pressed, fingers, attached, starts>>
  BY DEF Polled, Down
<1>9. Pushed(want) = want
  BY DEF Pushed, IInv
<1>10. mode' \in Layouts /\ kbmode' \in Layouts \cup {"none"}
       /\ chosen' \in Layouts \cup {"none"} /\ unread' \in BOOLEAN
  <2> USE DEF IInv, TypeOK
  <2>1. unread' = FALSE
    BY DEF Polled
  <2>2. CASE UNCHANGED <<mode, kbmode, chosen>>
    BY <2>1, <2>2
  <2>3. ASSUME NEW failed, mode' = Other(mode), kbmode' = Written(failed),
               chosen' = IF failed = "no" THEN mode' ELSE "none"
        PROVE  /\ mode' \in Layouts /\ kbmode' \in Layouts \cup {"none"}
               /\ chosen' \in Layouts \cup {"none"} /\ unread' \in BOOLEAN
    BY <1>2, <2>1, <2>3 DEF Written, Filed, Other, Layouts
  <2> QED BY <2>2, <2>3 DEF Polled
<1>11. acting \subseteq Buttons /\ request' \subseteq {"save", "exit"}
  BY <1>8 DEF Newly, IInv, TypeOK
<1>12. queue' \in Seq(Events) /\ \A i \in DOMAIN queue' : queue'[i] \in Events
  <2>1. queue' \in Seq(Events)
    BY <1>4, <1>8
  <2>2. \A q \in Seq(Events) : \A i \in DOMAIN q : q[i] \in Events
    OBVIOUS
  <2> QED BY <2>1, <2>2
<1>13. /\ hw_down' \subseteq Codes /\ kb_state' \subseteq Codes /\ matrix' = kb_state'
  <2> HIDE DEF held, touched
  <2> QED BY <1>3, <1>5, <1>8, <1>9
<1>14. TypeOK'
  <2>1. \A i \in DOMAIN queue' : queue'[i].key \in HwKeys /\ queue'[i].down \in BOOLEAN
    BY <1>12 DEF Events
  <2>2. /\ swipe'.origin \in {NoSwipe} \cup {Height[p] : p \in Spots}
        /\ swipe'.brightness \in 1..Brightest /\ swipe'.backlight \in 1..Brightest
    BY <1>6 DEF Swipes
  <2>3. prev' \subseteq Buttons /\ still' \subseteq Buttons
    <3> HIDE DEF acting, touched
    <3> QED BY <1>8, <1>11 DEF IInv, TypeOK
  <2>4. /\ pressed' \subseteq HwKeys /\ fingers' \subseteq Spots /\ attached' \in BOOLEAN
    BY <1>8 DEF IInv, TypeOK
  <2> HIDE DEF acting, touched, held, want
  <2> QED BY <1>7, <1>10, <1>11, <1>13, <2>1, <2>2, <2>3, <2>4 DEF TypeOK
<1>15. IInv'
  <2> HIDE DEF acting, touched, held, want
  <2> QED BY <1>6, <1>8, <1>12, <1>13, <1>14 DEF IInv
<1> QED BY <1>8, <1>9, <1>15

LEMMA NextIInv == IInv /\ [Next]_vars => IInv'
<1> SUFFICES ASSUME IInv, [Next]_vars PROVE IInv'
  OBVIOUS
<1> DEFINE Rest == <<phase, attached, hw_down, kb_state, matrix, mode, prev, fast, request,
                     swipe, kbmode, starts, chosen, unread>>
<1>1. CASE User
  <2>1. UNCHANGED Rest /\ (still' = still \/ still' = {})
    BY <1>1 DEF User
  <2>2. CASE \E k \in HwKeys : Key(k)
    <3>1. PICK k \in HwKeys : Key(k)
      BY <2>2
    <3>2. [key |-> k, down |-> k \notin pressed] \in Events
      BY DEF Events
    <3>3. queue' \in Seq(Events) /\ \A i \in DOMAIN queue' : queue'[i] \in Events
      BY <3>1, <3>2 DEF Key, IInv
    <3>4. pressed' \subseteq HwKeys /\ fingers' = fingers
      BY <3>1 DEF Key, IInv, TypeOK
    <3> QED BY <2>1, <3>3, <3>4 DEF IInv, TypeOK, Events
  <2>3. CASE \E p \in Spots : Touch(p)
    <3>1. PICK p \in Spots : Touch(p)
      BY <2>3
    <3>2. fingers' = fingers \ {p} \/ fingers' = fingers \cup {p}
      BY <3>1 DEF Touch
    <3>3. IsFiniteSet(fingers') /\ fingers' \subseteq Spots
      BY <3>2, FS_AddElement, FS_RemoveElement DEF IInv, TypeOK
    <3>4. UNCHANGED <<pressed, queue>>
      BY <3>1 DEF Touch
    <3> QED BY <2>1, <3>3, <3>4 DEF IInv, TypeOK
  <2> QED BY <1>1, <2>2, <2>3 DEF User
<1>2. CASE Start
  <2>1. swipe' \in Swipes
    BY <1>2, KeyAssumption DEF Start, Swipes
  <2>2. mode' \in Layouts /\ attached' \in BOOLEAN /\ unread' \in BOOLEAN
    BY <1>2 DEF Start, Layouts
  <2>3. UNCHANGED <<pressed, queue, fingers>>
    BY <1>2 DEF Start, user
  <2>4. starts' \in Nat
    BY <1>2 DEF Start, IInv
  <2>5. /\ phase' = "poll" /\ hw_down' = {} /\ kb_state' = {} /\ matrix' = {}
        /\ prev' = {} /\ fast' = FALSE /\ request' = {} /\ still' = {}
        /\ kbmode' = kbmode /\ chosen' = chosen
    BY <1>2 DEF Start
  <2> QED BY <2>1, <2>2, <2>3, <2>4, <2>5 DEF IInv, TypeOK, Swipes
<1>3. CASE Poll
  BY <1>3, PolledKeeps DEF Poll
<1>4. CASE CrashWriting
  BY <1>4, PolledKeeps DEF CrashWriting
<1>5. CASE Serve
  <2>1. swipe' \in Swipes
    BY <1>5, KeyAssumption DEF Serve, Swipes, IInv
  <2>2. phase' \in {"off", "poll", "serve"} /\ request' = {}
    BY <1>5 DEF Serve
  <2>3. UNCHANGED <<pressed, queue, fingers, attached, hw_down, kb_state, matrix, mode, prev,
                    fast, kbmode, starts, still, chosen, unread>>
    BY <1>5 DEF Serve, user
  <2> QED BY <2>1, <2>2, <2>3 DEF IInv, TypeOK, Swipes
<1>6. CASE Crash
  BY <1>6 DEF Crash, user, IInv, TypeOK
<1>7. CASE UNCHANGED vars
  BY <1>7 DEF vars, user, IInv, TypeOK
<1> QED BY <1>1, <1>2, <1>3, <1>4, <1>5, <1>6, <1>7 DEF Next

LEMMA Invariance == Spec => []IInv
  BY InitIInv, NextIInv, PTL DEF Spec

(* Every variable keeps its type, for every keyboard, panel and pair of    *)
(* layouts, and whatever fails: the machine only ever finds codes pressed  *)
(* that a key or the panel has, the brightness stays in its range.         *)
THEOREM TypeCorrect == Spec => []TypeOK
<1>1. IInv => TypeOK
  BY DEF IInv
<1> QED BY <1>1, Invariance, PTL

------------------------------------------------------------------------------
(* Keys *)

(* Once every waiting event is read, only such codes will be held as some  *)
(* key that is down has; over restarts too, which forget what was held.    *)
HeldByKeys == Down(hw_down, queue) \subseteq {CodeOf[k] : k \in pressed}

(* And, in the first life of the program, the codes that no two keys share *)
(* will be held if and only if their key is down.                          *)
Alone(k) == CodeOf[k] # NoCode /\ KeysOf(CodeOf[k]) = {k}
HeldIfDown ==
  \A k \in HwKeys : Alone(k) => (k \in pressed <=> CodeOf[k] \in Down(hw_down, queue))
Settled ==
  /\ HeldByKeys
  /\ starts <= 1 => HeldIfDown
  /\ starts = 0 => hw_down = {}

(* An event that a key makes. *)
LEMMA KeySettles ==
  ASSUME IInv, Settled, NEW k \in HwKeys, Key(k), UNCHANGED <<hw_down, starts>>
  PROVE  Settled'
<1> DEFINE e == [key |-> k, down |-> k \notin pressed]
           d == Down(hw_down, queue)
<1>1. e \in Events /\ queue \in Seq(Events) /\ hw_down \in SUBSET Codes /\ pressed \subseteq HwKeys
  BY DEF Events, IInv, TypeOK
<1>2. Down(hw_down', queue') = Held(d, e)
  <2>1. queue' = Append(queue, e) /\ hw_down' = hw_down
    BY DEF Key
  <2> HIDE DEF e
  <2> QED BY <1>1, <2>1, DownOfMore
<1>3. pressed' = IF k \in pressed THEN pressed \ {k} ELSE pressed \cup {k}
  BY DEF Key
<1> HIDE DEF d
<1>4. Held(d, e) = IF CodeOf[k] = NoCode THEN d
                   ELSE IF k \notin pressed THEN d \cup {CodeOf[k]} ELSE d \ {CodeOf[k]}
  BY DEF Held
<1>5. d \subseteq {CodeOf[j] : j \in pressed}
  BY DEF Settled, HeldByKeys, d
<1>6. NoCode \notin d
  <2>1. d \in SUBSET Codes
    BY <1>1, DownType DEF d
  <2>2. NoCode \notin Codes
    BY DEF Codes
  <2> QED BY <2>1, <2>2
<1>7. HeldByKeys'
  <2> SUFFICES ASSUME NEW c \in Held(d, e) PROVE \E j \in pressed' : c = CodeOf[j]
    BY <1>2 DEF HeldByKeys
  <2>1. CASE c = CodeOf[k]
    <3>1. k \notin pressed
      BY <1>4, <1>6, <2>1
    <3> QED BY <1>3, <2>1, <3>1
  <2>2. CASE c # CodeOf[k]
    <3>1. c \in d
      BY <1>4, <2>2
    <3>2. PICK j \in pressed : c = CodeOf[j]
      BY <1>5, <3>1
    <3> QED BY <1>3, <2>2, <3>2
  <2> QED BY <2>1, <2>2
<1>8. ASSUME HeldIfDown PROVE HeldIfDown'
  <2> SUFFICES ASSUME NEW j \in HwKeys, Alone(j)
               PROVE  j \in pressed' <=> CodeOf[j] \in Held(d, e)
    BY <1>2 DEF HeldIfDown, Alone, KeysOf
  <2>1. j \in pressed <=> CodeOf[j] \in d
    BY <1>8 DEF HeldIfDown, d
  <2>2. CodeOf[j] = CodeOf[k] => j = k
    BY DEF Alone, KeysOf
  <2>3. CodeOf[j] # NoCode
    BY DEF Alone
  <2> QED BY <1>3, <1>4, <2>1, <2>2, <2>3
<1>9. hw_down' = hw_down /\ starts' = starts
  OBVIOUS
<1> QED BY <1>7, <1>8, <1>9 DEF Settled

(* A poll moves events from the queue into what is held. *)
LEMMA PolledSettles ==
  ASSUME IInv, Settled, "i2c" \notin Faults, starts # 0,
         NEW reading \in Reading, pressed' = pressed, starts' = starts,
         hw_down' = Down(hw_down, SubSeq(queue, 1, reading.n)),
         queue' = SubSeq(queue, reading.gone + 1, Len(queue))
  PROVE  Settled' /\ Down(hw_down', queue') = Down(hw_down, queue)
<1>1. Down(hw_down', queue') = Down(hw_down, queue)
  <2>1. reading.n = reading.gone /\ reading.n \in 0..Len(queue)
    BY ReadingType
  <2> QED BY <2>1, DownInParts DEF IInv, TypeOK
<1> QED BY <1>1 DEF Settled, HeldByKeys, HeldIfDown, Alone, KeysOf

(* The program polls only once it was started. *)
Started == phase # "off" => starts # 0

LEMMA NextSettled ==
  ASSUME "i2c" \notin Faults
  PROVE  IInv /\ Started /\ Settled /\ [Next]_vars => Started' /\ Settled'
<1> SUFFICES ASSUME IInv, Started, Settled, [Next]_vars PROVE Started' /\ Settled'
  OBVIOUS
<1>0. starts \in Nat
  BY DEF IInv
<1>1. CASE User
  <2>1. UNCHANGED <<phase, hw_down, starts>>
    BY <1>1 DEF User
  <2>2. ASSUME NEW k \in HwKeys, Key(k) PROVE Settled'
    BY <2>1, <2>2, KeySettles
  <2>3. ASSUME NEW p \in Spots, Touch(p) PROVE Settled'
    BY <2>1, <2>3 DEF Touch, Settled, HeldByKeys, HeldIfDown, Alone, KeysOf
  <2> QED BY <1>1, <2>1, <2>2, <2>3 DEF User, Started
<1>2. CASE Start
  <2>1. UNCHANGED <<pressed, queue>> /\ hw_down' = {} /\ starts' = starts + 1
    BY <1>2 DEF Start, user
  <2>2. Down({}, queue) \subseteq Down(hw_down, queue)
    BY DownOfFewer DEF IInv, TypeOK
  <2>3. starts' <= 1 => hw_down' = hw_down /\ HeldIfDown
    BY <1>0, <2>1 DEF Settled
  <2>4. starts' # 0 /\ HeldByKeys'
    BY <1>0, <2>1, <2>2 DEF Settled, HeldByKeys
  <2>5. starts' <= 1 => HeldIfDown'
    BY <2>1, <2>3 DEF HeldIfDown, Alone, KeysOf
  <2> QED BY <2>4, <2>5 DEF Settled, Started
<1>3. CASE Poll \/ CrashWriting
  <2>1. PICK reading \in Reading, points \in Points, failures \in {Failures, {"write"}} :
          Polled(reading, points, failures)
    BY <1>3 DEF Poll, CrashWriting
  <2>2. phase' \in {"off", "poll", "serve"} /\ starts # 0
    BY <1>3 DEF Poll, CrashWriting, Started
  <2>3. /\ hw_down' = Down(hw_down, SubSeq(queue, 1, reading.n))
        /\ queue' = SubSeq(queue, reading.gone + 1, Len(queue))
    BY <2>1, <2>2, PolledKeeps
  <2>4. pressed' = pressed /\ starts' = starts
    BY <2>1 DEF Polled
  <2> QED BY <2>2, <2>3, <2>4, PolledSettles DEF Started
<1>4. CASE Serve \/ Crash
  <2>1. UNCHANGED <<pressed, queue, hw_down, starts>> /\ (phase' # "off" => phase # "off")
    BY <1>4 DEF Serve, Crash, user
  <2> QED BY <2>1 DEF Settled, HeldByKeys, HeldIfDown, Alone, KeysOf, Started
<1>5. CASE UNCHANGED vars
  BY <1>5 DEF vars, user, Settled, HeldByKeys, HeldIfDown, Alone, KeysOf, Started
<1> QED BY <1>1, <1>2, <1>3, <1>4, <1>5 DEF Next

LEMMA InitSettled == Init => Started /\ Settled
<1> SUFFICES ASSUME Init PROVE Started /\ Settled
  OBVIOUS
<1>1. hw_down = {} /\ queue = <<>> /\ pressed = {} /\ phase = "off"
  BY DEF Init
<1>2. Down(hw_down, queue) = {}
  BY <1>1, DownOfNone
<1> QED BY <1>1, <1>2 DEF Settled, HeldByKeys, HeldIfDown, Started

LEMMA AlwaysSettled ==
  ASSUME "i2c" \notin Faults
  PROVE  Spec => [](IInv /\ Started /\ Settled)
<1>1. Spec => []IInv
  BY Invariance
<1>2. IInv /\ Started /\ Settled /\ [Next]_vars => (Started /\ Settled)'
  BY NextSettled
<1> QED BY <1>1, <1>2, InitSettled, PTL DEF Spec

(* What a poll that leaves no event behind shows the machine. *)
LEMMA EmptyingPoll ==
  ASSUME IInv, Started, Settled, "i2c" \notin Faults, Poll, queue' = <<>>
  PROVE  \E points \in Points :
           matrix' = Down(hw_down, queue) \cup ({On(points[i]) : i \in DOMAIN points} \ Marks)
<1>1. PICK reading \in Reading, points \in Points : Polled(reading, points, Failures)
  BY DEF Poll
<1>2. phase' = "serve" /\ starts # 0
  BY DEF Poll, Started
<1>3. /\ IInv'
      /\ hw_down' = Down(hw_down, SubSeq(queue, 1, reading.n))
      /\ queue' = SubSeq(queue, reading.gone + 1, Len(queue))
      /\ matrix' = hw_down' \cup ({On(points[i]) : i \in DOMAIN points} \ Marks)
  BY <1>1, <1>2, PolledKeeps
<1>4. pressed' = pressed /\ starts' = starts
  BY <1>1 DEF Polled
<1>5. Down(hw_down', queue') = Down(hw_down, queue)
  BY <1>2, <1>3, <1>4, PolledSettles
<1>6. Down(hw_down', queue') = hw_down'
  BY <1>3, DownOfNone DEF IInv, TypeOK
<1> QED BY <1>3, <1>5, <1>6

(* No key is stuck: after a poll that left no event behind, the machine    *)
(* finds only such codes pressed as some key held or some finger makes,    *)
(* however many keys share a code, over any number of restarts and power   *)
(* losses, and whether or not the panel can be read; unless an event was   *)
(* lost on the bus.  (nc2000_run.c:483-493, 572-576)                       *)
THEOREM KeysAreLetGo == ASSUME "i2c" \notin Faults PROVE Spec => NoKeyIsStuck
<1> DEFINE Free == Poll /\ queue' = <<>> =>
                     matrix' \subseteq {CodeOf[k] : k \in pressed} \cup Touched
<1>1. ASSUME IInv, Started, Settled PROVE [Free]_vars
  <2> SUFFICES ASSUME Poll, queue' = <<>>
               PROVE  matrix' \subseteq {CodeOf[k] : k \in pressed} \cup Touched
    OBVIOUS
  <2>1. PICK points \in Points :
          matrix' = Down(hw_down, queue) \cup ({On(points[i]) : i \in DOMAIN points} \ Marks)
    BY <1>1, EmptyingPoll
  <2>2. \A i \in DOMAIN points : points[i] \in fingers
    <3>1. CASE points = <<>>
      BY <3>1
    <3>2. CASE points \in [1..Cardinality(fingers) -> fingers]
      BY <3>2
    <3> QED BY <3>1, <3>2 DEF Points
  <2> DEFINE touched == {On(points[i]) : i \in DOMAIN points} \ Marks
             down == Down(hw_down, queue)
  <2>3. touched \subseteq Touched
    BY <2>2 DEF Touched, On
  <2>4. down \subseteq {CodeOf[k] : k \in pressed}
    BY <1>1 DEF Settled, HeldByKeys
  <2>5. matrix' = down \cup touched
    BY <2>1
  <2> DEFINE held == {CodeOf[k] : k \in pressed}
  <2> HIDE DEF touched, down, held
  <2>6. matrix' \subseteq held \cup Touched
    BY <2>3, <2>4, <2>5 DEF held
  <2> QED BY <2>6 DEF held
<1> QED BY <1>1, AlwaysSettled, PTL DEF NoKeyIsStuck

(* And no key is lost or invented: after such a poll the machine finds     *)
(* pressed exactly the keys the user holds or touches, of the codes that   *)
(* no two keys share, however presses, releases, touches and changes of    *)
(* the layout mix; as long as the keyboard and the panel can be read.      *)
(* (nc2k_poll_input, nc2000_run.c:477-577)                                 *)
THEOREM KeysAreSeen ==
  ASSUME "i2c" \notin Faults, "touch" \notin Faults
  PROVE  Spec => MachineSeesWhatIsHeld
<1> DEFINE Seen == Poll /\ queue' = <<>> /\ attached /\ starts = 1 =>
              \A c \in Codes : Cardinality(KeysOf(c)) <= 1 =>
                (c \in matrix' <=> KeysOf(c) \cap pressed # {} \/ c \in Touched)
<1>1. ASSUME IInv, Started, Settled PROVE [Seen]_vars
  <2> SUFFICES ASSUME Poll, queue' = <<>>, starts = 1,
                      NEW c \in Codes, Cardinality(KeysOf(c)) <= 1
               PROVE  c \in matrix' <=> KeysOf(c) \cap pressed # {} \/ c \in Touched
    OBVIOUS
  <2>1. PICK points \in Points :
          matrix' = Down(hw_down, queue) \cup ({On(points[i]) : i \in DOMAIN points} \ Marks)
    BY <1>1, EmptyingPoll
  <2>2. {On(points[i]) : i \in DOMAIN points} \ Marks = Touched
    <3>1. {On(points[i]) : i \in DOMAIN points} = {Face[mode][p] : p \in fingers}
      BY <1>1, AllFingers DEF IInv
    <3> QED BY <3>1 DEF Touched, On
  <2>3. pressed \subseteq HwKeys
    BY <1>1 DEF IInv, TypeOK
  <2>4. KeysOf(c) = {} \/ \E k \in HwKeys : KeysOf(c) = {k}
    <3>1. IsFiniteSet(KeysOf(c))
      BY KeyAssumption, FS_Subset DEF KeysOf
    <3>2. Cardinality(KeysOf(c)) \in Nat
      BY <3>1, FS_CardinalityType
    <3>3. Cardinality(KeysOf(c)) = 0 \/ Cardinality(KeysOf(c)) = 1
      BY <3>2
    <3>4. KeysOf(c) = {} \/ \E k : KeysOf(c) = {k}
      BY <3>1, <3>3, FS_EmptySet, FS_Singleton
    <3> QED BY <3>4 DEF KeysOf
  <2>5. c \in Down(hw_down, queue) <=> KeysOf(c) \cap pressed # {}
    <3>1. CASE KeysOf(c) = {}
      <4>1. \A k \in pressed : CodeOf[k] # c
        BY <2>3, <3>1 DEF KeysOf
      <4> QED BY <1>1, <3>1, <4>1 DEF Settled, HeldByKeys
    <3>2. ASSUME NEW k \in HwKeys, KeysOf(c) = {k}
          PROVE  c \in Down(hw_down, queue) <=> KeysOf(c) \cap pressed # {}
      <4>1. CodeOf[k] = c /\ Alone(k)
        BY <3>2 DEF KeysOf, Alone, Codes
      <4>2. k \in pressed <=> c \in Down(hw_down, queue)
        BY <1>1, <4>1 DEF Settled, HeldIfDown
      <4> QED BY <3>2, <4>2
    <3> QED BY <2>4, <3>1, <3>2
  <2> QED BY <2>1, <2>2, <2>5
<1> QED BY <1>1, AlwaysSettled, PTL DEF MachineSeesWhatIsHeld
=============================================================================
