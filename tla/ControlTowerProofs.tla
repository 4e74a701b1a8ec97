-------------------------- MODULE ControlTowerProofs --------------------------
(***************************************************************************)
(* What holds of the Control Tower, for every set of files, of Events, of  *)
(* projects, teams and Desktops, and of windows; and of its publication    *)
(* to Notion, for every set of projects, and every number of versions,     *)
(* failures and interventions.                                             *)
(*                                                                         *)
(* The screens are functions of the files that are there, whatever they    *)
(* are, so the invariant of the tower, TowerInv, says little more than     *)
(* what can be read.  The work is in the lemmas: the folds of a project    *)
(* and of its open items are characterised by the Events themselves        *)
(* (Sheets, Items), by induction over the sets of files, and from then on  *)
(* no proof mentions a fold.                                               *)
(*                                                                         *)
(* The properties of a publication speak of what is left in Notion, so its *)
(* invariant Inv says what the blocks of a body can be: at rest the tool's *)
(* own two with at most a person's one below them, or something that does  *)
(* not begin with the tool's line, for a reason (BodiesInv); and while one *)
(* body is replaced, what is still to be taken away, with at most one      *)
(* block of a person's before or after it (ReplacedInv).                   *)
(***************************************************************************)
EXTENDS NotionPages, Publication, FiniteSetTheorems, SequenceTheorems, TLAPS

-----------------------------------------------------------------------------
(* Induction over the subsets of a finite set, and what is folded over them. *)

\* A family of subsets of a finite set has a smallest member.
LEMMA SmallestMember ==
    ASSUME NEW A, IsFiniteSet(A), NEW C \in SUBSET SUBSET A, C # {}
    PROVE  \E T \in C : \A U \in SUBSET T : U # T => U \notin C
<1> DEFINE R == StrictSubsetOrdering(A)
<1>1. IsWellFoundedOn(R, SUBSET A)
  BY FS_StrictSubsetOrderingWellFounded, FS_FiniteSubsetsOfFinite
<1> HIDE DEF R
<1>2. PICK T \in C : \A U \in C : ~ (<<U, T>> \in R)
  BY <1>1, WFMin
<1> USE DEF R
<1>3. ASSUME NEW U \in SUBSET T, U # T PROVE U \notin C
  BY <1>2, <1>3 DEF StrictSubsetOrdering
<1> QED
  BY <1>3

\* A fold of the subsets of A, that takes the element out first that last says.
Folded(f, A, base, step, last) ==
    \A T \in SUBSET A :
        f[T] = IF T = {} THEN base ELSE step[<<f[T \ {last[T]}], last[T]>>]

\* What a fold says of a set does not depend on the set that it was defined over.
LEMMA FoldIsUnique ==
    ASSUME NEW A, IsFiniteSet(A), NEW B, IsFiniteSet(B), NEW base, NEW step, NEW last,
           \A T \in SUBSET A : T # {} => last[T] \in T,
           NEW f, NEW g, Folded(f, A, base, step, last), Folded(g, B, base, step, last),
           NEW S \in SUBSET A, S \in SUBSET B
    PROVE  f[S] = g[S]
<1> DEFINE C == {T \in SUBSET A : T \in SUBSET B /\ f[T] # g[T]}
<1>1. SUFFICES ASSUME C # {} PROVE FALSE
  OBVIOUS
<1>2. PICK T \in C : \A U \in SUBSET T : U # T => U \notin C
  <2>1. C \in SUBSET SUBSET A
    OBVIOUS
  <2> HIDE DEF C
  <2> QED
    BY <1>1, <2>1, SmallestMember
<1>3. T # {}
  BY <1>2 DEF Folded
<1> DEFINE U == T \ {last[T]}
<1>4. U \in SUBSET T /\ U # T /\ U \in SUBSET A /\ U \in SUBSET B
  BY <1>2, <1>3
<1>5. f[U] = g[U]
  BY <1>2, <1>4
<1>6. f[T] = step[<<f[U], last[T]>>]
  BY <1>2, <1>3 DEF Folded
<1>7. g[T] = step[<<g[U], last[T]>>]
  BY <1>2, <1>3 DEF Folded
<1> QED
  BY <1>2, <1>5, <1>6, <1>7

\* There is such a fold.
LEMMA FoldExists ==
    ASSUME NEW A, IsFiniteSet(A), NEW V, NEW base \in V, NEW step \in [V \X A -> V], NEW last,
           \A T \in SUBSET A : T # {} => last[T] \in T
    PROVE  \E f \in [SUBSET A -> V] : Folded(f, A, base, step, last)
<1> DEFINE Fold(T) == {f \in [SUBSET T -> V] : Folded(f, T, base, step, last)}
           C == {T \in SUBSET A : Fold(T) = {}}
<1>1. C = {} => Fold(A) # {}
  OBVIOUS
<1> HIDE DEF Fold
<1> SUFFICES Fold(A) # {}
  BY DEF Fold
<1> SUFFICES ASSUME C # {} PROVE FALSE
  BY <1>1
<1> USE DEF Fold
<1>2. PICK T \in C : \A U \in SUBSET T : U # T => U \notin C
  <2>1. C \in SUBSET SUBSET A
    OBVIOUS
  <2> HIDE DEF C
  <2> QED
    BY <2>1, SmallestMember
<1> DEFINE W(U) == U \ {last[U]}
           of(U) == CHOOSE f \in Fold(U) : TRUE
           g == [U \in SUBSET T |->
                   IF U = {} THEN base ELSE step[<<of(W(U))[W(U)], last[U]>>]]
<1>3. ASSUME NEW U \in SUBSET T, U # {}
      PROVE  /\ W(U) \in SUBSET T /\ W(U) \in SUBSET U /\ W(U) # T /\ last[U] \in A
             /\ of(W(U)) \in [SUBSET W(U) -> V]
             /\ Folded(of(W(U)), W(U), base, step, last)
             /\ IsFiniteSet(W(U))
  <2>1. last[U] \in U /\ last[U] \in A
    BY <1>3
  <2>2. W(U) \in SUBSET T /\ W(U) \in SUBSET U /\ W(U) # T /\ W(U) \in SUBSET A
    BY <2>1
  <2>3. Fold(W(U)) # {}
    BY <1>2, <2>2
  <2>4. of(W(U)) \in Fold(W(U))
    BY <2>3
  <2>5. IsFiniteSet(W(U))
    BY <2>2, FS_Subset
  <2> QED
    BY <2>1, <2>2, <2>4, <2>5
<1>4. ASSUME NEW U \in SUBSET T, U # {}
      PROVE  of(W(U))[W(U)] \in V /\ of(W(U))[W(U)] = g[W(U)]
  <2> DEFINE X == W(U)
             h == of(X)
  <2>1. /\ X \in SUBSET T /\ h \in [SUBSET X -> V] /\ IsFiniteSet(X)
        /\ Folded(h, X, base, step, last)
    BY <1>3, <1>4
  <2>2. CASE X = {}
    BY <2>1, <2>2 DEF Folded
  <2>3. CASE X # {}
    <3> DEFINE Y == W(X)
               k == of(Y)
    <3>1. /\ Y \in SUBSET T /\ Y \in SUBSET X /\ k \in [SUBSET Y -> V]
          /\ Folded(k, Y, base, step, last) /\ IsFiniteSet(Y)
      BY <1>3, <2>1, <2>3
    <3>2. \A Z \in SUBSET X : Z # {} => last[Z] \in Z
      BY <2>1
    <3> HIDE DEF X, h, Y, k
    <3>3. h[Y] = k[Y]
      BY <2>1, <3>1, <3>2, FoldIsUnique
    <3>4. h[X] = step[<<h[Y], last[X]>>]
      BY <2>1, <2>3 DEF Folded, Y
    <3>5. g[X] = step[<<k[Y], last[X]>>]
      BY <2>1, <2>3 DEF Y, k
    <3>6. h[X] \in V
      BY <2>1
    <3>7. h[X] = g[X]
      BY <3>3, <3>4, <3>5
    <3> QED
      BY <3>6, <3>7 DEF h, X
  <2> QED
    BY <2>2, <2>3
<1>5. g \in [SUBSET T -> V]
  <2>1. ASSUME NEW U \in SUBSET T, U # {} PROVE step[<<of(W(U))[W(U)], last[U]>>] \in V
    <3>1. of(W(U))[W(U)] \in V
      BY <1>4, <2>1
    <3>2. last[U] \in A
      BY <1>3, <2>1
    <3> HIDE DEF of, W
    <3> QED
      BY <3>1, <3>2
  <2> HIDE DEF of, W
  <2>2. \A U \in SUBSET T :
           (IF U = {} THEN base ELSE step[<<of(W(U))[W(U)], last[U]>>]) \in V
    BY <2>1
  <2> QED
    BY <2>2
<1>6. Folded(g, T, base, step, last)
  <2>1. ASSUME NEW U \in SUBSET T
        PROVE  g[U] = IF U = {} THEN base ELSE step[<<g[U \ {last[U]}], last[U]>>]
    <3>1. CASE U = {}
      BY <3>1
    <3>2. CASE U # {}
      <4>1. of(W(U))[W(U)] = g[W(U)]
        BY <1>4, <3>2
      <4>2. g[U] = step[<<of(W(U))[W(U)], last[U]>>]
        BY <3>2
      <4> HIDE DEF g, of
      <4> QED
        BY <3>2, <4>1, <4>2
    <3> QED
      BY <3>1, <3>2
  <2> QED
    BY <2>1 DEF Folded
<1>7. g \in Fold(T)
  BY <1>5, <1>6
<1> QED
  BY <1>2, <1>7

-----------------------------------------------------------------------------
(* The order of the files, and the last of some. *)

\* What a directory may hold.
FilesOK == processed \in [Name -> Event \cup Loose \cup {Absent, Unreadable}]

\* The files that can be read are finite in number, and say what an Event may say.
LEMMA FileFacts ==
    ASSUME FilesOK
    PROVE  /\ IsFiniteSet(Files) /\ Files \subseteq Nat \ {0} /\ Files \subseteq Name
           /\ \A n \in Files : /\ processed[n] \in Event /\ processed[n].at \in Nat
                               /\ processed[n].id \in Nat /\ Valid(processed[n])
                               /\ processed[n].project \in Project
<1>1. Files \subseteq Name
  BY DEF Files
<1>2. IsFiniteSet(Files)
  BY <1>1, FS_Subset, NameAssumption
<1>3. \A n \in Files : processed[n] \in Event
  BY DEF FilesOK, Files
<1> QED
  BY <1>1, <1>2, <1>3, NameAssumption, EventAssumption

\* Files are in one order, by instant, by Event ID, and by name.
LEMMA Order ==
    ASSUME FilesOK
    PROVE  /\ \A n \in Files : ~Before(n, n)
           /\ \A m, n \in Files : m = n \/ Before(m, n) \/ Before(n, m)
           /\ \A m, n \in Files : Before(m, n) => ~Before(n, m)
           /\ \A k, m, n \in Files : Before(k, m) /\ Before(m, n) => Before(k, n)
<1>1. /\ Files \subseteq Nat
      /\ \A n \in Files : processed[n].at \in Nat /\ processed[n].id \in Nat
  BY FileFacts
<1>2. ASSUME NEW n \in Files, Before(n, n) PROVE FALSE
  <2>1. n \in Nat /\ processed[n].at \in Nat /\ processed[n].id \in Nat
    BY <1>1
  <2> QED
    BY <1>2, <2>1 DEF Before
<1>3. \A m, n \in Files : m = n \/ Before(m, n) \/ Before(n, m)
  BY <1>1 DEF Before
<1>4. ASSUME NEW m \in Files, NEW n \in Files, Before(m, n), Before(n, m) PROVE FALSE
  <2>1. /\ m \in Nat /\ processed[m].at \in Nat /\ processed[m].id \in Nat
        /\ n \in Nat /\ processed[n].at \in Nat /\ processed[n].id \in Nat
    BY <1>1
  <2> QED
    BY <1>4, <2>1 DEF Before
<1>5. \A k, m, n \in Files : Before(k, m) /\ Before(m, n) => Before(k, n)
  BY <1>1 DEF Before
<1> QED
  BY <1>2, <1>3, <1>4, <1>5

\* Of some files, one is the latest.
LEMMA LatestExists ==
    ASSUME FilesOK, NEW S \in SUBSET Files, S # {}
    PROVE  \E n \in S : \A m \in S : ~Before(n, m)
<1> DEFINE C == {T \in SUBSET Files : T # {} /\ \A n \in T : \E m \in T : Before(n, m)}
<1>1. SUFFICES ASSUME C # {} PROVE FALSE
  OBVIOUS
<1>2. PICK T \in C : \A U \in SUBSET T : U # T => U \notin C
  <2>1. C \in SUBSET SUBSET Files
    OBVIOUS
  <2> HIDE DEF C
  <2> QED
    BY <1>1, <2>1, SmallestMember, FileFacts
<1>3. PICK n \in T : TRUE
  BY <1>2
<1> DEFINE U == T \ {n}
<1>4. PICK m \in T : Before(n, m)
  BY <1>2
<1>5. n \in Files /\ m \in Files /\ T \subseteq Files /\ m # n
  BY <1>2, <1>4, Order
<1>6. U \in SUBSET T /\ U # T /\ U # {} /\ U \in SUBSET Files
  BY <1>5
<1>7. PICK k \in U : \A j \in U : ~Before(k, j)
  BY <1>2, <1>6
<1>8. PICK j \in T : Before(k, j)
  BY <1>2, <1>6
<1>9. j = n
  BY <1>7, <1>8
<1> QED
  BY <1>4, <1>5, <1>6, <1>7, <1>8, <1>9, Order

\* It is what Last says, and all others are before it.
LEMMA LastIsLatest ==
    ASSUME FilesOK, NEW S \in SUBSET Files, S # {}
    PROVE  /\ Last(S) \in S
           /\ \A m \in S : m = Last(S) \/ Before(m, Last(S))
           /\ \A m \in S : ~Before(Last(S), m)
<1>1. Last(S) \in S /\ \A m \in S : ~Before(Last(S), m)
  BY LatestExists DEF Last
<1> QED
  BY <1>1, Order

\* There is no other.
LEMMA LastIs ==
    ASSUME FilesOK, NEW S \in SUBSET Files, NEW n \in S, \A m \in S : ~Before(n, m)
    PROVE  Last(S) = n
<1>1. Last(S) \in S /\ \A m \in S : ~Before(Last(S), m)
  BY LastIsLatest
<1> QED
  BY <1>1, Order

\* The files without the last.
LEMMA ButLast ==
    ASSUME FilesOK, NEW T \in SUBSET Files, T # {}
    PROVE  /\ Last(T) \in T /\ Last(T) \in Files
           /\ T \ {Last(T)} \in SUBSET Files /\ T \ {Last(T)} # T
           /\ T = (T \ {Last(T)}) \cup {Last(T)}
           /\ \A m \in T \ {Last(T)} : m # Last(T) /\ Before(m, Last(T)) /\ ~Before(Last(T), m)
<1>1. /\ Last(T) \in T /\ \A m \in T : m = Last(T) \/ Before(m, Last(T))
      /\ \A m \in T : ~Before(Last(T), m)
  BY LastIsLatest
<1> DEFINE n == Last(T)
<1> HIDE DEF n
<1>2. n \in T /\ T \in SUBSET Files => T = (T \ {n}) \cup {n} /\ T \ {n} # T /\ T \ {n} \in SUBSET Files
  OBVIOUS
<1>3. \A m \in T \ {Last(T)} : m # Last(T) /\ Before(m, Last(T)) /\ ~Before(Last(T), m)
  BY <1>1
<1> QED
  BY <1>1, <1>2, <1>3 DEF n

-----------------------------------------------------------------------------
(* The fold of a project. *)

Sheet == [count : Nat, first : Nat, last : Nat, teams : SUBSET Role, blocker : Nat,
          atRisk : Nat, cancelled : Nat, completed : Nat]

\* ProjectOf is a fold, oldest Event first, of records.
LEMMA ProjectFold ==
    ASSUME FilesOK
    PROVE  /\ ProjectOf({}) = NewProject
           /\ \A T \in SUBSET Files :
                /\ ProjectOf(T) \in Sheet
                /\ T # {} => ProjectOf(T) = Rolled(ProjectOf(T \ {Last(T)}), Last(T))
<1> DEFINE step == [x \in Sheet \X Files |-> Rolled(x[1], x[2])]
           last == [T \in SUBSET Files |-> Last(T)]
           Is(g) == g = [T \in SUBSET Files |->
                           IF T = {} THEN NewProject
                           ELSE LET n == Last(T) IN Rolled(g[T \ {n}], n)]
<1>1. NewProject \in Sheet
  BY DEF NewProject, Sheet, NoFile
<1>2. \A p \in Sheet, n \in Files : Rolled(p, n) \in Sheet
  BY FileFacts DEF Rolled, Sheet, RunOf, NoFile, Valid
<1>3. step \in [Sheet \X Files -> Sheet]
  BY <1>2
<1>4. \A T \in SUBSET Files : T # {} => last[T] \in T
  BY LastIsLatest
<1>5. PICK f \in [SUBSET Files -> Sheet] : Folded(f, Files, NewProject, step, last)
  <2> HIDE DEF step, last
  <2> QED
    BY <1>1, <1>3, <1>4, FoldExists, FileFacts
<1>6. ASSUME NEW T \in SUBSET Files
      PROVE  f[T] = IF T = {} THEN NewProject ELSE Rolled(f[T \ {Last(T)}], Last(T))
  <2>1. CASE T = {}
    BY <1>5, <2>1 DEF Folded
  <2>2. CASE T # {}
    <3>1. f[T] = step[<<f[T \ {last[T]}], last[T]>>]
      BY <1>5, <2>2 DEF Folded
    <3>2. last[T] = Last(T)
      OBVIOUS
    <3>3. f[T \ {Last(T)}] \in Sheet /\ Last(T) \in Files
      BY <1>5, <2>2, ButLast
    <3> QED
      BY <2>2, <3>1, <3>2, <3>3
  <2> QED
    BY <2>1, <2>2
<1>7. Is(f)
  BY <1>5, <1>6
<1>8. ProjectRoll = CHOOSE g : Is(g)
  BY DEF ProjectRoll
<1>9. Is(ProjectRoll)
  <2> HIDE DEF Is
  <2> QED
    BY <1>7, <1>8
<1>10. ASSUME NEW T \in SUBSET Files
       PROVE  ProjectRoll[T] = IF T = {} THEN NewProject
                               ELSE Rolled(ProjectRoll[T \ {Last(T)}], Last(T))
  BY <1>9
<1>11. \A T \in SUBSET Files : ProjectRoll[T] \in Sheet
  <2> DEFINE C == {T \in SUBSET Files : ProjectRoll[T] \notin Sheet}
  <2>1. SUFFICES ASSUME C # {} PROVE FALSE
    OBVIOUS
  <2>2. PICK T \in C : \A U \in SUBSET T : U # T => U \notin C
    <3>1. C \in SUBSET SUBSET Files
      OBVIOUS
    <3> HIDE DEF C
    <3> QED
      BY <2>1, <3>1, SmallestMember, FileFacts
  <2>3. T # {}
    BY <1>1, <1>10, <2>2
  <2>4. ProjectRoll[T \ {Last(T)}] \in Sheet /\ Last(T) \in Files
    BY <2>2, <2>3, ButLast
  <2>5. ProjectRoll[T] = Rolled(ProjectRoll[T \ {Last(T)}], Last(T))
    BY <1>10, <2>2, <2>3
  <2> QED
    BY <1>2, <2>2, <2>4, <2>5
<1> QED
  BY <1>10, <1>11 DEF ProjectOf

\* Something blocks, and nothing after it lifts that.
Standing(T) ==
    \E b \in T : /\ Blocks(processed[b])
                 /\ \A m \in T : Before(b, m) => ~Unblocks(processed[m])

\* What the folded record of some files says of them.
IsSheetOf(p, T) ==
    /\ p.count = Cardinality(T)
    /\ T # {} => p.last = Last(T)
    /\ T # {} => p.first \in T /\ \A m \in T : m = p.first \/ Before(p.first, m)
    /\ p.blocker # NoFile <=> Standing(T)
    /\ EventsOf(T, "COMPLETED") = {} => p.completed = NoFile
    /\ EventsOf(T, "COMPLETED") # {} => p.completed = Last(EventsOf(T, "COMPLETED"))
    /\ p.cancelled # NoFile <=> T # {} /\ processed[Last(T)].status = "CANCELLED"
    /\ p.cancelled # NoFile =>
          /\ p.cancelled \in T
          /\ \A m \in T : ~Before(m, p.cancelled) => processed[m].status = "CANCELLED"

\* One Event more, and the record is still that of the Events (_roll_projects).
LEMMA OneMore ==
    ASSUME FilesOK, NEW T \in SUBSET Files, T # {},
           NEW p \in Sheet, IsSheetOf(p, T \ {Last(T)})
    PROVE  IsSheetOf(Rolled(p, Last(T)), T)
<1> DEFINE n == Last(T)
           U == T \ {n}
           q == Rolled(p, n)
           e == processed[n]
<1>1. /\ n \in T /\ n \in Files /\ n # NoFile /\ n \in Nat /\ U \in SUBSET Files /\ T = U \cup {n}
      /\ n \notin U
      /\ \A m \in U : m # n /\ Before(m, n) /\ ~Before(n, m)
      /\ ~Before(n, n)
  BY ButLast, FileFacts, Order DEF NoFile
<1>2. /\ q.count = p.count + 1
      /\ q.first = IF p.count = 0 THEN n ELSE p.first
      /\ q.last = n
      /\ q.blocker = IF Blocks(e) THEN n ELSE IF Unblocks(e) THEN NoFile ELSE p.blocker
      /\ q.cancelled = RunOf(p.cancelled, "CANCELLED", n)
      /\ q.completed = IF e.type = "COMPLETED" THEN n ELSE p.completed
  BY DEF Rolled
<1>3. IsSheetOf(p, U)
  OBVIOUS
<1>4. IsFiniteSet(U) /\ Cardinality(T) = Cardinality(U) + 1 /\ (Cardinality(U) = 0 <=> U = {})
  <2>1. IsFiniteSet(U)
    BY <1>1, FileFacts, FS_Subset
  <2> QED
    BY <1>1, <2>1, FS_AddElement, FS_EmptySet
<1> HIDE DEF n, U, q, e
<1>5. q.count = Cardinality(T)
  BY <1>2, <1>3, <1>4 DEF IsSheetOf
<1>6. q.first \in T /\ \A m \in T : m = q.first \/ Before(q.first, m)
  <2>1. CASE U = {}
    BY <1>1, <1>2, <1>3, <1>4, <2>1 DEF IsSheetOf
  <2>2. CASE U # {}
    <3>1. q.first = p.first /\ p.first \in U /\ \A m \in U : m = p.first \/ Before(p.first, m)
      BY <1>2, <1>3, <1>4, <2>2 DEF IsSheetOf
    <3> QED
      BY <1>1, <3>1
  <2> QED
    BY <2>1, <2>2
<1>7. q.blocker # NoFile <=> Standing(T)
  <2>1. Blocks(e) => ~Unblocks(e)
    BY DEF Blocks, Unblocks
  <2>2. CASE Blocks(e)
    BY <1>1, <1>2, <2>2 DEF Standing, e
  <2>3. CASE Unblocks(e)
    BY <1>1, <1>2, <2>1, <2>3 DEF Standing, e
  <2>4. CASE ~Blocks(e) /\ ~Unblocks(e)
    <3>1. Standing(T) <=> Standing(U)
      BY <1>1, <2>4 DEF Standing, e
    <3> QED
      BY <1>2, <1>3, <2>4, <3>1 DEF IsSheetOf
  <2> QED
    BY <2>2, <2>3, <2>4
<1>8. /\ EventsOf(T, "COMPLETED") = {} => q.completed = NoFile
      /\ EventsOf(T, "COMPLETED") # {} => q.completed = Last(EventsOf(T, "COMPLETED"))
  <2>1. CASE e.type = "COMPLETED"
    <3>1. n \in EventsOf(T, "COMPLETED") /\ EventsOf(T, "COMPLETED") \in SUBSET Files
          /\ \A m \in EventsOf(T, "COMPLETED") : ~Before(n, m)
      BY <1>1, <2>1 DEF EventsOf, e
    <3>2. Last(EventsOf(T, "COMPLETED")) = n
      BY <3>1, LastIs
    <3> QED
      BY <1>2, <2>1, <3>1, <3>2
  <2>2. CASE e.type # "COMPLETED"
    <3>1. EventsOf(T, "COMPLETED") = EventsOf(U, "COMPLETED")
      BY <1>1, <2>2 DEF EventsOf, e
    <3> QED
      BY <1>2, <1>3, <2>2, <3>1 DEF IsSheetOf
  <2> QED
    BY <2>1, <2>2
<1>9. /\ q.cancelled # NoFile <=> e.status = "CANCELLED"
      /\ q.cancelled # NoFile =>
            /\ q.cancelled \in T
            /\ \A m \in T : ~Before(m, q.cancelled) => processed[m].status = "CANCELLED"
  <2>1. CASE e.status # "CANCELLED"
    BY <1>2, <2>1 DEF RunOf, e
  <2>2. CASE e.status = "CANCELLED" /\ p.cancelled = NoFile
    BY <1>1, <1>2, <2>2 DEF RunOf, e
  <2>3. CASE e.status = "CANCELLED" /\ p.cancelled # NoFile
    <3>1. q.cancelled = p.cancelled /\ p.cancelled \in U
          /\ \A m \in U : ~Before(m, p.cancelled) => processed[m].status = "CANCELLED"
      BY <1>2, <1>3, <2>3 DEF RunOf, e, IsSheetOf
    <3> QED
      BY <1>1, <2>3, <3>1 DEF e
  <2> QED
    BY <2>1, <2>2, <2>3
<1> QED
  BY <1>1, <1>2, <1>5, <1>6, <1>7, <1>8, <1>9 DEF IsSheetOf, n, e, q

\* A project is what its Events say, whatever their number.
LEMMA Sheets == FilesOK => \A T \in SUBSET Files : ProjectOf(T) \in Sheet /\ IsSheetOf(ProjectOf(T), T)
<1> SUFFICES ASSUME FilesOK PROVE \A T \in SUBSET Files : IsSheetOf(ProjectOf(T), T)
  BY ProjectFold
<1> DEFINE C == {T \in SUBSET Files : ~IsSheetOf(ProjectOf(T), T)}
<1>1. SUFFICES ASSUME C # {} PROVE FALSE
  OBVIOUS
<1>2. PICK T \in C : \A U \in SUBSET T : U # T => U \notin C
  <2>1. C \in SUBSET SUBSET Files
    OBVIOUS
  <2> HIDE DEF C
  <2> QED
    BY <1>1, <2>1, SmallestMember, FileFacts
<1>3. CASE T = {}
  <2>1. IsSheetOf(NewProject, {})
    BY FS_EmptySet DEF IsSheetOf, NewProject, NoFile, Standing, EventsOf
  <2> QED
    BY <1>2, <1>3, <2>1, ProjectFold
<1>4. CASE T # {}
  <2> DEFINE U == T \ {Last(T)}
  <2>1. IsSheetOf(ProjectOf(U), U) /\ ProjectOf(U) \in Sheet
    BY <1>2, <1>4, ButLast, ProjectFold
  <2>2. ProjectOf(T) = Rolled(ProjectOf(U), Last(T))
    BY <1>2, <1>4, ProjectFold
  <2>3. T \in SUBSET Files /\ ~IsSheetOf(ProjectOf(T), T)
    BY <1>2
  <2> QED
    BY <1>4, <2>1, <2>2, <2>3, OneMore
<1> QED
  BY <1>3, <1>4

-----------------------------------------------------------------------------
(* The fold of the open items. *)

Matter == [since : Nat, times : Nat, assigned : Nat]

\* So is OpenItem, for each kind.
LEMMA ItemFold ==
    ASSUME FilesOK
    PROVE  /\ \A k \in Kind : OpenItem({}, k) = NoItem
           /\ \A T \in SUBSET Files, k \in Kind :
                /\ OpenItem(T, k) \in Matter
                /\ T # {} => OpenItem(T, k) = Item(OpenItem(T \ {Last(T)}, k), k, Last(T))
<1> DEFINE V == [Kind -> Matter]
           base == [k \in Kind |-> NoItem]
           step == [x \in V \X Files |-> [k \in Kind |-> Item(x[1][k], k, x[2])]]
           last == [T \in SUBSET Files |-> Last(T)]
           Is(g) == g = [T \in SUBSET Files |->
                           IF T = {} THEN [k \in Kind |-> NoItem]
                           ELSE LET n == Last(T)
                                    items == g[T \ {n}]
                                IN  [k \in Kind |-> Item(items[k], k, n)]]
<1>1. base \in V
  BY DEF NoItem, Matter, NoFile
<1>2. \A i \in Matter, k \in Kind, n \in Files : Item(i, k, n) \in Matter
  BY FileFacts DEF Item, Matter, NoItem, NoFile
<1>3. step \in [V \X Files -> V]
  <2>1. ASSUME NEW v \in V, NEW n \in Files PROVE [k \in Kind |-> Item(v[k], k, n)] \in V
    BY <1>2
  <2> QED
    BY <2>1
<1>4. \A T \in SUBSET Files : T # {} => last[T] \in T
  BY LastIsLatest
<1>5. PICK f \in [SUBSET Files -> V] : Folded(f, Files, base, step, last)
  <2> HIDE DEF step, last, base, V
  <2> QED
    BY <1>1, <1>3, <1>4, FoldExists, FileFacts
<1>6. ASSUME NEW T \in SUBSET Files
      PROVE  f[T] = IF T = {} THEN base
                    ELSE [k \in Kind |-> Item(f[T \ {Last(T)}][k], k, Last(T))]
  <2>1. CASE T = {}
    BY <1>5, <2>1 DEF Folded
  <2>2. CASE T # {}
    <3>1. f[T] = step[<<f[T \ {last[T]}], last[T]>>]
      BY <1>5, <2>2 DEF Folded
    <3>2. last[T] = Last(T)
      OBVIOUS
    <3>3. f[T \ {Last(T)}] \in V /\ Last(T) \in Files
      BY <1>5, <2>2, ButLast
    <3> HIDE DEF V
    <3> QED
      BY <2>2, <3>1, <3>2, <3>3
  <2> QED
    BY <2>1, <2>2
<1>7. Is(f)
  BY <1>5, <1>6
<1>8. ItemRoll = CHOOSE g : Is(g)
  BY DEF ItemRoll
<1>9. Is(ItemRoll)
  <2> HIDE DEF Is
  <2> QED
    BY <1>7, <1>8
<1>10. /\ ItemRoll[{}] = [k \in Kind |-> NoItem]
       /\ \A T \in SUBSET Files : T # {} =>
            ItemRoll[T] = [k \in Kind |-> Item(ItemRoll[T \ {Last(T)}][k], k, Last(T))]
  BY <1>9
<1>11. \A T \in SUBSET Files : ItemRoll[T] \in V
  <2> DEFINE C == {T \in SUBSET Files : ItemRoll[T] \notin V}
  <2>1. SUFFICES ASSUME C # {} PROVE FALSE
    OBVIOUS
  <2>2. PICK T \in C : \A U \in SUBSET T : U # T => U \notin C
    <3>1. C \in SUBSET SUBSET Files
      OBVIOUS
    <3> HIDE DEF C
    <3> QED
      BY <2>1, <3>1, SmallestMember, FileFacts
  <2>3. T # {}
    BY <1>1, <1>10, <2>2
  <2>4. ItemRoll[T \ {Last(T)}] \in V /\ Last(T) \in Files
    BY <2>2, <2>3, ButLast
  <2>5. ItemRoll[T] = [k \in Kind |-> Item(ItemRoll[T \ {Last(T)}][k], k, Last(T))]
    BY <1>10, <2>2, <2>3
  <2>6. \A k \in Kind : Item(ItemRoll[T \ {Last(T)}][k], k, Last(T)) \in Matter
    BY <1>2, <2>4
  <2>7. ItemRoll[T] \in V
    BY <2>5, <2>6
  <2> QED
    BY <2>2, <2>7
<1>12. ASSUME NEW T \in SUBSET Files, NEW k \in Kind
       PROVE  /\ ItemRoll[T][k] \in Matter
              /\ T # {} => ItemRoll[T][k] = Item(ItemRoll[T \ {Last(T)}][k], k, Last(T))
  <2>1. ItemRoll[T][k] \in Matter
    BY <1>11
  <2>2. T # {} => ItemRoll[T] = [q \in Kind |-> Item(ItemRoll[T \ {Last(T)}][q], q, Last(T))]
    BY <1>10
  <2> QED
    BY <2>1, <2>2
<1> QED
  BY <1>10, <1>12 DEF OpenItem

\* What opens, what closes, and what assigns are different Events.
LEMMA Kinds ==
    ASSUME NEW k \in Kind
    PROVE  Opens(k) \cap Closes(k) = {} /\ Assigns(k) \cap Opens(k) = {}
           /\ Assigns(k) \cap Closes(k) = {} /\ {"COMPLETED", "CANCELLED"} \subseteq Closes(k)
<1>1. CASE k = "ISSUE"
  BY <1>1 DEF Opens, Closes, Assigns
<1>2. CASE k = "DECISION"
  BY <1>2 DEF Opens, Closes, Assigns
<1>3. CASE k = "DECISION_EXECUTION"
  BY <1>3 DEF Opens, Closes, Assigns
<1> QED
  BY <1>1, <1>2, <1>3 DEF Kind

\* What was raised since the last answer, and who was assigned since.
Opened(T, k) ==
    {n \in T : /\ processed[n].type \in Opens(k)
               /\ \A m \in T : processed[m].type \in Closes(k) => Before(m, n)}
Taken(T, k) ==
    {n \in T : processed[n].type \in Assigns(k) /\ Before(Last(Opened(T, k)), n)}

IsItemOf(i, T, k) ==
    /\ Opened(T, k) = {} => i = NoItem
    /\ Opened(T, k) # {} =>
          i = [since |-> Last(Opened(T, k)), times |-> Cardinality(Opened(T, k)),
               assigned |-> IF Taken(T, k) = {} THEN NoFile ELSE Last(Taken(T, k))]

\* One Event more, and the item is still that of the Events (_roll_open_items).
LEMMA OneMoreItem ==
    ASSUME FilesOK, NEW T \in SUBSET Files, T # {}, NEW k \in Kind,
           NEW i \in Matter, IsItemOf(i, T \ {Last(T)}, k)
    PROVE  IsItemOf(Item(i, k, Last(T)), T, k)
<1> DEFINE n == Last(T)
           U == T \ {n}
           j == Item(i, k, n)
           t == processed[n].type
<1>1. /\ n \in T /\ n \in Files /\ n # NoFile /\ n \in Nat /\ U \in SUBSET Files /\ T = U \cup {n}
      /\ n \notin U
      /\ \A m \in U : m # n /\ Before(m, n) /\ ~Before(n, m)
      /\ ~Before(n, n)
  BY ButLast, FileFacts, Order DEF NoFile
<1>2. j = IF t \in Assigns(k)
          THEN IF i = NoItem THEN i ELSE [i EXCEPT !.assigned = n]
          ELSE IF t \in Opens(k)
          THEN [since |-> n, times |-> i.times + 1, assigned |-> NoFile]
          ELSE IF t \in Closes(k) THEN NoItem ELSE i
  BY DEF Item
<1>3. IsItemOf(i, U, k)
  OBVIOUS
<1>4. /\ Opened(U, k) \in SUBSET U /\ Opened(U, k) \in SUBSET Files /\ IsFiniteSet(Opened(U, k))
      /\ Taken(U, k) \in SUBSET Files
  <2>1. Opened(U, k) \in SUBSET U /\ Taken(U, k) \in SUBSET U
    BY DEF Opened, Taken
  <2> QED
    BY <1>1, <2>1, FileFacts, FS_Subset
<1> HIDE DEF n, U, j
<1>5. CASE t \in Assigns(k)
  <2>1. t \notin Opens(k) /\ t \notin Closes(k)
    BY <1>5, Kinds
  <2>2. Opened(T, k) = Opened(U, k)
    BY <1>1, <2>1 DEF Opened
  <2>3. CASE Opened(U, k) = {}
    BY <1>2, <1>3, <1>5, <2>2, <2>3 DEF IsItemOf, j, n
  <2>4. CASE Opened(U, k) # {}
    <3>1. Last(Opened(U, k)) \in U /\ Last(Opened(U, k)) \in Nat \ {0}
      BY <1>1, <1>4, <2>4, LastIsLatest, FileFacts
    <3>2. n \in Taken(T, k) /\ Taken(T, k) \in SUBSET T
      BY <1>1, <1>5, <2>2, <3>1 DEF Taken
    <3>3. Last(Taken(T, k)) = n
      BY <1>1, <3>2, LastIs
    <3>4. i # NoItem
      BY <1>3, <2>4, <3>1 DEF IsItemOf, NoItem, NoFile
    <3>5. j = [since |-> Last(Opened(U, k)), times |-> Cardinality(Opened(U, k)), assigned |-> n]
      BY <1>2, <1>3, <1>5, <2>4, <3>4 DEF IsItemOf
    <3> QED
      BY <2>2, <2>4, <3>2, <3>3, <3>5 DEF IsItemOf, j, n
  <2> QED
    BY <2>3, <2>4
<1>6. CASE t \in Opens(k)
  <2>1. t \notin Assigns(k) /\ t \notin Closes(k)
    BY <1>6, Kinds
  <2>2. Opened(T, k) = Opened(U, k) \cup {n} /\ n \notin Opened(U, k)
    BY <1>1, <1>6, <2>1 DEF Opened
  <2>3. Cardinality(Opened(T, k)) = Cardinality(Opened(U, k)) + 1 /\ Opened(T, k) # {}
    BY <1>4, <2>2, FS_AddElement
  <2>4. Last(Opened(T, k)) = n
    <3>1. Opened(T, k) \in SUBSET Files /\ n \in Opened(T, k)
          /\ \A m \in Opened(T, k) : ~Before(n, m)
      BY <1>1, <1>4, <2>2
    <3> QED
      BY <3>1, LastIs
  <2>5. Taken(T, k) = {}
    BY <1>1, <2>4 DEF Taken
  <2>6. i.times = Cardinality(Opened(U, k))
    <3>1. CASE Opened(U, k) = {}
      BY <1>3, <3>1, FS_EmptySet DEF IsItemOf, NoItem
    <3>2. CASE Opened(U, k) # {}
      BY <1>3, <3>2 DEF IsItemOf
    <3> QED
      BY <3>1, <3>2
  <2>7. j = [since |-> n, times |-> i.times + 1, assigned |-> NoFile]
    BY <1>2, <1>6, <2>1
  <2> QED
    BY <2>3, <2>4, <2>5, <2>6, <2>7 DEF IsItemOf, j, n
<1>7. CASE t \in Closes(k)
  <2>1. t \notin Assigns(k) /\ t \notin Opens(k)
    BY <1>7, Kinds
  <2>2. Opened(T, k) = {}
    BY <1>1, <1>7, <2>1 DEF Opened
  <2>3. j = NoItem
    BY <1>2, <1>7, <2>1
  <2> QED
    BY <2>2, <2>3 DEF IsItemOf, j, n
<1>8. CASE t \notin Assigns(k) /\ t \notin Opens(k) /\ t \notin Closes(k)
  <2>1. Opened(T, k) = Opened(U, k)
    BY <1>1, <1>8 DEF Opened
  <2>2. Taken(T, k) = Taken(U, k)
    BY <1>1, <1>8, <2>1 DEF Taken
  <2>3. j = i
    BY <1>2, <1>8
  <2> QED
    BY <1>3, <2>1, <2>2, <2>3 DEF IsItemOf, j, n
<1> QED
  BY <1>5, <1>6, <1>7, <1>8

\* An item is what the Events say of it, whatever their number.
LEMMA Items ==
    FilesOK => \A T \in SUBSET Files, k \in Kind :
                  OpenItem(T, k) \in Matter /\ IsItemOf(OpenItem(T, k), T, k)
<1> SUFFICES ASSUME FilesOK, NEW k \in Kind PROVE \A T \in SUBSET Files : IsItemOf(OpenItem(T, k), T, k)
  BY ItemFold
<1> DEFINE C == {T \in SUBSET Files : ~IsItemOf(OpenItem(T, k), T, k)}
<1>1. SUFFICES ASSUME C # {} PROVE FALSE
  OBVIOUS
<1>2. PICK T \in C : \A U \in SUBSET T : U # T => U \notin C
  <2>1. C \in SUBSET SUBSET Files
    OBVIOUS
  <2> HIDE DEF C
  <2> QED
    BY <1>1, <2>1, SmallestMember, FileFacts
<1>3. CASE T = {}
  <2>1. IsItemOf(NoItem, {}, k)
    BY DEF IsItemOf, Opened
  <2> QED
    BY <1>2, <1>3, <2>1, ItemFold
<1>4. CASE T # {}
  <2> DEFINE U == T \ {Last(T)}
  <2>1. IsItemOf(OpenItem(U, k), U, k) /\ OpenItem(U, k) \in Matter
    BY <1>2, <1>4, ButLast, ItemFold
  <2>2. OpenItem(T, k) = Item(OpenItem(U, k), k, Last(T))
    BY <1>2, <1>4, ItemFold
  <2>3. T \in SUBSET Files /\ ~IsItemOf(OpenItem(T, k), T, k)
    BY <1>2
  <2> QED
    BY <1>4, <2>1, <2>2, <2>3, OneMoreItem
<1> QED
  BY <1>3, <1>4

-----------------------------------------------------------------------------
(* What stands open. *)

\* The last Event leaves the project cancelled or, once completed, completed.
Ended(S) ==
    \/ processed[Last(S)].status = "CANCELLED"
    \/ processed[Last(S)].status = "COMPLETED" /\ EventsOf(S, "COMPLETED") # {}

\* The states of a project, by its Events.
LEMMA ProjectStands ==
    ASSUME FilesOK, NEW S \in SUBSET Files, S # {}
    PROVE  /\ ProjectOf(S).last = Last(S) /\ Last(S) \in S
           /\ StatusOf(ProjectOf(S)) = processed[Last(S)].status
           /\ CompletionStands(ProjectOf(S)) <=>
                 processed[Last(S)].status = "COMPLETED" /\ EventsOf(S, "COMPLETED") # {}
           /\ SettledAt(ProjectOf(S)) # NoFile <=> Ended(S)
           /\ ProjectOf(S).blocker # NoFile <=> Standing(S)
           /\ IsBlocked(ProjectOf(S)) <=> Standing(S) /\ ~Ended(S)
           /\ IsAtRisk(ProjectOf(S)) <=> processed[Last(S)].status = "AT_RISK"
<1> DEFINE q == ProjectOf(S)
<1>1. IsSheetOf(q, S)
  BY Sheets
<1> HIDE DEF q
<1>2. q.last = Last(S) /\ Last(S) \in S
  BY <1>1, LastIsLatest DEF IsSheetOf
<1>3. StatusOf(q) = processed[Last(S)].status
  BY <1>2 DEF StatusOf
<1>4. q.completed # NoFile <=> EventsOf(S, "COMPLETED") # {}
  <2>1. CASE EventsOf(S, "COMPLETED") = {}
    BY <1>1, <2>1 DEF IsSheetOf
  <2>2. CASE EventsOf(S, "COMPLETED") # {}
    <3>1. EventsOf(S, "COMPLETED") \in SUBSET Files
      BY DEF EventsOf
    <3>2. Last(EventsOf(S, "COMPLETED")) \in Files
      BY <2>2, <3>1, LastIsLatest
    <3> QED
      BY <1>1, <2>2, <3>2, FileFacts DEF IsSheetOf, NoFile
  <2> QED
    BY <2>1, <2>2
<1>5. CompletionStands(q) <=>
         processed[Last(S)].status = "COMPLETED" /\ EventsOf(S, "COMPLETED") # {}
  BY <1>3, <1>4 DEF CompletionStands
<1>6. q.cancelled # NoFile <=> processed[Last(S)].status = "CANCELLED"
  BY <1>1 DEF IsSheetOf
<1>7. SettledAt(q) # NoFile <=> Ended(S)
  BY <1>4, <1>5, <1>6 DEF SettledAt, Ended
<1>8. q.blocker # NoFile <=> Standing(S)
  BY <1>1 DEF IsSheetOf
<1>9. IsBlocked(q) <=> Standing(S) /\ ~Ended(S)
  BY <1>7, <1>8 DEF IsBlocked
<1>10. IsAtRisk(q) <=> processed[Last(S)].status = "AT_RISK"
  BY <1>3 DEF IsAtRisk
<1> QED
  BY <1>2, <1>3, <1>5, <1>7, <1>8, <1>9, <1>10 DEF q

\* An Event that completes or cancels leaves no room for another view.
LEMMA EndsIsEnded ==
    ASSUME FilesOK, NEW S \in SUBSET Files, S # {},
           processed[Last(S)].type \in {"COMPLETED", "CANCELLED"}
    PROVE  /\ Ended(S) /\ processed[Last(S)].status = processed[Last(S)].type
           /\ ~IsBlocked(ProjectOf(S)) /\ ~IsAtRisk(ProjectOf(S))
<1>1. Last(S) \in S /\ Last(S) \in Files
  BY LastIsLatest
<1>2. processed[Last(S)].status = processed[Last(S)].type
  BY <1>1, FileFacts DEF Valid
<1>3. processed[Last(S)].type = "COMPLETED" => EventsOf(S, "COMPLETED") # {}
  BY <1>1 DEF EventsOf
<1> QED
  BY <1>2, <1>3, ProjectStands DEF Ended

\* A Blocker stands if the last Event that speaks of one sets it.
LEMMA LastWord ==
    ASSUME FilesOK, NEW S \in SUBSET Files, NEW speaks,
           speaks = {n \in S : Blocks(processed[n]) \/ Unblocks(processed[n])}
    PROVE  Standing(S) <=> speaks # {} /\ Blocks(processed[Last(speaks)])
<1>1. speaks \in SUBSET Files
  OBVIOUS
<1>2. \A n : Blocks(processed[n]) => ~Unblocks(processed[n])
  BY DEF Blocks, Unblocks
<1>3. ASSUME Standing(S) PROVE speaks # {} /\ Blocks(processed[Last(speaks)])
  <2>1. PICK b \in S : /\ Blocks(processed[b])
                       /\ \A m \in S : Before(b, m) => ~Unblocks(processed[m])
    BY <1>3 DEF Standing
  <2>2. b \in speaks
    BY <2>1
  <2>3. Last(speaks) \in speaks /\ (b = Last(speaks) \/ Before(b, Last(speaks)))
    BY <1>1, <2>2, LastIsLatest
  <2> QED
    BY <2>1, <2>2, <2>3
<1>4. ASSUME speaks # {}, Blocks(processed[Last(speaks)]) PROVE Standing(S)
  <2>1. Last(speaks) \in speaks /\ \A m \in speaks : ~Before(Last(speaks), m)
    BY <1>1, <1>4, LastIsLatest
  <2>2. \A m \in S : Before(Last(speaks), m) => ~Unblocks(processed[m])
    BY <2>1
  <2> QED
    BY <1>4, <2>1, <2>2 DEF Standing
<1> QED
  BY <1>3, <1>4

\* The Events of the projects of a window.
LEMMA OfProjectFiles ==
    ASSUME NEW S \in SUBSET Files
    PROVE  /\ \A p : OfProject(S, p) \in SUBSET Files
           /\ \A p \in Projects(S) : OfProject(S, p) # {}
BY DEF OfProject, Projects

\* The Events of a window are files.
LEMMA WindowFiles ==
    /\ \A w : AsOf(w) \in SUBSET Files
    /\ \A w : InPeriod(w) \in SUBSET Files
BY DEF AsOf, InPeriod, Kept, UntilOf, SinceOf

\* What is reported as blocked, and why (is_blocked).
LEMMA BlockersFollow == FilesOK => BlockerFollowsTheLastWord
<1> SUFFICES ASSUME FilesOK, NEW w \in Window, NEW p \in Projects(AsOf(w)),
                    NEW S, S = OfProject(AsOf(w), p), NEW speaks,
                    speaks = {n \in S : Blocks(processed[n]) \/ Unblocks(processed[n])}
             PROVE  p \in Risks(w) <=>
                       speaks # {} /\ Blocks(processed[Last(speaks)]) /\ ~Ended(S)
  BY DEF BlockerFollowsTheLastWord, Ended
<1>1. S \in SUBSET Files /\ S # {}
  BY OfProjectFiles, WindowFiles
<1>2. p \in Risks(w) <=> IsBlocked(ProjectOf(S))
  BY DEF Risks
<1> QED
  BY <1>1, <1>2, LastWord, ProjectStands

\* What has ended asks for nobody.
LEMMA SettledNeedNobody == FilesOK => SettledNeedsNobody
<1> SUFFICES ASSUME FilesOK, NEW w \in Window, NEW p \in Projects(AsOf(w)),
                    NEW S, S = OfProject(AsOf(w), p),
                    processed[Last(S)].type \in {"COMPLETED", "CANCELLED"}
             PROVE  p \notin Risks(w) /\ p \notin AtRisk(w) /\ \A i \in OpenItems(w) : i.project # p
  BY DEF SettledNeedsNobody
<1>1. S \in SUBSET Files /\ S # {}
  BY OfProjectFiles, WindowFiles
<1>2. p \notin Risks(w)
  BY <1>1, EndsIsEnded DEF Risks
<1>3. p \notin AtRisk(w)
  BY <1>1, EndsIsEnded DEF AtRisk, NeedsCare
<1>4. ASSUME NEW k \in Kind PROVE OpenItem(S, k) = NoItem
  <2>1. /\ Last(S) \in S /\ \A m \in S : ~Before(Last(S), m)
        /\ processed[Last(S)].type \in Closes(k)
    BY <1>1, LastIsLatest, Kinds
  <2>2. Opened(S, k) = {}
    BY <2>1 DEF Opened
  <2> QED
    BY <1>1, <2>2, Items DEF IsItemOf
<1>5. ASSUME NEW i \in OpenItems(w) PROVE i.project # p
  <2>1. PICK k \in Kind, q \in Projects(AsOf(w)) :
           i = [kind |-> k, project |-> q, item |-> OpenItem(OfProject(AsOf(w), q), k)]
    BY DEF OpenItems, RollOpenItems
  <2>2. i.item # NoItem
    BY DEF OpenItems
  <2> QED
    BY <1>4, <2>1, <2>2
<1> QED
  BY <1>2, <1>3, <1>5

\* Two windows with one end show one state.
LEMMA NoSince == StateHasNoSince
<1> SUFFICES ASSUME NEW v \in Window, NEW w \in Window, v.until = w.until
             PROVE  /\ Risks(v) = Risks(w) /\ AtRisk(v) = AtRisk(w)
                    /\ OpenItems(v) = OpenItems(w)
                    /\ \A r \in Role : TeamBlocked(v, r) = TeamBlocked(w, r)
  BY DEF StateHasNoSince
<1>1. AsOf(v) = AsOf(w)
  BY DEF AsOf, UntilOf
<1>2. Risks(v) = Risks(w)
  BY <1>1 DEF Risks
<1>3. AtRisk(v) = AtRisk(w)
  BY <1>1 DEF AtRisk
<1>4. OpenItems(v) = OpenItems(w)
  BY <1>1 DEF OpenItems
<1> QED
  BY <1>1, <1>2, <1>3, <1>4 DEF TeamBlocked

\* Finitely many Events have finitely many projects, and no more of these.
LEMMA FiniteProjects ==
    ASSUME NEW S, IsFiniteSet(S)
    PROVE  IsFiniteSet(Projects(S)) /\ Cardinality(Projects(S)) <= Cardinality(S)
<1> DEFINE f == [n \in S |-> processed[n].project]
<1>1. f \in Surjection(S, Projects(S))
  BY DEF Surjection, Projects
<1> QED
  BY <1>1, FS_Surjection

\* What is open is what nothing has answered.
LEMMA ItemsUnanswered == FilesOK => OpenItemIsUnanswered
<1> SUFFICES ASSUME FilesOK, NEW w \in Window, NEW k \in Kind, NEW p \in Projects(AsOf(w))
             PROVE  LET S == OfProject(AsOf(w), p)
                        opens == {n \in S : processed[n].type \in Opens(k)}
                        closes == {n \in S : processed[n].type \in Closes(k)}
                        open == {n \in opens : \A m \in closes : Before(m, n)}
                        taken == {n \in S : /\ processed[n].type \in Assigns(k)
                                            /\ Before(Last(open), n)}
                        found == {i.item : i \in {j \in OpenItems(w) : j.kind = k /\ j.project = p}}
                    IN  found =
                          IF open = {} THEN {}
                          ELSE {[since |-> Last(open), times |-> Cardinality(open),
                                 assigned |-> IF taken = {} THEN NoFile ELSE Last(taken)]}
  BY DEF OpenItemIsUnanswered
<1> DEFINE S == OfProject(AsOf(w), p)
           opens == {n \in S : processed[n].type \in Opens(k)}
           closes == {n \in S : processed[n].type \in Closes(k)}
           open == {n \in opens : \A m \in closes : Before(m, n)}
           taken == {n \in S : processed[n].type \in Assigns(k) /\ Before(Last(open), n)}
           found == {i.item : i \in {j \in OpenItems(w) : j.kind = k /\ j.project = p}}
<1> SUFFICES found = IF open = {} THEN {}
                     ELSE {[since |-> Last(open), times |-> Cardinality(open),
                            assigned |-> IF taken = {} THEN NoFile ELSE Last(taken)]}
  OBVIOUS
<1> DEFINE it == OpenItem(S, k)
<1>1. S \in SUBSET Files
  BY OfProjectFiles, WindowFiles
<1>2. open = Opened(S, k)
  BY DEF Opened
<1>3. taken = Taken(S, k)
  BY <1>2 DEF Taken
<1>4. IsItemOf(it, S, k)
  BY <1>1, Items
<1>5. \A i : i \in OpenItems(w) /\ i.kind = k /\ i.project = p
                <=> i = [kind |-> k, project |-> p, item |-> it] /\ it # NoItem
  <2>1. ASSUME NEW i \in OpenItems(w), i.kind = k, i.project = p
        PROVE  i = [kind |-> k, project |-> p, item |-> it] /\ it # NoItem
    <3>1. PICK h \in Kind, q \in Projects(AsOf(w)) :
             i = [kind |-> h, project |-> q, item |-> OpenItem(OfProject(AsOf(w), q), h)]
      BY DEF OpenItems, RollOpenItems
    <3>2. h = k /\ q = p
      BY <2>1, <3>1
    <3>3. i.item # NoItem
      BY DEF OpenItems
    <3> QED
      BY <3>1, <3>2, <3>3
  <2>2. ASSUME it # NoItem
        PROVE  [kind |-> k, project |-> p, item |-> it] \in OpenItems(w)
    <3>1. [kind |-> k, project |-> p, item |-> it] \in RollOpenItems(AsOf(w))
      BY DEF RollOpenItems
    <3> QED
      BY <2>2, <3>1 DEF OpenItems
  <2> HIDE DEF it
  <2> QED
    BY <2>1, <2>2
<1> HIDE DEF it, open, taken, S
<1>6. found = IF it = NoItem THEN {} ELSE {it}
  <2>1. \A x : x \in found <=> \E i : i \in OpenItems(w) /\ i.kind = k /\ i.project = p /\ x = i.item
    OBVIOUS
  <2> HIDE DEF found
  <2>2. ASSUME NEW x PROVE x \in found <=> it # NoItem /\ x = it
    <3>1. ASSUME x \in found PROVE it # NoItem /\ x = it
      <4>1. PICK i : i \in OpenItems(w) /\ i.kind = k /\ i.project = p /\ x = i.item
        BY <2>1, <3>1
      <4>2. i = [kind |-> k, project |-> p, item |-> it] /\ it # NoItem
        BY <1>5, <4>1
      <4> QED
        BY <4>1, <4>2
    <3>2. ASSUME it # NoItem, x = it PROVE x \in found
      <4> DEFINE i == [kind |-> k, project |-> p, item |-> it]
      <4>1. i \in OpenItems(w) /\ i.kind = k /\ i.project = p
        BY <1>5, <3>2
      <4>2. i.item = x
        BY <3>2
      <4> QED
        BY <2>1, <4>1, <4>2
    <3> QED
      BY <3>1, <3>2
  <2> QED
    BY <2>2
<1>7. CASE open = {}
  BY <1>2, <1>4, <1>6, <1>7 DEF IsItemOf
<1>8. CASE open # {}
  <2>1. it = [since |-> Last(open), times |-> Cardinality(open),
              assigned |-> IF taken = {} THEN NoFile ELSE Last(taken)]
    BY <1>2, <1>3, <1>4, <1>8 DEF IsItemOf
  <2>2. open \in SUBSET Files
    BY <1>1 DEF open
  <2>3. Last(open) \in Nat \ {0}
    BY <1>8, <2>2, LastIsLatest, FileFacts
  <2>4. it # NoItem
    BY <2>1, <2>3 DEF NoItem, NoFile
  <2> QED
    BY <1>6, <1>8, <2>1, <2>4
<1> QED
  BY <1>7, <1>8

\* What stands above a project that has not ended stands above each that has.
LEMMA CutHides == FilesOK => CutHidesTheSettled
<1> SUFFICES ASSUME FilesOK, NEW S, S = InPeriod(Forever),
                    NEW p \in Shown(S), NEW q \in Projects(S), q \notin Shown(S),
                    processed[Last(OfProject(S, p))].type \in {"COMPLETED", "CANCELLED"},
                    processed[Last(OfProject(S, q))].status \notin {"COMPLETED", "CANCELLED"}
             PROVE  FALSE
  BY DEF CutHidesTheSettled
<1> DEFINE roll == RollProjects(S)
           D == DOMAIN roll
           over(r) == {x \in D : Above(roll[x], roll[r])}
           band(x) == IF IsBlocked(x) THEN 0 ELSE IF Settled(State(x)) THEN 2 ELSE 1
<1>1. S \in SUBSET Files /\ D = Projects(S) /\ \A r \in D : roll[r] = ProjectOf(OfProject(S, r))
  BY WindowFiles DEF RollProjects
<1>2. \A r \in D : OfProject(S, r) \in SUBSET Files /\ OfProject(S, r) # {}
  BY <1>1, OfProjectFiles
<1>3. p \in D /\ q \in D /\ Cardinality(over(p)) < ProjectLines /\ ~(Cardinality(over(q)) < ProjectLines)
  BY <1>1 DEF Shown
<1>4. band(roll[p]) = 2
  <2>1. /\ ~IsBlocked(roll[p]) /\ ~IsAtRisk(roll[p])
        /\ StatusOf(roll[p]) \in {"COMPLETED", "CANCELLED"}
        /\ CompletionStands(roll[p]) \/ StatusOf(roll[p]) = "CANCELLED"
    BY <1>1, <1>2, <1>3, EndsIsEnded, ProjectStands DEF Ended
  <2> QED
    BY <2>1 DEF State, Settled
<1>5. band(roll[q]) \in {0, 1}
  <2>1. ~CompletionStands(roll[q]) /\ StatusOf(roll[q]) # "CANCELLED"
    BY <1>1, <1>2, <1>3, ProjectStands
  <2> QED
    BY <2>1 DEF State, Settled
<1>6. ASSUME NEW x \in over(q) PROVE x \in over(p)
  <2>1. Above(roll[x], roll[q])
    OBVIOUS
  <2>2. band(roll[x]) \in {0, 1}
    BY <1>5, <2>1 DEF Above
  <2> QED
    BY <1>4, <2>2 DEF Above
<1>7. over(p) \in SUBSET D /\ over(q) \in SUBSET over(p)
  BY <1>6
<1>8. IsFiniteSet(D)
  <2>1. IsFiniteSet(S)
    BY <1>1, FileFacts, FS_Subset
  <2> QED
    BY <1>1, <2>1, FiniteProjects
<1>9. Cardinality(over(q)) <= Cardinality(over(p)) /\ Cardinality(over(p)) \in Nat
      /\ Cardinality(over(q)) \in Nat
  <2> HIDE DEF over
  <2>1. IsFiniteSet(over(p))
    BY <1>7, <1>8, FS_Subset
  <2>2. IsFiniteSet(over(q))
    BY <1>7, <2>1, FS_Subset
  <2> QED
    BY <1>7, <2>1, <2>2, FS_Subset, FS_CardinalityType
<1> QED
  BY <1>3, <1>9, TowerAssumption

\* All that is said of what stands.
LEMMA StandsAreShown == FilesOK => WhatStandsIsShown
BY BlockersFollow, ItemsUnanswered, SettledNeedNobody, NoSince, CutHides DEF WhatStandsIsShown

-----------------------------------------------------------------------------
(* Days, and the files that are kept of each Event ID. *)

\* Days are numbers, and follow the order of the Events.
LEMMA DayOf ==
    ASSUME FilesOK
    PROVE  /\ \A n \in Files : Day(n) \in Nat /\ Day(n) <= Forever.until
           /\ \A m, n \in Files : Before(m, n) => Day(m) <= Day(n)
<1>1. ASSUME NEW a \in Nat PROVE a \div DayLength \in Nat
  BY WindowAssumption
<1>2. ASSUME NEW a \in Nat, NEW b \in Nat, a <= b PROVE a \div DayLength <= b \div DayLength
  BY <1>2, WindowAssumption
<1>3. \A n \in Files : Day(n) \in Nat /\ Day(n) <= Forever.until
  BY <1>1, FileFacts, ForeverAssumption DEF Day, Forever
<1>4. ASSUME NEW m \in Files, NEW n \in Files, Before(m, n) PROVE Day(m) <= Day(n)
  <2>1. processed[m].at \in Nat /\ processed[n].at \in Nat
    BY FileFacts
  <2>2. processed[m].at <= processed[n].at
    BY <1>4, <2>1 DEF Before
  <2> QED
    BY <1>2, <2>1, <2>2 DEF Day
<1> QED
  BY <1>3, <1>4

\* Of some files, one is the first.
LEMMA FirstFile ==
    ASSUME FilesOK, NEW S \in SUBSET Files, S # {}
    PROVE  \E n \in S : \A m \in S : m = n \/ Before(n, m)
BY Sheets DEF IsSheetOf

\* Of each Event ID the first file is kept.
LEMMA KeptFacts ==
    ASSUME FilesOK, NEW S \in SUBSET Files
    PROVE  /\ Kept(S) \in SUBSET S /\ Kept(S) \in SUBSET Files
           /\ \A n \in S : \E m \in Kept(S) : SameEvent(m, n) /\ (m = n \/ Before(m, n))
           /\ \A m, n \in Kept(S) : SameEvent(m, n) => m = n
           /\ Kept(S) = {} <=> S = {}
<1>1. Kept(S) \in SUBSET S
  BY DEF Kept
<1>2. ASSUME NEW n \in S PROVE \E m \in Kept(S) : SameEvent(m, n) /\ (m = n \/ Before(m, n))
  <2> DEFINE C == {m \in S : SameEvent(m, n)}
  <2>1. n \in C /\ C \in SUBSET Files
    BY DEF SameEvent
  <2>2. PICK f \in C : \A m \in C : m = f \/ Before(f, m)
    <3> HIDE DEF C
    <3> QED
      BY <2>1, FirstFile
  <2>3. f = n \/ Before(f, n)
    BY <2>1, <2>2
  <2>4. \A m \in S : SameEvent(m, f) => ~Before(m, f)
    <3>1. ASSUME NEW m \in S, SameEvent(m, f) PROVE ~Before(m, f)
      <4>1. m \in C
        BY <3>1 DEF SameEvent
      <4> QED
        BY <2>2, <4>1, Order
    <3> QED
      BY <3>1
  <2>5. f \in Kept(S)
    BY <2>4 DEF Kept
  <2> QED
    BY <2>3, <2>5
<1>3. ASSUME NEW m \in Kept(S), NEW n \in Kept(S), SameEvent(m, n) PROVE m = n
  <2>1. ~Before(m, n)
    BY <1>3 DEF Kept
  <2>2. ~Before(n, m)
    BY <1>3 DEF Kept, SameEvent
  <2> QED
    BY <1>1, <2>1, <2>2, Order
<1> QED
  BY <1>1, <1>2, <1>3

\* Without a window, all files count.
LEMMA ForeverFiles ==
    ASSUME FilesOK
    PROVE  UntilOf(Forever) = Files /\ SinceOf(Forever) = Files
           /\ InPeriod(Forever) = Kept(Files) /\ AsOf(Forever) = Kept(Files)
<1>1. UntilOf(Forever) = Files
  BY DayOf DEF UntilOf
<1>2. Forever.since = 0
  BY DEF Forever
<1>3. SinceOf(Forever) = Files
  BY <1>1, <1>2, DayOf DEF SinceOf
<1> QED
  BY <1>1, <1>3 DEF InPeriod, AsOf

\* Files and their projects can be counted.
LEMMA FiniteFiles ==
    ASSUME FilesOK, NEW S \in SUBSET Files
    PROVE  IsFiniteSet(S) /\ Cardinality(S) \in Nat /\ (Cardinality(S) = 0 <=> S = {})
           /\ IsFiniteSet(Projects(S)) /\ Cardinality(Projects(S)) \in Nat
           /\ (Cardinality(Projects(S)) = 0 <=> S = {})
<1>1. IsFiniteSet(S)
  BY FileFacts, FS_Subset
<1>2. IsFiniteSet(Projects(S))
  BY <1>1, FiniteProjects
<1>3. Projects(S) = {} <=> S = {}
  BY DEF Projects
<1> QED
  BY <1>1, <1>2, <1>3, FS_CardinalityType, FS_EmptySet

\* What is open can be counted.
LEMMA FiniteItems ==
    ASSUME FilesOK, NEW w
    PROVE  IsFiniteSet(OpenItems(w)) /\ IsFiniteSet(Risks(w)) /\ IsFiniteSet(AtRisk(w))
<1> DEFINE P == Projects(AsOf(w))
           f == [x \in Kind \X P |->
                   [kind |-> x[1], project |-> x[2], item |-> OpenItem(OfProject(AsOf(w), x[2]), x[1])]]
<1>1. IsFiniteSet(P)
  BY WindowFiles, FiniteFiles
<1>2. Risks(w) \in SUBSET P /\ AtRisk(w) \in SUBSET P
  BY DEF Risks, AtRisk
<1>3. IsFiniteSet(Kind)
  <2>1. Kind = {"ISSUE"} \cup {"DECISION"} \cup {"DECISION_EXECUTION"}
    BY DEF Kind
  <2> QED
    BY <2>1, FS_Singleton, FS_Union
<1>4. IsFiniteSet(Kind \X P)
  BY <1>1, <1>3, FS_Product
<1>5. f \in Surjection(Kind \X P, RollOpenItems(AsOf(w)))
  <2>1. \A x \in Kind \X P : f[x] \in RollOpenItems(AsOf(w))
    BY DEF RollOpenItems
  <2>2. ASSUME NEW i \in RollOpenItems(AsOf(w)) PROVE \E x \in Kind \X P : f[x] = i
    <3>1. PICK k \in Kind, p \in P :
             i = [kind |-> k, project |-> p, item |-> OpenItem(OfProject(AsOf(w), p), k)]
      BY DEF RollOpenItems
    <3>2. <<k, p>> \in Kind \X P /\ f[<<k, p>>] = i
      BY <3>1
    <3> QED
      BY <3>2
  <2> QED
    BY <2>1, <2>2 DEF Surjection
<1>6. IsFiniteSet(RollOpenItems(AsOf(w)))
  <2> HIDE DEF f, P
  <2> QED
    BY <1>4, <1>5, FS_Surjection
<1>7. OpenItems(w) \in SUBSET RollOpenItems(AsOf(w))
  BY DEF OpenItems
<1> QED
  BY <1>1, <1>2, <1>6, <1>7, FS_Subset

-----------------------------------------------------------------------------
(* Counting one thing in several ways. *)

\* A sum of counts is the count of all, if nothing is counted twice.
LEMMA SumOfParts ==
    ASSUME NEW S, IsFiniteSet(S), NEW A, IsFiniteSet(A), NEW part \in [S -> SUBSET A],
           \A x, y \in S : x # y => part[x] \cap part[y] = {},
           NEW c, c = [x \in S |-> Cardinality(part[x])]
    PROVE  SumFunction(c) = Cardinality(UNION {part[x] : x \in S})
<1> DEFINE step == [x \in Nat \X S |-> c[x[2]] + x[1]]
           last == [T \in SUBSET S |-> CHOOSE x \in T : TRUE]
           Is(g) == g = [T \in SUBSET S |->
                           IF T = {} THEN 0
                           ELSE LET x == CHOOSE x \in T : TRUE IN c[x] + g[T \ {x}]]
           all(T) == UNION {part[x] : x \in T}
<1>1. \A x \in S : IsFiniteSet(part[x]) /\ c[x] = Cardinality(part[x]) /\ c[x] \in Nat
  BY FS_Subset, FS_CardinalityType
<1>2. step \in [Nat \X S -> Nat]
  BY <1>1
<1>3. \A T \in SUBSET S : T # {} => last[T] \in T
  OBVIOUS
<1>4. PICK f \in [SUBSET S -> Nat] : Folded(f, S, 0, step, last)
  <2> HIDE DEF step, last
  <2> QED
    BY <1>2, <1>3, FoldExists
<1>5. ASSUME NEW T \in SUBSET S
      PROVE  f[T] = IF T = {} THEN 0
                    ELSE LET x == CHOOSE x \in T : TRUE IN c[x] + f[T \ {x}]
  <2>1. CASE T = {}
    BY <1>4, <2>1 DEF Folded
  <2>2. CASE T # {}
    <3>1. f[T] = step[<<f[T \ {last[T]}], last[T]>>]
      BY <1>4, <2>2 DEF Folded
    <3>2. last[T] = CHOOSE x \in T : TRUE
      OBVIOUS
    <3>3. f[T \ {last[T]}] \in Nat /\ last[T] \in S
      BY <1>3, <1>4, <2>2
    <3> HIDE DEF last
    <3>4. f[T] = c[last[T]] + f[T \ {last[T]}]
      BY <3>1, <3>3
    <3> QED
      BY <2>2, <3>2, <3>4
  <2> QED
    BY <2>1, <2>2
<1>6. Is(f)
  BY <1>4, <1>5
<1>7. DOMAIN c = S
  OBVIOUS
<1>8. SumFunction(c) = (CHOOSE g : Is(g))[S]
  BY <1>7 DEF SumFunction, SumFunctionOnSet, FoldFunctionOnSet, MapThenFoldSet
<1>9. PICK g : Is(g) /\ SumFunction(c) = g[S]
  <2> HIDE DEF Is
  <2> QED
    BY <1>6, <1>8
<1>10. /\ g[{}] = 0
       /\ \A T \in SUBSET S : T # {} => g[T] = c[last[T]] + g[T \ {last[T]}]
  BY <1>9
<1> HIDE DEF Is, last, step
<1>11. \A T \in SUBSET S : g[T] = Cardinality(all(T)) /\ IsFiniteSet(all(T))
  <2> DEFINE C == {T \in SUBSET S : ~(g[T] = Cardinality(all(T)) /\ IsFiniteSet(all(T)))}
  <2>1. SUFFICES ASSUME C # {} PROVE FALSE
    OBVIOUS
  <2>2. PICK T \in C : \A U \in SUBSET T : U # T => U \notin C
    <3>1. C \in SUBSET SUBSET S
      OBVIOUS
    <3> HIDE DEF C
    <3> QED
      BY <2>1, <3>1, SmallestMember
  <2>3. CASE T = {}
    <3>1. all({}) = {}
      OBVIOUS
    <3> QED
      BY <1>10, <2>2, <2>3, <3>1, FS_EmptySet
  <2>4. CASE T # {}
    <3> DEFINE x == last[T]
               U == T \ {x}
    <3>1. x \in T /\ x \in S /\ U \in SUBSET S /\ U # T /\ U \in SUBSET T
      BY <1>3, <2>2, <2>4
    <3>2. g[U] = Cardinality(all(U)) /\ IsFiniteSet(all(U))
      BY <2>2, <3>1
    <3>3. g[T] = c[x] + g[U]
      BY <1>10, <2>2, <2>4
    <3> HIDE DEF x
    <3>4. all(T) = all(U) \cup part[x]
      BY <3>1
    <3>5. all(U) \cap part[x] = {}
      BY <3>1
    <3> HIDE DEF all, U
    <3>6. /\ IsFiniteSet(all(T))
          /\ Cardinality(all(T)) = Cardinality(all(U)) + Cardinality(part[x]) - Cardinality({})
      BY <1>1, <3>1, <3>2, <3>4, <3>5, FS_Union
    <3>7. Cardinality(all(U)) \in Nat /\ Cardinality({}) = 0
      BY <3>2, FS_CardinalityType, FS_EmptySet
    <3>8. g[T] = Cardinality(all(T))
      BY <1>1, <3>1, <3>2, <3>3, <3>6, <3>7
    <3> QED
      BY <2>2, <3>6, <3>8 DEF all
  <2> QED
    BY <2>3, <2>4
<1> QED
  BY <1>9, <1>11

\* The files that are kept are as many as there are Event IDs.
LEMMA OneEach ==
    ASSUME FilesOK, NEW S \in SUBSET Files
    PROVE  Cardinality(Kept(S)) = Cardinality({processed[n].id : n \in S})
<1> DEFINE K == Kept(S)
           I == {processed[n].id : n \in S}
           f == [n \in K |-> processed[n].id]
<1>1. IsFiniteSet(K)
  BY KeptFacts, FiniteFiles
<1>2. f \in [K -> I]
  BY KeptFacts
<1>3. \A m, n \in K : f[m] = f[n] => m = n
  BY KeptFacts DEF SameEvent
<1>4. \A i \in I : \E n \in K : f[n] = i
  BY KeptFacts DEF SameEvent
<1>5. f \in Bijection(K, I)
  BY <1>2, <1>3, <1>4 DEF Bijection, Injection, Surjection, IsInjective
<1>6. ExistsBijection(K, I)
  BY <1>5 DEF ExistsBijection
<1> QED
  BY <1>1, <1>6, FS_Bijection

\* However the Events are added up, an Event ID counts once.
LEMMA IdsCount == FilesOK => EveryIdCountsOnce
<1> SUFFICES ASSUME FilesOK, NEW w \in Window
             PROVE  LET S == InPeriod(w)
                        ids == Cardinality({processed[n].id : n \in SinceOf(w)})
                        moved == MovedProjects(w)
                    IN  /\ Metrics(w).events = ids
                        /\ SumFunction([p \in DOMAIN moved |-> moved[p].count]) = ids
                        /\ SumFunction([r \in Role |-> Cardinality(TeamEvents(w, r))]) = ids
                        /\ SumFunction([s \in Source |-> Cardinality(DesktopEvents(w, s))]) = ids
                        /\ SumFunction([d \in {Day(n) : n \in S} |-> Cardinality({n \in S : Day(n) = d})]) = ids
  BY DEF EveryIdCountsOnce
<1> DEFINE S == InPeriod(w)
           ids == Cardinality({processed[n].id : n \in SinceOf(w)})
           moved == MovedProjects(w)
<1>1. S \in SUBSET Files /\ IsFiniteSet(S)
  BY WindowFiles, FiniteFiles
<1>2. Cardinality(S) = ids
  <2>1. SinceOf(w) \in SUBSET Files
    BY DEF SinceOf, UntilOf
  <2> QED
    BY <2>1, OneEach DEF InPeriod
<1>3. Metrics(w).events = Cardinality(S)
  BY DEF Metrics
<1>4. \A n \in S : processed[n].role \in Role /\ processed[n].source \in Source
  BY <1>1, FileFacts DEF Valid
<1>5. SumFunction([p \in DOMAIN moved |-> moved[p].count]) = Cardinality(S)
  <2> DEFINE part == [p \in Projects(S) |-> OfProject(S, p)]
             c == [p \in DOMAIN moved |-> moved[p].count]
  <2>1. DOMAIN moved = Projects(S) /\ \A p \in Projects(S) : moved[p] = ProjectOf(OfProject(S, p))
    BY DEF MovedProjects, RollProjects
  <2>2. \A p \in Projects(S) : moved[p].count = Cardinality(part[p])
    BY <1>1, <2>1, OfProjectFiles, Sheets DEF IsSheetOf
  <2>3. c = [p \in Projects(S) |-> Cardinality(part[p])]
    BY <2>1, <2>2
  <2>4. part \in [Projects(S) -> SUBSET S]
    BY DEF OfProject
  <2>5. \A p, q \in Projects(S) : p # q => part[p] \cap part[q] = {}
    BY DEF OfProject
  <2>6. UNION {part[p] : p \in Projects(S)} = S
    <3>1. \A n \in S : processed[n].project \in Projects(S) /\ n \in part[processed[n].project]
      BY DEF OfProject, Projects
    <3> QED
      BY <2>4, <3>1
  <2>7. IsFiniteSet(Projects(S))
    BY <1>1, FiniteProjects
  <2> HIDE DEF part, c
  <2>8. SumFunction(c) = Cardinality(UNION {part[p] : p \in Projects(S)})
    BY <1>1, <2>3, <2>4, <2>5, <2>7, SumOfParts
  <2> QED
    BY <2>6, <2>8 DEF c
<1>6. SumFunction([r \in Role |-> Cardinality(TeamEvents(w, r))]) = Cardinality(S)
  <2> DEFINE part == [r \in Role |-> TeamEvents(w, r)]
             c == [r \in Role |-> Cardinality(TeamEvents(w, r))]
  <2>1. c = [r \in Role |-> Cardinality(part[r])]
    OBVIOUS
  <2>2. part \in [Role -> SUBSET S]
    BY DEF TeamEvents
  <2>3. \A p, q \in Role : p # q => part[p] \cap part[q] = {}
    BY DEF TeamEvents
  <2>4. UNION {part[r] : r \in Role} = S
    BY <1>4 DEF TeamEvents
  <2> HIDE DEF part, c
  <2>5. SumFunction(c) = Cardinality(UNION {part[r] : r \in Role})
    BY <1>1, <2>1, <2>2, <2>3, TeamAssumption, SumOfParts
  <2> QED
    BY <2>4, <2>5 DEF c
<1>7. SumFunction([s \in Source |-> Cardinality(DesktopEvents(w, s))]) = Cardinality(S)
  <2> DEFINE part == [s \in Source |-> DesktopEvents(w, s)]
             c == [s \in Source |-> Cardinality(DesktopEvents(w, s))]
  <2>1. c = [s \in Source |-> Cardinality(part[s])]
    OBVIOUS
  <2>2. part \in [Source -> SUBSET S]
    BY DEF DesktopEvents
  <2>3. \A p, q \in Source : p # q => part[p] \cap part[q] = {}
    BY DEF DesktopEvents
  <2>4. UNION {part[s] : s \in Source} = S
    BY <1>4 DEF DesktopEvents
  <2> HIDE DEF part, c
  <2>5. SumFunction(c) = Cardinality(UNION {part[s] : s \in Source})
    BY <1>1, <2>1, <2>2, <2>3, TeamAssumption, SumOfParts
  <2> QED
    BY <2>4, <2>5 DEF c
<1>8. SumFunction([d \in {Day(n) : n \in S} |-> Cardinality({n \in S : Day(n) = d})]) = Cardinality(S)
  <2> DEFINE D == {Day(n) : n \in S}
             part == [d \in D |-> {n \in S : Day(n) = d}]
             c == [d \in D |-> Cardinality({n \in S : Day(n) = d})]
             f == [n \in S |-> Day(n)]
  <2>1. c = [d \in D |-> Cardinality(part[d])]
    OBVIOUS
  <2>2. part \in [D -> SUBSET S]
    OBVIOUS
  <2>3. \A p, q \in D : p # q => part[p] \cap part[q] = {}
    OBVIOUS
  <2>4. UNION {part[d] : d \in D} = S
    <3>1. \A n \in S : Day(n) \in D /\ n \in part[Day(n)]
      OBVIOUS
    <3> HIDE DEF part
    <3> QED
      BY <2>2, <3>1
  <2>5. IsFiniteSet(D)
    <3>1. f \in Surjection(S, D)
      BY DEF Surjection
    <3> QED
      BY <1>1, <3>1, FS_Surjection
  <2> HIDE DEF part, c
  <2>6. SumFunction(c) = Cardinality(UNION {part[d] : d \in D})
    BY <1>1, <2>1, <2>2, <2>3, <2>5, SumOfParts
  <2> QED
    BY <2>4, <2>6 DEF c
<1> QED
  BY <1>2, <1>3, <1>5, <1>6, <1>7, <1>8

\* A silent team has a silent Desktop, or a mismatch.
LEMMA TeamsExplained == FilesOK => SilentTeamIsExplained
<1> SUFFICES ASSUME FilesOK, NEW w \in Window, NEW r \in SilentTeams(w), NEW s \in Source,
                    RoleOf[s] = r, s \notin SilentDesktops(w)
             PROVE  \E n \in Mismatches(w) : processed[n].source = s
  BY DEF SilentTeamIsExplained
<1>1. PICK n \in InPeriod(w) : processed[n].source = s
  BY DEF SilentDesktops, DesktopEvents
<1>2. processed[n].role # r
  BY <1>1 DEF SilentTeams, TeamEvents
<1> QED
  BY <1>1, <1>2 DEF Mismatches, Mismatched

\* The least and the greatest of some numbers.
LEMMA LeastOf ==
    ASSUME NEW S \in SUBSET Nat, S # {}
    PROVE  Least(S) \in S /\ \A y \in S : Least(S) <= y
<1>1. PICK k \in S : TRUE
  OBVIOUS
<1> DEFINE C == {T \in SUBSET (0 .. k) : \E j \in S : T = 0 .. j}
<1>2. C \in SUBSET SUBSET (0 .. k) /\ 0 .. k \in C
  OBVIOUS
<1>3. PICK T \in C : \A U \in SUBSET T : U # T => U \notin C
  <2> DEFINE A == 0 .. k
  <2>1. IsFiniteSet(A)
    BY FS_Interval
  <2>2. C \in SUBSET SUBSET A /\ C # {}
    BY <1>2
  <2> HIDE DEF C, A
  <2> QED
    BY <2>1, <2>2, SmallestMember
<1>4. PICK j \in S : T = 0 .. j
  BY <1>3
<1>5. ASSUME NEW i \in S, i < j PROVE FALSE
  <2>1. 0 .. i \in SUBSET T /\ 0 .. i # T
    BY <1>4, <1>5
  <2>2. 0 .. i \in C
    BY <1>3, <2>1, <1>5
  <2> QED
    BY <1>3, <2>1, <2>2
<1>6. \A i \in S : j <= i
  BY <1>5
<1> QED
  BY <1>6 DEF Least

\* The greatest of some numbers is unique.
LEMMA GreatestIs ==
    ASSUME NEW S \in SUBSET Nat, NEW x \in S, \A y \in S : y <= x
    PROVE  Greatest(S) = x
<1>1. Greatest(S) \in S /\ \A y \in S : y <= Greatest(S)
  BY DEF Greatest
<1>2. /\ Greatest(S) \in Nat /\ x \in Nat
      /\ x <= Greatest(S) /\ Greatest(S) <= x
  BY <1>1
<1> QED
  BY <1>2

\* Two files of one Event ID say the same, or are a conflict on the screen.
LEMMA NoConflict ==
    ASSUME FilesOK, Conflicts(Forever) = {}
    PROVE  \A m, n \in Files : SameEvent(m, n) => processed[m] = processed[n]
<1> DEFINE K == Kept(Files)
           ignored == Duplicates(Forever)
<1>1. /\ DOMAIN ignored = Files \ K
      /\ \A n \in Files \ K : ignored[n] = CHOOSE m \in K : SameEvent(m, n)
  BY ForeverFiles DEF Duplicates, Ignored
<1>2. \A n \in Files \ K : processed[n] = processed[ignored[n]]
  BY <1>1 DEF Conflicts
<1>3. \A n \in Files : \E m \in K : SameEvent(m, n) /\ processed[m] = processed[n]
  <2>1. ASSUME NEW n \in Files, n \notin K PROVE \E m \in K : SameEvent(m, n) /\ processed[m] = processed[n]
    <3>1. \E m \in K : SameEvent(m, n)
      BY KeptFacts
    <3>2. ignored[n] \in K /\ SameEvent(ignored[n], n)
      BY <1>1, <2>1, <3>1
    <3> QED
      BY <1>2, <2>1, <3>2
  <2>2. ASSUME NEW n \in K PROVE SameEvent(n, n)
    BY DEF SameEvent
  <2> QED
    BY <2>1, <2>2
<1>4. ASSUME NEW m \in Files, NEW n \in Files, SameEvent(m, n) PROVE processed[m] = processed[n]
  <2>1. PICK k \in K : SameEvent(k, m) /\ processed[k] = processed[m]
    BY <1>3
  <2>2. PICK j \in K : SameEvent(j, n) /\ processed[j] = processed[n]
    BY <1>3
  <2>3. SameEvent(k, j)
    BY <1>4, <2>1, <2>2 DEF SameEvent
  <2>4. k = j
    BY <2>3, KeptFacts
  <2> QED
    BY <2>1, <2>2, <2>4
<1> QED
  BY <1>4

\* desktop_activity.py keeps one file of each Event ID as well.
LEMMA SeenFacts ==
    ASSUME FilesOK, \A n \in Strays, m \in Files : ~SameEvent(m, n)
    PROVE  /\ \A s : ActivityOf(s) \ Strays = {n \in SeenFirst \cap Files : processed[n].source = s}
           /\ \A n \in Files : \E m \in SeenFirst \cap Files : SameEvent(m, n)
           /\ \A m, n \in SeenFirst \cap Files : SameEvent(m, n) => m = n
<1>1. SeenFirst \subseteq Read /\ Files = Read \ Strays
  BY DEF SeenFirst, Strays, Read, Files
<1>2. ASSUME NEW n \in Files PROVE \E m \in SeenFirst \cap Files : SameEvent(m, n)
  <2> DEFINE C == {m \in Files : SameEvent(m, n)}
             m == Least(C)
  <2>1. C \in SUBSET Nat /\ n \in C
    BY FileFacts DEF SameEvent
  <2>2. m \in C /\ \A y \in C : m <= y
    <3> HIDE DEF C
    <3> QED
      BY <2>1, LeastOf
  <2>3. ASSUME NEW k \in Files, SameEvent(k, m) PROVE ~(k < m)
    <3>1. k \in C
      BY <2>2, <2>3 DEF SameEvent
    <3> HIDE DEF m
    <3>2. m <= k /\ m \in Nat /\ k \in Nat
      BY <2>1, <2>2, <3>1
    <3> QED
      BY <3>2
  <2>4. m \in Files /\ SameEvent(m, n)
    BY <2>2
  <2> HIDE DEF m
  <2>5. m \in SeenFirst
    <3>1. ASSUME NEW k \in Read, SameEvent(k, m), k < m PROVE FALSE
      <4>1. k \in Files
        BY <1>1, <2>4, <3>1 DEF SameEvent
      <4> QED
        BY <2>3, <3>1, <4>1
    <3> QED
      BY <1>1, <2>4, <3>1 DEF SeenFirst
  <2> QED
    BY <2>4, <2>5
<1>3. ASSUME NEW m \in SeenFirst \cap Files, NEW n \in SeenFirst \cap Files, SameEvent(m, n)
      PROVE  m = n
  <2>1. /\ m \in Nat /\ n \in Nat /\ m \in Read /\ n \in Read
        /\ processed[m].id # NoFile /\ processed[n].id # NoFile
    <3>1. /\ m \in Nat /\ n \in Nat /\ processed[m].id \in Name /\ processed[n].id \in Name
      BY FileFacts, EventAssumption
    <3> QED
      BY <1>1, <3>1, NameAssumption DEF NoFile
  <2>2. ~(m < n)
    BY <1>3, <2>1 DEF SeenFirst
  <2>3. ~(n < m)
    BY <1>3, <2>1 DEF SeenFirst, SameEvent
  <2> QED
    BY <2>1, <2>2, <2>3
<1>4. \A s : ActivityOf(s) \ Strays = {n \in SeenFirst \cap Files : processed[n].source = s}
  BY <1>1 DEF ActivityOf
<1> QED
  BY <1>2, <1>3, <1>4

\* COMPANY and DESKTOPS count alike, unless there is a conflict.
LEMMA Screens == FilesOK => ScreensAgree
<1> SUFFICES ASSUME FilesOK, Conflicts(Forever) = {},
                    \A n \in Strays, m \in Files : ~SameEvent(m, n), NEW s \in Source
             PROVE  /\ Cardinality(ActivityOf(s) \ Strays) = Cardinality(DesktopEvents(Forever, s))
                    /\ s \in QuietDesktops(Forever) /\ ActivityOf(s) \cap Strays = {}
                          => s \in SilentFor
  BY DEF ScreensAgree
<1> DEFINE A == ActivityOf(s) \ Strays
           K == DesktopEvents(Forever, s)
           kept == SeenFirst \cap Files
           f == [n \in K |-> CHOOSE m \in kept : SameEvent(m, n)]
<1>1. /\ A = {n \in kept : processed[n].source = s}
      /\ K = {n \in Kept(Files) : processed[n].source = s}
      /\ A \in SUBSET Files /\ K \in SUBSET Files
  BY ForeverFiles, SeenFacts, KeptFacts DEF DesktopEvents
<1>2. ASSUME NEW n \in K PROVE f[n] \in A /\ SameEvent(f[n], n) /\ processed[f[n]] = processed[n]
  <2>1. \E m \in kept : SameEvent(m, n)
    BY <1>1, SeenFacts
  <2>2. f[n] \in kept /\ SameEvent(f[n], n)
    BY <2>1
  <2>3. processed[f[n]] = processed[n]
    BY <1>1, <2>2, NoConflict
  <2> QED
    BY <1>1, <2>2, <2>3
<1>3. \A m, n \in K : f[m] = f[n] => m = n
  <2>1. ASSUME NEW m \in K, NEW n \in K, f[m] = f[n] PROVE m = n
    <3>1. SameEvent(m, n)
      BY <1>2, <2>1 DEF SameEvent
    <3>2. m \in Kept(Files) /\ n \in Kept(Files)
      BY <1>1
    <3> QED
      BY <3>1, <3>2, KeptFacts
  <2> QED
    BY <2>1
<1>4. ASSUME NEW m \in A PROVE \E n \in K : f[n] = m /\ processed[n] = processed[m]
  <2>1. PICK n \in Kept(Files) : SameEvent(n, m)
    BY <1>1, KeptFacts
  <2>2. processed[n] = processed[m]
    BY <1>1, <2>1, NoConflict, KeptFacts
  <2>3. n \in K
    BY <1>1, <2>2
  <2>4. SameEvent(f[n], m)
    BY <1>2, <2>1, <2>3 DEF SameEvent
  <2>5. f[n] = m
    BY <1>1, <1>2, <2>3, <2>4, SeenFacts
  <2> QED
    BY <2>2, <2>3, <2>5
<1> HIDE DEF A, K
<1>5. Cardinality(A) = Cardinality(K)
  <2>1. f \in [K -> A]
    BY <1>2
  <2>2. f \in Bijection(K, A)
    BY <1>3, <1>4, <2>1 DEF Bijection, Injection, Surjection, IsInjective
  <2>3. IsFiniteSet(K) /\ ExistsBijection(K, A)
    BY <1>1, <2>2, FiniteFiles DEF ExistsBijection
  <2> QED
    BY <2>3, FS_Bijection
<1>6. ASSUME s \in QuietDesktops(Forever), ActivityOf(s) \cap Strays = {} PROVE s \in SilentFor
  <2> DEFINE l == Last(K)
  <2>8. A = ActivityOf(s)
    BY <1>6 DEF A
  <2>1. K # {} /\ WholeDays(l) >= SilentAfter
    BY <1>6 DEF QuietDesktops, K
  <2>2. l \in K /\ \A n \in K : n = l \/ Before(n, l)
    BY <1>1, <2>1, LastIsLatest
  <2> HIDE DEF l
  <2>3. \A n \in K : Day(n) <= Day(l) /\ Day(n) \in Nat
    BY <1>1, <2>2, DayOf
  <2>4. \A m \in A : Day(m) \in Nat /\ Day(m) <= Day(l)
    <3>1. ASSUME NEW m \in A PROVE \E n \in K : Day(n) = Day(m)
      BY <1>4 DEF Day
    <3> QED
      BY <2>3, <3>1
  <2>5. f[l] \in A /\ Day(f[l]) = Day(l)
    BY <1>2, <2>2 DEF Day
  <2>6. LastDay(s) = Day(l)
    <3> DEFINE D == {Day(n) : n \in A}
    <3>1. D \in SUBSET Nat /\ Day(l) \in D /\ \A y \in D : y <= Day(l)
      BY <2>4, <2>5
    <3>2. Greatest(D) = Day(l)
      <4> HIDE DEF D
      <4> QED
        BY <3>1, GreatestIs
    <3> QED
      BY <2>8, <3>2 DEF LastDay
  <2>7. DaysSilent(s) = WholeDays(l)
    BY <2>6 DEF DaysSilent, WholeDays
  <2> QED
    BY <2>1, <2>7 DEF SilentFor
<1> QED
  BY <1>5, <1>6 DEF A, K

\* All that is said of counts.
LEMMA CountsDoAgree == FilesOK => CountsAgree
BY IdsCount, Screens, TeamsExplained DEF CountsAgree

-----------------------------------------------------------------------------
(* Numbers of a part. *)

\* What else the screens read.
PlaceOK ==
    /\ now \in Nat /\ listed \in BOOLEAN /\ git \in Log \cup {Unreadable}
    /\ daily \in [Days -> {"none", "empty", "work", "unreadable"}]

\* The kept Events of a window, and those that they stand for.
LEMMA InWindow ==
    ASSUME FilesOK, NEW w
    PROVE  /\ SinceOf(w) \in SUBSET Files /\ InPeriod(w) = Kept(SinceOf(w))
           /\ InPeriod(w) = {} <=> SinceOf(w) = {}
           /\ \A n \in SinceOf(w) : \E m \in InPeriod(w) : Day(m) <= Day(n)
<1>1. SinceOf(w) \in SUBSET Files
  BY DEF SinceOf, UntilOf
<1>2. InPeriod(w) = Kept(SinceOf(w))
  BY DEF InPeriod
<1>3. ASSUME NEW n \in SinceOf(w) PROVE \E m \in InPeriod(w) : Day(m) <= Day(n)
  <2>1. PICK m \in Kept(SinceOf(w)) : m = n \/ Before(m, n)
    BY <1>1, KeptFacts
  <2>2. m \in Files /\ n \in Files
    BY <1>1, KeptFacts
  <2>3. Day(m) <= Day(n)
    BY <2>1, <2>2, DayOf
  <2> QED
    BY <1>2, <2>3
<1> QED
  BY <1>1, <1>2, <1>3, KeptFacts

\* Numbers are called complete exactly when they are.
LEMMA Wholeness == FilesOK /\ PlaceOK => CompleteIsHonest
<1> SUFFICES ASSUME FilesOK, PlaceOK, NEW w \in Window
             PROVE  Banner(w) = "whole" <=>
                      /\ \E n \in Files : w.since <= Day(n) /\ Day(n) <= w.until
                      /\ listed /\ \A n \in Name : processed[n] \in Event \cup {Absent}
                      /\ \A d \in Days :
                            daily[d] \in {"work", "unreadable"} =>
                                \E n \in Files : Day(n) <= d /\ w.since <= Day(n) /\ Day(n) <= w.until
  BY DEF CompleteIsHonest
<1> DEFINE days == {d \in Days : daily[d] # "none"}
           before == {d \in days : \A e \in EvidenceDays(w) : d < e}
           work == {d \in before : daily[d] = "work"}
           gap == IF work = {} THEN Unsaid ELSE Least(work)
           read == {d \in before : gap = Unsaid \/ d <= gap}
           told == \A d \in Days :
                     daily[d] \in {"work", "unreadable"} =>
                         \E n \in Files : Day(n) <= d /\ w.since <= Day(n) /\ Day(n) <= w.until
<1>1. \A n : n \in SinceOf(w) <=> n \in Files /\ w.since <= Day(n) /\ Day(n) <= w.until
  BY DayOf, WindowAssumption DEF SinceOf, UntilOf
<1>2. InPeriod(w) # {} <=> \E n \in Files : w.since <= Day(n) /\ Day(n) <= w.until
  BY <1>1, InWindow
<1>3. Broken = {} <=> \A n \in Name : processed[n] \in Event \cup {Absent}
  BY FileAssumption DEF Broken, FilesOK
<1>4. ASSUME NEW d \in Days
      PROVE  (\E e \in EvidenceDays(w) : ~(d < e)) <=>
                \E n \in Files : Day(n) <= d /\ w.since <= Day(n) /\ Day(n) <= w.until
  <2>1. d \in Nat /\ \A n \in Files : Day(n) \in Nat
    BY TowerAssumption, DayOf
  <2>2. InPeriod(w) \in SUBSET Files /\ InPeriod(w) \in SUBSET SinceOf(w)
    BY InWindow, KeptFacts
  <2>3. ASSUME NEW n \in SinceOf(w), Day(n) <= d PROVE \E m \in InPeriod(w) : Day(m) <= d
    <3>1. PICK m \in InPeriod(w) : Day(m) <= Day(n)
      BY InWindow
    <3>2. Day(m) \in Nat /\ Day(n) \in Nat
      BY <1>1, <2>1, <2>2
    <3>3. Day(m) <= d
      BY <2>1, <2>3, <3>1, <3>2
    <3> QED
      BY <3>3
  <2>4. (\E e \in EvidenceDays(w) : ~(d < e)) <=> \E m \in InPeriod(w) : Day(m) <= d
    BY <2>1, <2>2 DEF EvidenceDays
  <2> QED
    BY <1>1, <2>2, <2>3, <2>4
<1>5. told <=> \A d \in before : daily[d] \notin {"work", "unreadable"}
  BY <1>4
<1>6. listed => OlderHistory(w) = [from |-> gap, checked |-> \A d \in read : daily[d] # "unreadable"]
  BY DEF OlderHistory
<1>7. ~listed => ~OlderHistory(w).checked
  BY DEF OlderHistory
<1>8. gap = Unsaid <=> work = {}
  <2>1. work \in SUBSET Nat
    BY TowerAssumption
  <2>2. work # {} => Least(work) \in Nat
    <3> HIDE DEF work
    <3> QED
      BY <2>1, LeastOf
  <2> HIDE DEF work
  <2> QED
    BY <2>2, WordAssumption
<1> HIDE DEF gap
<1>9. listed => (OlderHistory(w).from = Unsaid /\ OlderHistory(w).checked <=>
                    \A d \in before : daily[d] \notin {"work", "unreadable"})
  <2>1. CASE gap = Unsaid
    BY <1>6, <1>8, <2>1
  <2>2. CASE gap # Unsaid
    BY <1>6, <1>8, <2>2
  <2> QED
    BY <2>1, <2>2
<1>10. Banner(w) = "whole" <=> InPeriod(w) # {} /\ Complete(w)
  BY DEF Banner
<1>11. Complete(w) <=> Broken = {} /\ OlderHistory(w).from = Unsaid /\ OlderHistory(w).checked
  BY DEF Complete
<1> HIDE DEF before, told
<1> SUFFICES Banner(w) = "whole" <=>
                /\ \E n \in Files : w.since <= Day(n) /\ Day(n) <= w.until
                /\ listed /\ \A n \in Name : processed[n] \in Event \cup {Absent}
                /\ told
  BY DEF told
<1> QED
  BY <1>2, <1>3, <1>5, <1>7, <1>9, <1>10, <1>11

\* The KPIs, written out.
LEMMA KpiValues ==
    ASSUME NEW w
    PROVE  /\ KpiSet(w).blocked_items = Cardinality(Risks(w))
           /\ KpiSet(w).critical_risk_count = Cardinality(AtRisk(w))
           /\ KpiSet(w).open_issues = Cardinality({i \in OpenItems(w) : i.kind = "ISSUE"})
           /\ KpiSet(w).issue_aging = Aging({i \in OpenItems(w) : i.kind = "ISSUE"})
           /\ KpiSet(w).execution_completion_rate = CompletionRate(Metrics(w))
BY DEF KpiSet, StateMetrics

\* Blocked projects and those at risk are all that need hands.
LEMMA Hands ==
    ASSUME FilesOK, NEW w
    PROVE  KpiSet(w).blocked_items + KpiSet(w).critical_risk_count =
              Cardinality({p \in Projects(AsOf(w)) :
                             State(ProjectOf(OfProject(AsOf(w), p))) \in {"BLOCKED", "AT_RISK"}})
<1> DEFINE S == AsOf(w)
           hands == {p \in Projects(S) : State(ProjectOf(OfProject(S, p))) \in {"BLOCKED", "AT_RISK"}}
<1>1. ASSUME NEW p \in Projects(S)
      PROVE  /\ p \in Risks(w) <=> State(ProjectOf(OfProject(S, p))) = "BLOCKED"
             /\ p \in AtRisk(w) <=> State(ProjectOf(OfProject(S, p))) = "AT_RISK"
  <2> DEFINE q == ProjectOf(OfProject(S, p))
  <2>1. OfProject(S, p) \in SUBSET Files /\ OfProject(S, p) # {}
    BY OfProjectFiles, WindowFiles
  <2>2. IsAtRisk(q) => ~CompletionStands(q)
    BY <2>1, ProjectStands
  <2>3. p \in Risks(w) <=> IsBlocked(q)
    BY DEF Risks
  <2>4. p \in AtRisk(w) <=> IsAtRisk(q) /\ ~IsBlocked(q)
    BY <2>2 DEF AtRisk, NeedsCare
  <2> HIDE DEF q
  <2>5. State(q) = "BLOCKED" <=> IsBlocked(q)
    BY DEF State
  <2>6. State(q) = "AT_RISK" <=> IsAtRisk(q) /\ ~IsBlocked(q)
    BY DEF State
  <2> QED
    BY <2>3, <2>4, <2>5, <2>6 DEF q
<1>2. Risks(w) \in SUBSET Projects(S) /\ AtRisk(w) \in SUBSET Projects(S)
  BY DEF Risks, AtRisk
<1>3. hands = Risks(w) \cup AtRisk(w)
  BY <1>1, <1>2
<1>4. Risks(w) \cap AtRisk(w) = {}
  BY <1>1, <1>2
<1> HIDE DEF hands
<1>5. Cardinality(hands) = Cardinality(Risks(w)) + Cardinality(AtRisk(w)) - Cardinality({})
  BY <1>3, <1>4, FiniteItems, FS_Union
<1>6. /\ Cardinality(Risks(w)) \in Nat /\ Cardinality(AtRisk(w)) \in Nat
      /\ Cardinality({}) = 0
  BY FiniteItems, FS_CardinalityType, FS_EmptySet
<1>7. \A a, b \in Nat : a + b - 0 = a + b
  OBVIOUS
<1>8. Cardinality(hands) = Cardinality(Risks(w)) + Cardinality(AtRisk(w))
  BY <1>5, <1>6, <1>7
<1>9. /\ KpiSet(w).blocked_items = Cardinality(Risks(w))
      /\ KpiSet(w).critical_risk_count = Cardinality(AtRisk(w))
  BY KpiValues
<1>10. KpiSet(w).blocked_items + KpiSet(w).critical_risk_count = Cardinality(hands)
  BY <1>8, <1>9
<1> QED
  BY <1>10 DEF hands

\* Finitely many numbers have a greatest.
LEMMA GreatestOf ==
    ASSUME NEW S \in SUBSET Nat, S # {}, IsFiniteSet(S)
    PROVE  Greatest(S) \in S /\ \A y \in S : y <= Greatest(S)
<1> DEFINE above(x) == {y \in S : x <= y}
           C == {T \in SUBSET S : \E x \in S : T = above(x)}
<1>1. C \in SUBSET SUBSET S /\ C # {}
  OBVIOUS
<1>2. PICK T \in C : \A U \in SUBSET T : U # T => U \notin C
  <2> HIDE DEF C
  <2> QED
    BY <1>1, SmallestMember
<1>3. PICK x \in S : T = above(x)
  BY <1>2
<1>4. ASSUME NEW y \in S, x < y PROVE FALSE
  <2>1. y \in Nat /\ x \in Nat
    OBVIOUS
  <2>2. above(y) \in SUBSET above(x)
    <3>1. \A z \in Nat : y <= z => x <= z
      BY <1>4, <2>1
    <3> QED
      BY <3>1
  <2>3. x \in above(x) /\ x \notin above(y)
    BY <1>4, <2>1
  <2>4. above(y) \in C
    OBVIOUS
  <2> HIDE DEF above, C
  <2> QED
    BY <1>2, <1>3, <2>2, <2>3, <2>4
<1>5. \A y \in S : y <= x
  BY <1>4
<1> QED
  BY <1>5 DEF Greatest

\* Ages are numbers.
LEMMA Age == FilesOK /\ PlaceOK => \A n \in Files : WholeDays(n) \in Nat
<1> SUFFICES ASSUME FilesOK, PlaceOK PROVE \A n \in Files : WholeDays(n) \in Nat
  OBVIOUS
<1>1. Today \in Nat
  BY WindowAssumption DEF PlaceOK, Today
<1> QED
  BY <1>1, DayOf DEF WholeDays

\* The Issues that nothing answered.
Raised(w) ==
    {n \in EventsOf(AsOf(w), "ISSUE_RAISED") :
        ~ \E m \in AsOf(w) : /\ processed[m].project = processed[n].project
                             /\ processed[m].type \in Closes("ISSUE")
                             /\ Before(n, m)}

\* They are those of the panel.
LEMMA IssuesRaised ==
    ASSUME FilesOK, NEW w, NEW raised, raised = Raised(w)
    PROVE  /\ \A n \in raised : \E i \in OpenItems(w), m \in raised :
                /\ i.kind = "ISSUE" /\ processed[m].project = processed[n].project
                /\ i.item.since = m
           /\ \A i \in OpenItems(w) : i.kind = "ISSUE" => i.item.since \in raised
           /\ raised \in SUBSET Files
<1> USE DEF Raised
<1> DEFINE S == AsOf(w)
           open(p) == Opened(OfProject(S, p), "ISSUE")
<1>1. S \in SUBSET Files /\ raised \in SUBSET S
  BY WindowFiles DEF EventsOf
<1>2. "ISSUE" \in Kind /\ Opens("ISSUE") = {"ISSUE_RAISED"}
  BY DEF Kind, Opens
<1>3. \A p : open(p) \in SUBSET OfProject(S, p) /\ OfProject(S, p) \in SUBSET Files
  BY <1>1, OfProjectFiles DEF Opened
<1>4. ASSUME NEW n \in raised
      PROVE  n \in open(processed[n].project) /\ processed[n].project \in Projects(S)
  <2>1. n \in OfProject(S, processed[n].project) /\ processed[n].type = "ISSUE_RAISED"
    BY <1>1 DEF OfProject, EventsOf
  <2>2. ASSUME NEW m \in OfProject(S, processed[n].project), processed[m].type \in Closes("ISSUE")
        PROVE  Before(m, n)
    <3>1. m # n
      BY <1>2, <2>1, <2>2, Kinds
    <3>2. ~Before(n, m)
      BY <2>2 DEF OfProject
    <3>3. m \in Files /\ n \in Files
      BY <1>1, <1>3
    <3> QED
      BY <3>1, <3>2, <3>3, Order
  <2> QED
    BY <1>1, <1>2, <2>1, <2>2 DEF Opened, Projects
<1>5. ASSUME NEW p, NEW n \in open(p) PROVE n \in raised /\ processed[n].project = p
  <2>1. n \in S /\ processed[n].project = p /\ processed[n].type = "ISSUE_RAISED"
    BY <1>2, <1>5 DEF Opened, OfProject
  <2>2. ASSUME NEW m \in S, processed[m].project = p, processed[m].type \in Closes("ISSUE")
        PROVE  ~Before(n, m)
    <3>1. Before(m, n)
      BY <1>5, <2>2 DEF Opened, OfProject
    <3> QED
      BY <1>1, <2>1, <3>1, Order
  <2> QED
    BY <2>1, <2>2 DEF EventsOf
<1>6. ASSUME NEW p \in Projects(S), open(p) # {}
      PROVE  /\ Last(open(p)) \in open(p)
             /\ \E i \in OpenItems(w) : i.kind = "ISSUE" /\ i.item.since = Last(open(p))
  <2> DEFINE it == OpenItem(OfProject(S, p), "ISSUE")
             i == [kind |-> "ISSUE", project |-> p, item |-> it]
  <2>1. Last(open(p)) \in open(p)
    BY <1>3, <1>6, LastIsLatest
  <2>6. IsItemOf(it, OfProject(S, p), "ISSUE") /\ Opened(OfProject(S, p), "ISSUE") # {}
    BY <1>2, <1>3, <1>6, Items
  <2>2. it.since = Last(open(p))
    <3> HIDE DEF it
    <3> QED
      BY <2>6 DEF IsItemOf
  <2>3. it # NoItem
    BY <1>3, <2>1, <2>2, FileFacts DEF NoItem, NoFile
  <2>4. i \in RollOpenItems(S)
    BY <1>2 DEF RollOpenItems
  <2>5. i \in OpenItems(w)
    BY <2>3, <2>4 DEF OpenItems
  <2> QED
    BY <2>1, <2>2, <2>5
<1>7. ASSUME NEW i \in OpenItems(w), i.kind = "ISSUE" PROVE i.item.since \in raised
  <2>1. PICK k \in Kind, p \in Projects(S) :
           i = [kind |-> k, project |-> p, item |-> OpenItem(OfProject(S, p), k)]
    BY DEF OpenItems, RollOpenItems
  <2>2. k = "ISSUE" /\ i.item # NoItem /\ i.item = OpenItem(OfProject(S, p), "ISSUE")
    BY <1>7, <2>1 DEF OpenItems
  <2>6. IsItemOf(i.item, OfProject(S, p), "ISSUE")
    BY <1>2, <1>3, <2>2, Items
  <2>3. open(p) # {}
    BY <2>2, <2>6 DEF IsItemOf
  <2>4. i.item.since = Last(open(p))
    BY <2>3, <2>6 DEF IsItemOf
  <2> HIDE DEF open
  <2>5. Last(open(p)) \in open(p)
    BY <1>6, <2>3
  <2> QED
    BY <1>5, <2>4, <2>5
<1> HIDE DEF open
<1>8. ASSUME NEW n \in raised
      PROVE  \E i \in OpenItems(w), m \in raised :
                /\ i.kind = "ISSUE" /\ processed[m].project = processed[n].project
                /\ i.item.since = m
  <2> DEFINE p == processed[n].project
             m == Last(open(p))
  <2>1. open(p) # {} /\ p \in Projects(S)
    BY <1>4
  <2>2. m \in open(p) /\ \E i \in OpenItems(w) : i.kind = "ISSUE" /\ i.item.since = m
    BY <1>6, <2>1
  <2>3. m \in raised /\ processed[m].project = p
    BY <1>5, <2>2
  <2> QED
    BY <2>2, <2>3
<1> QED
  BY <1>1, <1>7, <1>8

\* An age is that of some item, and no item is older.
LEMMA Ages ==
    ASSUME FilesOK, PlaceOK, NEW items, IsFiniteSet(items),
           \A i \in items : i.item.since \in Files
    PROVE  Aging(items) \in Nat /\ \A i \in items : Aging(items) >= WholeDays(i.item.since)
<1> DEFINE age == [i \in items |-> WholeDays(i.item.since)]
           ages == {WholeDays(i.item.since) : i \in items}
<1>1. age \in [items -> ages] /\ \A a \in ages : \E i \in items : age[i] = a
  OBVIOUS
<1>2. age \in Surjection(items, ages)
  <2> HIDE DEF age, ages
  <2> QED
    BY <1>1 DEF Surjection
<1>3. IsFiniteSet(ages)
  BY <1>2, FS_Surjection
<1>4. ages \in SUBSET Nat
  BY Age
<1>5. CASE items = {}
  BY <1>5 DEF Aging
<1>6. CASE items # {}
  <2>1. ages # {}
    BY <1>6
  <2>2. Aging(items) = Greatest(ages)
    BY <1>6 DEF Aging
  <2>3. \A i \in items : WholeDays(i.item.since) \in ages
    OBVIOUS
  <2> HIDE DEF ages
  <2>4. Greatest(ages) \in ages /\ \A y \in ages : y <= Greatest(ages)
    BY <1>3, <1>4, <2>1, GreatestOf
  <2> QED
    BY <1>4, <2>2, <2>3, <2>4
<1> QED
  BY <1>5, <1>6

\* A share of the whole, in percent.
LEMMA Share ==
    ASSUME NEW a \in Nat, NEW d \in Nat \ {0}, a <= d
    PROVE  (100 * a) \div d \in 0..100 /\ (100 * a) \div d \in Nat
OBVIOUS

\* The rate is a share of the projects that moved, if any did.
LEMMA RateIsHonest ==
    ASSUME FilesOK, NEW w
    PROVE  /\ CompletionRate(Metrics(w)) = DataRequired <=> InPeriod(w) = {}
           /\ CompletionRate(Metrics(w)) # DataRequired => CompletionRate(Metrics(w)) \in 0..100
<1> DEFINE S == InPeriod(w)
           done == {p \in Projects(S) : ProjectOf(OfProject(S, p)).completed # NoFile}
           a == Cardinality(done)
           d == Cardinality(Projects(S))
<1>1. S \in SUBSET Files
  BY WindowFiles
<1>2. /\ IsFiniteSet(Projects(S)) /\ d \in Nat /\ (d = 0 <=> S = {})
  BY <1>1, FiniteFiles
<1>3. done \in SUBSET Projects(S)
  OBVIOUS
<1> HIDE DEF done
<1>4. a \in Nat /\ a <= d
  BY <1>2, <1>3, FS_Subset, FS_CardinalityType
<1>5. Metrics(w).projects_active = d /\ Metrics(w).projects_completed = a
  BY DEF Metrics, done
<1>6. DataRequired \notin Nat
  BY WordAssumption
<1> HIDE DEF a, d, S
<1>7. CompletionRate(Metrics(w)) = IF d > 0 THEN (100 * a) \div d ELSE DataRequired
  BY <1>5 DEF CompletionRate
<1>8. d > 0 => (100 * a) \div d \in 0..100 /\ (100 * a) \div d \in Nat
  BY <1>2, <1>4, Share
<1> QED
  BY <1>2, <1>6, <1>7, <1>8 DEF S

\* Whatever is open was raised by an Event.
LEMMA ItemsAreRaised ==
    ASSUME FilesOK, NEW w, NEW i \in OpenItems(w)
    PROVE  i.item.since \in Files
<1> DEFINE S == AsOf(w)
<1>1. PICK k \in Kind, p \in Projects(S) :
         i = [kind |-> k, project |-> p, item |-> OpenItem(OfProject(S, p), k)]
  BY DEF OpenItems, RollOpenItems
<1> DEFINE T == OfProject(S, p)
<1>2. i.item # NoItem /\ i.item = OpenItem(T, k)
  BY <1>1 DEF OpenItems
<1>3. T \in SUBSET Files
  BY WindowFiles, OfProjectFiles
<1>4. IsItemOf(i.item, T, k)
  BY <1>2, <1>3, Items
<1> HIDE DEF T
<1>5. Opened(T, k) # {} /\ i.item.since = Last(Opened(T, k)) /\ Opened(T, k) \in SUBSET Files
  BY <1>2, <1>3, <1>4 DEF IsItemOf, Opened
<1> QED
  BY <1>5, LastIsLatest

\* The KPIs that nothing collected can answer.
Unanswerable ==
    CeoKpi \cup CtoKpi \cup
    {"critical_project_on_time_rate", "process_cycle_time", "operational_failure_sla"}

\* There are 22 of them.
LEMMA UnanswerableCount == IsFiniteSet(Unanswerable) /\ Cardinality(Unanswerable) = 22
<1> DEFINE f == <<"north_star", "revenue", "mrr", "arr", "customers_active", "retention", "churn",
                  "nrr", "conversion", "cash", "runway", "strategic_goal_progress",
                  "deployment_frequency", "change_lead_time", "change_failure_rate",
                  "failed_deployment_recovery_time", "deployment_rework_rate",
                  "reliability_slo", "critical_technical_debt",
                  "critical_project_on_time_rate", "process_cycle_time",
                  "operational_failure_sla">>
<1>1. f \in [1..22 -> Unanswerable]
  BY DEF Unanswerable, CeoKpi, CtoKpi
<1>2. f \in Injection(1..22, Unanswerable)
  BY <1>1 DEF Injection, IsInjective
<1>3. f \in Surjection(1..22, Unanswerable)
  BY <1>1 DEF Surjection, Unanswerable, CeoKpi, CtoKpi
<1>4. ExistsBijection(1..22, Unanswerable)
  BY <1>2, <1>3 DEF ExistsBijection, Bijection
<1> HIDE DEF f
<1> QED
  BY <1>4, FS_CountingElements, FS_NatBijection

\* Git answers three KPIs.
LEMMA GitKpiCount == IsFiniteSet(GitKpi) /\ Cardinality(GitKpi) = 3
<1> DEFINE f == <<"code_commits", "code_files_changed", "code_contributors">>
<1>1. f \in [1..3 -> GitKpi]
  BY DEF GitKpi
<1>2. f \in Injection(1..3, GitKpi)
  BY <1>1 DEF Injection, IsInjective
<1>3. f \in Surjection(1..3, GitKpi)
  BY <1>1 DEF Surjection, GitKpi
<1>4. ExistsBijection(1..3, GitKpi)
  BY <1>2, <1>3 DEF ExistsBijection, Bijection
<1> HIDE DEF f
<1> QED
  BY <1>4, FS_CountingElements, FS_NatBijection

\* What git says, or that it says nothing.
LEMMA GitSays ==
    ASSUME PlaceOK, NEW w
    PROVE  LET unread == git = Unreadable \/ GitActivity(w) = Unsaid
               code == GitKpis(w)
           IN  /\ DOMAIN code = GitKpi
               /\ unread => CodeChanges(w) = 0 /\ \A k \in GitKpi : code[k] = DataRequired
               /\ ~unread => /\ CodeChanges(w) \in Nat
                             /\ \A k \in GitKpi : code[k] \in Nat /\ code[k] # DataRequired
                             /\ code.code_commits >= CodeChanges(w)
                             /\ code.code_commits >= code.code_contributors
<1> DEFINE unread == git = Unreadable \/ GitActivity(w) = Unsaid
           log == GitActivity(w)
<1>1. /\ Unsaid \notin Log /\ Unreadable \notin Log /\ DataRequired \notin Nat
      /\ RecentLimit \in Nat
  BY WordAssumption, CommitAssumption, TowerAssumption
<1>2. log \in {Unsaid, git} /\ git \in Log \cup {Unreadable}
  BY DEF GitActivity, PlaceOK
<1>3. ASSUME NEW some \in Log
      PROVE  some.commits \in Nat /\ some.files \in Nat /\ some.authors \in Nat
             /\ some.authors <= some.commits
  BY CommitAssumption DEF Log, NoCommits
<1>4. CASE unread
  <2>1. log \notin Log
    BY <1>1, <1>2, <1>4
  <2>2. GitKpis(w) = [k \in GitKpi |-> DataRequired] /\ CodeChanges(w) = 0
    BY <2>1 DEF GitKpis, CodeChanges
  <2> QED
    BY <1>4, <2>2
<1>5. CASE ~unread
  <2>1. log \in Log
    BY <1>2, <1>5
  <2>2. /\ GitKpis(w) = [code_commits |-> log.commits, code_files_changed |-> log.files,
                         code_contributors |-> log.authors]
        /\ CodeChanges(w) = IF log.commits > RecentLimit THEN RecentLimit ELSE log.commits
    BY <2>1 DEF GitKpis, CodeChanges
  <2>3. log.commits \in Nat /\ log.files \in Nat /\ log.authors \in Nat
        /\ log.authors <= log.commits
    BY <1>3, <2>1
  <2> HIDE DEF log
  <2>4. CodeChanges(w) \in Nat /\ CodeChanges(w) <= log.commits
    BY <1>1, <2>2, <2>3
  <2>5. /\ DOMAIN GitKpis(w) = GitKpi
        /\ \A k \in GitKpi : GitKpis(w)[k] \in Nat
        /\ GitKpis(w).code_commits = log.commits
        /\ GitKpis(w).code_contributors = log.authors
    BY <2>2, <2>3 DEF GitKpi
  <2> QED
    BY <1>1, <1>5, <2>3, <2>4, <2>5
<1> QED
  BY <1>4, <1>5

\* Which of the KPIs have a number.
LEMMA Counted ==
    ASSUME FilesOK, PlaceOK, NEW w
    PROVE  /\ \A k \in {"blocked_items", "critical_risk_count", "open_issues", "unassigned_items",
                        "unexecuted_decisions", "pending_decisions", "issue_aging",
                        "decision_aging", "execution_aging"} : KpiSet(w)[k] \in Nat
           /\ \A k \in {"critical_project_on_time_rate", "process_cycle_time",
                        "operational_failure_sla"} : KpiSet(w)[k] = DataRequired
<1> DEFINE of(k) == {i \in OpenItems(w) : i.kind = k}
           free == {i \in OpenItems(w) : i.item.assigned = NoFile}
<1>1. \A T \in SUBSET OpenItems(w) :
         IsFiniteSet(T) /\ Cardinality(T) \in Nat /\ Aging(T) \in Nat
  <2>1. ASSUME NEW T \in SUBSET OpenItems(w) PROVE IsFiniteSet(T)
    BY FiniteItems, FS_Subset
  <2>2. \A i \in OpenItems(w) : i.item.since \in Files
    BY ItemsAreRaised
  <2> QED
    BY <2>1, <2>2, Ages, FS_CardinalityType
<1>2. Cardinality(Risks(w)) \in Nat /\ Cardinality(AtRisk(w)) \in Nat
  BY FiniteItems, FS_CardinalityType
<1>3. free \in SUBSET OpenItems(w) /\ \A k : of(k) \in SUBSET OpenItems(w)
  OBVIOUS
<1>4. /\ KpiSet(w).blocked_items = Cardinality(Risks(w))
      /\ KpiSet(w).critical_risk_count = Cardinality(AtRisk(w))
      /\ KpiSet(w).open_issues = Cardinality(of("ISSUE"))
      /\ KpiSet(w).unassigned_items = Cardinality(free)
      /\ KpiSet(w).unexecuted_decisions = Cardinality(of("DECISION_EXECUTION"))
      /\ KpiSet(w).pending_decisions = Cardinality(of("DECISION"))
      /\ KpiSet(w).issue_aging = Aging(of("ISSUE"))
      /\ KpiSet(w).decision_aging = Aging(of("DECISION"))
      /\ KpiSet(w).execution_aging = Aging(of("DECISION_EXECUTION"))
  BY DEF KpiSet, StateMetrics
<1>5. /\ KpiSet(w).critical_project_on_time_rate = DataRequired
      /\ KpiSet(w).process_cycle_time = DataRequired
      /\ KpiSet(w).operational_failure_sla = DataRequired
  BY DEF KpiSet
<1> HIDE DEF of, free
<1> QED
  BY <1>1, <1>2, <1>3, <1>4, <1>5

\* How many KPIs the screen says cannot be answered.
LEMMA SoManyUnanswered ==
    ASSUME FilesOK, PlaceOK, NEW w
    PROVE  Cardinality(AllKpis(KpiSet(w)) \ Answered(KpiSet(w), GitKpis(w))) =
              22 + (IF InPeriod(w) = {} THEN 1 ELSE 0)
                 + (IF git = Unreadable \/ GitActivity(w) = Unsaid THEN 3 ELSE 0)
<1> DEFINE kpi == KpiSet(w)
           code == GitKpis(w)
           numbers == {"blocked_items", "critical_risk_count", "open_issues", "unassigned_items",
                       "unexecuted_decisions", "pending_decisions", "issue_aging",
                       "decision_aging", "execution_aging"}
           words == {"critical_project_on_time_rate", "process_cycle_time",
                     "operational_failure_sla"}
           rate == "execution_completion_rate"
           unread == git = Unreadable \/ GitActivity(w) = Unsaid
           R == IF InPeriod(w) = {} THEN {rate} ELSE {}
           G == IF unread THEN GitKpi ELSE {}
           missing == AllKpis(kpi) \ Answered(kpi, code)
<1>1. DOMAIN kpi = numbers \cup words \cup {rate}
  BY DEF KpiSet
<1>2. DOMAIN code = GitKpi
  BY GitSays
<1>3. DataRequired \notin Nat
  BY WordAssumption
<1>4. (\A k \in numbers : kpi[k] # DataRequired) /\ (\A k \in words : kpi[k] = DataRequired)
  BY <1>3, Counted
<1>5. kpi[rate] = DataRequired <=> InPeriod(w) = {}
  BY KpiValues, RateIsHonest
<1>6. \A k \in GitKpi : code[k] = DataRequired <=> unread
  BY GitSays
<1>7. Unanswerable = CeoKpi \cup CtoKpi \cup words
  BY DEF Unanswerable
<1>8. \A x \in CeoKpi \cup CtoKpi : x \notin numbers \cup words \cup {rate} /\ x \notin GitKpi
  BY DEF CeoKpi, CtoKpi, GitKpi
<1>9. \A x \in GitKpi : x \notin numbers \cup words \cup {rate}
  BY DEF GitKpi
<1>10. rate \notin words /\ rate \notin numbers /\ \A x \in words : x \notin numbers
  OBVIOUS
<1> HIDE DEF kpi, code, numbers, words, rate, unread
<1>11. missing = (Unanswerable \cup R) \cup G
  <2>1. AllKpis(kpi) = CeoKpi \cup numbers \cup words \cup {rate} \cup CtoKpi \cup GitKpi
    BY <1>1 DEF AllKpis
  <2>2. Answered(kpi, code) =
          {k \in numbers \cup words \cup {rate} : kpi[k] # DataRequired}
          \cup {k \in GitKpi : code[k] # DataRequired}
    BY <1>1, <1>2 DEF Answered
  <2> HIDE DEF missing, R, G
  <2>3. ASSUME NEW x PROVE x \in missing <=> x \in (Unanswerable \cup R) \cup G
    <3>1. CASE x \in CeoKpi \cup CtoKpi
      BY <1>7, <1>8, <2>1, <2>2, <3>1 DEF missing
    <3>2. CASE x \in numbers
      BY <1>4, <1>7, <1>8, <1>9, <1>10, <2>1, <2>2, <3>2 DEF missing, R, G
    <3>3. CASE x \in words
      BY <1>4, <1>7, <1>8, <1>9, <1>10, <2>1, <2>2, <3>3 DEF missing
    <3>4. CASE x = rate
      BY <1>5, <1>7, <1>8, <1>9, <1>10, <2>1, <2>2, <3>4 DEF missing, R, G
    <3>5. CASE x \in GitKpi
      BY <1>6, <1>7, <1>8, <1>9, <1>10, <2>1, <2>2, <3>5 DEF missing, R, G
    <3>6. CASE x \notin CeoKpi \cup CtoKpi \cup numbers \cup words \cup {rate} \cup GitKpi
      BY <1>7, <2>1, <3>6 DEF missing, R, G
    <3> QED
      BY <3>1, <3>2, <3>3, <3>4, <3>5, <3>6
  <2> QED
    BY <2>3
<1>12. /\ IsFiniteSet(Unanswerable \cup R)
       /\ Cardinality(Unanswerable \cup R) = 22 + (IF InPeriod(w) = {} THEN 1 ELSE 0)
  <2>1. rate \notin Unanswerable
    BY <1>7, <1>8, <1>10
  <2>2. IsFiniteSet(Unanswerable \cup {rate}) /\ Cardinality(Unanswerable \cup {rate}) = 22 + 1
    BY <2>1, UnanswerableCount, FS_AddElement
  <2>3. CASE InPeriod(w) = {}
    BY <2>2, <2>3
  <2>4. CASE InPeriod(w) # {}
    <3>1. Unanswerable \cup R = Unanswerable
      BY <2>4
    <3>2. 22 + 0 = 22
      OBVIOUS
    <3> QED
      BY <2>4, <3>1, <3>2, UnanswerableCount
  <2> QED
    BY <2>3, <2>4
<1>13. CASE unread
  <2>1. (Unanswerable \cup R) \cap GitKpi = {}
    BY <1>7, <1>8, <1>9
  <2>2. Cardinality((Unanswerable \cup R) \cup GitKpi) =
          Cardinality(Unanswerable \cup R) + Cardinality(GitKpi) - Cardinality({})
    BY <1>12, <2>1, GitKpiCount, FS_Union
  <2>3. Cardinality({}) = 0 /\ Cardinality(GitKpi) = 3
    BY GitKpiCount, FS_EmptySet
  <2>4. \A a \in Nat : a + 3 - 0 = a + 3
    OBVIOUS
  <2>5. Cardinality(Unanswerable \cup R) \in Nat
    BY <1>12, FS_CardinalityType
  <2>6. Cardinality(missing) = Cardinality(Unanswerable \cup R) + 3
    BY <1>11, <1>13, <2>2, <2>3, <2>4, <2>5
  <2> QED
    BY <1>12, <1>13, <2>6 DEF missing, unread, kpi, code
<1>14. CASE ~unread
  <2>1. missing = Unanswerable \cup R
    BY <1>11, <1>14
  <2>2. \A a \in Nat : a + 0 = a
    OBVIOUS
  <2>3. Cardinality(missing) = 22 + (IF InPeriod(w) = {} THEN 1 ELSE 0)
    BY <1>12, <2>1
  <2>4. 22 + (IF InPeriod(w) = {} THEN 1 ELSE 0) \in Nat
    OBVIOUS
  <2> QED
    BY <1>14, <2>2, <2>3, <2>4 DEF missing, unread, kpi, code
<1> QED
  BY <1>13, <1>14

\* The KPIs are counts of what the panels show.
LEMMA KpisHonest == FilesOK /\ PlaceOK => KpisAreHonest
<1> SUFFICES ASSUME FilesOK, PlaceOK, NEW w \in Window
    PROVE  LET kpi == KpiSet(w)
               code == GitKpis(w)
               S == AsOf(w)
               waits(n) == \E m \in S : /\ processed[m].project = processed[n].project
                                        /\ processed[m].type \in Closes("ISSUE")
                                        /\ Before(n, m)
               raised == {n \in EventsOf(S, "ISSUE_RAISED") : ~waits(n)}
               hands == {p \in Projects(S) :
                           State(ProjectOf(OfProject(S, p))) \in {"BLOCKED", "AT_RISK"}}
           IN  /\ kpi.blocked_items + kpi.critical_risk_count = Cardinality(hands)
               /\ kpi.open_issues > 0 <=> raised # {}
               /\ \A n \in raised : \E m \in raised :
                     processed[m].project = processed[n].project /\ kpi.issue_aging >= WholeDays(m)
               /\ kpi.execution_completion_rate = DataRequired <=> InPeriod(w) = {}
               /\ Cardinality(AllKpis(kpi) \ Answered(kpi, code)) =
                     22 + (IF InPeriod(w) = {} THEN 1 ELSE 0)
                        + (IF git = Unreadable \/ GitActivity(w) = Unsaid THEN 3 ELSE 0)
               /\ kpi.execution_completion_rate # DataRequired =>
                     kpi.execution_completion_rate \in 0..100
               /\ CodeChanges(w) > 0 =>
                     /\ \A k \in GitKpi : code[k] # DataRequired
                     /\ code.code_commits >= CodeChanges(w)
                     /\ code.code_commits >= code.code_contributors
  BY DEF KpisAreHonest
<1> DEFINE kpi == KpiSet(w)
           code == GitKpis(w)
           S == AsOf(w)
           raised == {n \in EventsOf(S, "ISSUE_RAISED") :
                        ~ \E m \in S : /\ processed[m].project = processed[n].project
                                       /\ processed[m].type \in Closes("ISSUE")
                                       /\ Before(n, m)}
           issues == {i \in OpenItems(w) : i.kind = "ISSUE"}
<1>1. /\ \A n \in raised : \E i \in OpenItems(w), m \in raised :
            /\ i.kind = "ISSUE" /\ processed[m].project = processed[n].project
            /\ i.item.since = m
      /\ \A i \in OpenItems(w) : i.kind = "ISSUE" => i.item.since \in raised
      /\ raised \in SUBSET Files
  <2>1. raised = Raised(w)
    BY DEF Raised
  <2> HIDE DEF raised
  <2> QED
    BY <2>1, IssuesRaised
<1>2. IsFiniteSet(issues) /\ \A i \in issues : i.item.since \in Files
  BY ItemsAreRaised, FiniteItems, FS_Subset
<1>3. kpi.open_issues = Cardinality(issues) /\ kpi.issue_aging = Aging(issues)
      /\ kpi.execution_completion_rate = CompletionRate(Metrics(w))
  BY KpiValues
<1> HIDE DEF raised
<1>4. issues # {} <=> raised # {}
  BY <1>1
<1>5. \A i \in OpenItems(w) : i \in issues <=> i.kind = "ISSUE"
  OBVIOUS
<1> HIDE DEF issues
<1>6. kpi.open_issues > 0 <=> raised # {}
  <2>1. Cardinality(issues) \in Nat /\ (Cardinality(issues) = 0 <=> issues = {})
    BY <1>2, FS_CardinalityType, FS_EmptySet
  <2> QED
    BY <1>3, <1>4, <2>1
<1>7. ASSUME NEW n \in raised
      PROVE  \E m \in raised :
                processed[m].project = processed[n].project /\ kpi.issue_aging >= WholeDays(m)
  <2>1. PICK i \in OpenItems(w), m \in raised :
           /\ i.kind = "ISSUE" /\ processed[m].project = processed[n].project
           /\ i.item.since = m
    BY <1>1
  <2>2. Aging(issues) >= WholeDays(i.item.since)
    BY <1>2, <1>5, <2>1, Ages
  <2> QED
    BY <1>3, <2>1, <2>2
<1>8. CodeChanges(w) > 0 =>
        /\ \A k \in GitKpi : code[k] # DataRequired
        /\ code.code_commits >= CodeChanges(w)
        /\ code.code_commits >= code.code_contributors
  <2>1. CASE git = Unreadable \/ GitActivity(w) = Unsaid
    <3>1. CodeChanges(w) = 0
      BY <2>1, GitSays
    <3> QED
      BY <3>1
  <2>2. CASE ~(git = Unreadable \/ GitActivity(w) = Unsaid)
    BY <2>2, GitSays
  <2> QED
    BY <2>1, <2>2
<1>9. /\ kpi.execution_completion_rate = DataRequired <=> InPeriod(w) = {}
      /\ kpi.execution_completion_rate # DataRequired => kpi.execution_completion_rate \in 0..100
  BY <1>3, RateIsHonest
<1>10. kpi.blocked_items + kpi.critical_risk_count =
         Cardinality({p \in Projects(S) :
                        State(ProjectOf(OfProject(S, p))) \in {"BLOCKED", "AT_RISK"}})
  BY Hands
<1>11. Cardinality(AllKpis(kpi) \ Answered(kpi, code)) =
         22 + (IF InPeriod(w) = {} THEN 1 ELSE 0)
            + (IF git = Unreadable \/ GitActivity(w) = Unsaid THEN 3 ELSE 0)
  BY SoManyUnanswered
<1> HIDE DEF kpi, code, S
<1> QED
  BY <1>6, <1>7, <1>8, <1>9, <1>10, <1>11 DEF raised, kpi, code, S

\* All that is said of numbers.
LEMMA NumbersHonest == FilesOK /\ PlaceOK => NumbersAreHonest
BY KpisHonest, Wholeness DEF NumbersAreHonest

-----------------------------------------------------------------------------
(* Cohorts. *)

\* A project begins with the first of its Events.
LEMMA Begins ==
    ASSUME FilesOK, NEW T \in SUBSET Files, T # {}
    PROVE  LET p == ProjectOf(T)
           IN  /\ p.first \in T /\ \A n \in T : n = p.first \/ Before(p.first, n)
               /\ Day(p.first) \in Nat /\ \A n \in T : Day(p.first) <= Day(n)
<1> DEFINE p == ProjectOf(T)
<1>1. IsSheetOf(p, T)
  BY Sheets
<1> HIDE DEF p
<1>2. p.first \in T /\ \A n \in T : n = p.first \/ Before(p.first, n)
  BY <1>1 DEF IsSheetOf
<1>3. Day(p.first) \in Nat /\ \A n \in T : Day(p.first) <= Day(n)
  BY <1>2, DayOf
<1> QED
  BY <1>2, <1>3 DEF p

\* What a project is to a window, by its Events.
LEMMA CohortKinds ==
    ASSUME FilesOK, PlaceOK, NEW w \in Window, NEW S \in SUBSET Files, NEW p \in Projects(S),
           NEW d \in CohortDays
    PROVE  LET T == OfProject(S, p)
               begin == Day(ProjectOf(T).first)
               settled == SettledAt(ProjectOf(T))
           IN  /\ InCohort(w, S, p, d) \in {"waiting", "settled", "retained", "idle"}
               /\ InCohort(w, S, p, d) = "waiting" <=> begin + d > AsOfDay(w)
               /\ InCohort(w, S, p, d) = "settled" <=>
                     ~(begin + d > AsOfDay(w)) /\ settled # NoFile /\ Day(settled) <= begin + d
               /\ InCohort(w, S, p, d) = "retained" <=>
                     /\ ~(begin + d > AsOfDay(w))
                     /\ ~(settled # NoFile /\ Day(settled) <= begin + d)
                     /\ \E n \in T : /\ begin < Day(n) /\ Day(n) <= begin + d
                                     /\ Day(n) <= AsOfDay(w)
<1> DEFINE T == OfProject(S, p)
           project == ProjectOf(T)
           begin == Day(project.first)
           settled == SettledAt(project)
           past == begin + d > AsOfDay(w)
           ended == settled # NoFile /\ Day(settled) <= begin + d
           moved == \E day \in {Day(n) : n \in T} :
                       begin < day /\ day <= begin + d /\ day <= AsOfDay(w)
<1>1. InCohort(w, S, p, d) =
         IF past THEN "waiting" ELSE IF ended THEN "settled"
         ELSE IF moved THEN "retained" ELSE "idle"
  BY DEF InCohort
<1>2. moved <=> \E n \in T : begin < Day(n) /\ Day(n) <= begin + d /\ Day(n) <= AsOfDay(w)
  BY DEF moved
<1> HIDE DEF past, ended, moved
<1>3. /\ InCohort(w, S, p, d) \in {"waiting", "settled", "retained", "idle"}
      /\ InCohort(w, S, p, d) = "waiting" <=> past
      /\ InCohort(w, S, p, d) = "settled" <=> ~past /\ ended
      /\ InCohort(w, S, p, d) = "retained" <=> ~past /\ ~ended /\ moved
  BY <1>1
<1> QED
  BY <1>2, <1>3 DEF past, ended

\* Whose window is over, however one asks.
LEMMA WindowIsOver ==
    ASSUME FilesOK, PlaceOK, NEW w \in Window, NEW T \in SUBSET Files, T # {}, NEW d \in CohortDays
    PROVE  ~(Day(ProjectOf(T).first) + d > AsOfDay(w)) <=>
              \E n \in T : Day(n) + d <= Today /\ Day(n) + d <= w.until
<1> DEFINE begin == Day(ProjectOf(T).first)
<1>1. w.until \in Nat /\ Today \in Nat /\ d \in Nat
  BY WindowAssumption, TowerAssumption DEF PlaceOK, Today
<1>2. /\ ProjectOf(T).first \in T /\ begin \in Nat
      /\ \A n \in T : begin <= Day(n) /\ Day(n) \in Nat
  BY Begins, DayOf
<1>3. \A x \in Nat : ~(x > AsOfDay(w)) <=> x <= Today /\ x <= w.until
  BY <1>1 DEF AsOfDay
<1>4. begin + d \in Nat
  BY <1>1, <1>2
<1>5. \A n \in T : begin + d <= Day(n) + d /\ Day(n) + d \in Nat
  BY <1>1, <1>2
<1>6. ASSUME NEW n \in T, Day(n) + d <= Today /\ Day(n) + d <= w.until
      PROVE  begin + d <= Today /\ begin + d <= w.until
  BY <1>1, <1>4, <1>5, <1>6
<1> QED
  BY <1>2, <1>3, <1>4, <1>6

\* A window of a cohort, by the kinds of its projects.
LEMMA WindowCounts ==
    ASSUME NEW M, IsFiniteSet(M), NEW kinds,
           kinds \in [M -> {"waiting", "settled", "retained", "idle"}]
    PROVE  LET v == CohortWindow(kinds)
               over == {p \in M : kinds[p] # "waiting"}
           IN  /\ v.base \in Nat /\ v.settled \in Nat /\ v.retained \in Nat
               /\ v.base + v.settled = Cardinality(over) /\ v.retained <= v.base
               /\ CohortReading(v) = DataRequired <=> over = {}
<1> DEFINE v == CohortWindow(kinds)
           over == {p \in M : kinds[p] # "waiting"}
           A == {p \in M : kinds[p] \in {"retained", "idle"}}
           B == {p \in M : kinds[p] \in {"settled"}}
           C == {p \in M : kinds[p] \in {"retained"}}
<1>1. /\ over = A \cup B /\ A \cap B = {} /\ C \in SUBSET A
      /\ A \in SUBSET M /\ B \in SUBSET M
  OBVIOUS
<1>2. v.base = Cardinality(A) /\ v.settled = Cardinality(B) /\ v.retained = Cardinality(C)
  BY DEF CohortWindow
<1> HIDE DEF v, over, A, B, C
<1>3. IsFiniteSet(A) /\ IsFiniteSet(B) /\ IsFiniteSet(C)
  BY <1>1, FS_Subset
<1>4. /\ Cardinality(A) \in Nat /\ Cardinality(B) \in Nat /\ Cardinality(C) \in Nat
      /\ (Cardinality(A) = 0 <=> A = {}) /\ (Cardinality(B) = 0 <=> B = {})
  BY <1>3, FS_CardinalityType, FS_EmptySet
<1>5. Cardinality(C) <= Cardinality(A)
  BY <1>1, <1>3, FS_Subset
<1>6. Cardinality(over) = Cardinality(A) + Cardinality(B)
  <2>1. Cardinality(over) = Cardinality(A) + Cardinality(B) - Cardinality({})
    BY <1>1, <1>3, FS_Union
  <2>2. Cardinality({}) = 0
    BY FS_EmptySet
  <2>3. \A x, y \in Nat : x + y - 0 = x + y
    OBVIOUS
  <2> QED
    BY <1>4, <2>1, <2>2, <2>3
<1>7. CohortReading(v) = DataRequired <=> over = {}
  <2>1. DataRequired \notin Nat /\ DataRequired # NotApplicable
    BY WordAssumption
  <2>2. \A a \in Nat, b \in Nat : b > 0 => (100 * a) \div b \in Nat
    OBVIOUS
  <2>3. CohortReading(v) = IF v.base > 0 THEN (100 * v.retained) \div v.base
                           ELSE IF v.settled = 0 THEN DataRequired ELSE NotApplicable
    BY DEF CohortReading
  <2>4. CohortReading(v) = DataRequired <=> v.base = 0 /\ v.settled = 0
    BY <1>2, <1>4, <2>1, <2>2, <2>3
  <2> QED
    BY <1>1, <1>2, <1>4, <2>4
<1> QED
  BY <1>2, <1>4, <1>5, <1>6, <1>7 DEF v, over

\* Of some months, one is this one.
LEMMA OneCohort ==
    ASSUME NEW M, NEW m \in M
    PROVE  Cardinality({x \in M : m = x}) = 1
<1>1. {x \in M : m = x} = {m}
  OBVIOUS
<1> QED
  BY <1>1, FS_Singleton

\* Every project is in one cohort, and every reading speaks of the elapsed.
LEMMA CohortsDivide == FilesOK /\ PlaceOK => CohortsDivideTheProjects
<1> SUFFICES ASSUME FilesOK, PlaceOK, NEW w \in Window
    PROVE  LET cohorts == CohortAnalysis(w)
               S == AsOf(w)
           IN  /\ \A m \in DOMAIN cohorts, d \in CohortDays :
                     LET c == cohorts[m]  v == c.windows[d]
                         over == {p \in Projects(S) :
                                     /\ MonthOf(ProjectOf(OfProject(S, p))) = m
                                     /\ \E n \in OfProject(S, p) :
                                           Day(n) + d <= Today /\ Day(n) + d <= w.until}
                     IN  /\ v.base + v.settled = Cardinality(over) /\ v.retained <= v.base
                         /\ CohortReading(v) = DataRequired <=> over = {}
               /\ \A p \in Projects(S) :
                     Cardinality({m \in DOMAIN cohorts :
                        MonthOf(ProjectOf(OfProject(S, p))) = m}) = 1
  BY DEF CohortsDivideTheProjects
<1> DEFINE S == AsOf(w)
           cohorts == CohortAnalysis(w)
           of(p) == MonthOf(ProjectOf(OfProject(S, p)))
           month == [p \in Projects(S) |-> of(p)]
           months == {month[p] : p \in Projects(S)}
           members(m) == {p \in Projects(S) : month[p] = m}
           kinds(m, d) == [p \in members(m) |-> InCohort(w, S, p, d)]
           over(m, d) == {p \in Projects(S) :
                            /\ of(p) = m
                            /\ \E n \in OfProject(S, p) :
                                  Day(n) + d <= Today /\ Day(n) + d <= w.until}
<1>1. S \in SUBSET Files /\ IsFiniteSet(Projects(S))
  BY WindowFiles, FiniteFiles
<1>2. \A p \in Projects(S) : OfProject(S, p) \in SUBSET Files /\ OfProject(S, p) # {}
  BY <1>1, OfProjectFiles
<1>3. /\ cohorts = [m \in months |->
                      [size    |-> Cardinality(members(m)),
                       windows |-> [d \in CohortDays |-> CohortWindow(kinds(m, d))]]]
      /\ \A m \in months, d \in CohortDays :
            cohorts[m].windows[d] = CohortWindow(kinds(m, d))
  <2>1. cohorts = [m \in months |->
                      [size    |-> Cardinality(members(m)),
                       windows |-> [d \in CohortDays |-> CohortWindow(kinds(m, d))]]]
    BY DEF CohortAnalysis
  <2> HIDE DEF cohorts, months, members, kinds
  <2>2. ASSUME NEW m \in months, NEW d \in CohortDays
        PROVE  cohorts[m].windows[d] = CohortWindow(kinds(m, d))
    <3>1. cohorts[m] = [size |-> Cardinality(members(m)),
                        windows |-> [c \in CohortDays |-> CohortWindow(kinds(m, c))]]
      BY <2>1
    <3>2. cohorts[m].windows = [c \in CohortDays |-> CohortWindow(kinds(m, c))]
      BY <3>1
    <3> QED
      BY <3>2
  <2> QED
    BY <2>1, <2>2
<1>4. DOMAIN cohorts = months
  BY <1>3
<1>5. ASSUME NEW m \in months, NEW d \in CohortDays
      PROVE  LET v == cohorts[m].windows[d]
             IN  /\ v.base + v.settled = Cardinality(over(m, d)) /\ v.retained <= v.base
                 /\ CohortReading(v) = DataRequired <=> over(m, d) = {}
  <2> DEFINE M == members(m)
             k == kinds(m, d)
  <2>1. M \in SUBSET Projects(S) /\ \A p \in Projects(S) : p \in M <=> of(p) = m
    OBVIOUS
  <2>2. IsFiniteSet(M)
    BY <1>1, <2>1, FS_Subset
  <2>3. \A p \in M : k[p] = InCohort(w, S, p, d)
    OBVIOUS
  <2>4. \A p \in M : InCohort(w, S, p, d) \in {"waiting", "settled", "retained", "idle"}
    <3> HIDE DEF S
    <3> QED
      BY <1>1, <2>1, CohortKinds
  <2>5. k \in [M -> {"waiting", "settled", "retained", "idle"}]
    BY <2>4
  <2>6. ASSUME NEW p \in M
        PROVE  k[p] # "waiting" <=>
                  \E n \in OfProject(S, p) : Day(n) + d <= Today /\ Day(n) + d <= w.until
    <3>1. p \in Projects(S)
      BY <2>1
    <3> DEFINE T == OfProject(S, p)
    <3>2. InCohort(w, S, p, d) = "waiting" <=> Day(ProjectOf(T).first) + d > AsOfDay(w)
      <4> HIDE DEF S
      <4> QED
        BY <1>1, <3>1, CohortKinds
    <3>3. T \in SUBSET Files /\ T # {}
      BY <1>2, <3>1
    <3>4. ~(Day(ProjectOf(T).first) + d > AsOfDay(w)) <=>
             \E n \in T : Day(n) + d <= Today /\ Day(n) + d <= w.until
      <4> HIDE DEF T
      <4> QED
        BY <3>3, WindowIsOver
    <3> QED
      BY <2>3, <3>2, <3>4
  <2>7. over(m, d) = {p \in M : k[p] # "waiting"}
    <3> HIDE DEF M, k, members, kinds, month, of
    <3> QED
      BY <2>1, <2>6 DEF over
  <2> HIDE DEF k, M, over
  <2>8. LET v == CohortWindow(k)
            past == {p \in M : k[p] # "waiting"}
        IN  /\ v.base + v.settled = Cardinality(past) /\ v.retained <= v.base
            /\ CohortReading(v) = DataRequired <=> past = {}
    BY <2>2, <2>5, WindowCounts
  <2>9. cohorts[m].windows[d] = CohortWindow(k)
    BY <1>3 DEF k
  <2> QED
    BY <2>7, <2>8, <2>9
<1>6. ASSUME NEW p \in Projects(S)
      PROVE  Cardinality({m \in DOMAIN cohorts : of(p) = m}) = 1
  <2>1. of(p) \in months
    OBVIOUS
  <2> HIDE DEF of, months
  <2> QED
    BY <1>4, <2>1, OneCohort
<1>7. \A m \in DOMAIN CohortAnalysis(w), d \in CohortDays :
         LET v == CohortAnalysis(w)[m].windows[d]
         IN  /\ v.base + v.settled = Cardinality(over(m, d)) /\ v.retained <= v.base
             /\ CohortReading(v) = DataRequired <=> over(m, d) = {}
  <2> HIDE DEF months, over
  <2> QED
    BY <1>4, <1>5
<1>8. \A p \in Projects(S) : Cardinality({m \in DOMAIN CohortAnalysis(w) : of(p) = m}) = 1
  BY <1>6
<1> QED
  BY <1>7, <1>8

\* The day a project began is that of the first of its Events.
LEMMA BeginDay ==
    ASSUME FilesOK, NEW T \in SUBSET Files, T # {}
    PROVE  Last({n \in T : ~ \E m \in T : Before(m, n)}) = ProjectOf(T).first
<1> DEFINE first == ProjectOf(T).first
           C == {n \in T : ~ \E m \in T : Before(m, n)}
<1>1. first \in T /\ \A n \in T : n = first \/ Before(first, n)
  BY Begins
<1> HIDE DEF first
<1>2. \A n \in T : n \in Files
  OBVIOUS
<1>3. \A n \in T : ~Before(n, first)
  BY <1>1, <1>2, Order
<1>4. first \in C /\ \A n \in C : n = first
  BY <1>1, <1>3
<1>5. C \in SUBSET Files /\ \A m \in C : ~Before(first, m)
  BY <1>1, <1>2, <1>4, Order
<1> HIDE DEF C
<1>6. Last(C) = first
  BY <1>4, <1>5, LastIs
<1> QED
  BY <1>6 DEF C, first

\* A project that was settled in a window stays so, unless its completion stands
\* again: what happened in the window is all there was when it closed.
LEMMA SettledInWindow ==
    ASSUME FilesOK, NEW T \in SUBSET Files, T # {}, NEW x \in Nat,
           NEW E, E = {n \in T : Day(n) <= x}, E # {},
           SettledAt(ProjectOf(T)) # NoFile, Day(SettledAt(ProjectOf(T))) <= x
    PROVE  \/ SettledAt(ProjectOf(E)) # NoFile /\ Day(SettledAt(ProjectOf(E))) <= x
           \/ EventsOf(E, "COMPLETED") # {} /\ processed[Last(T)].status = "COMPLETED"
<1> DEFINE p == ProjectOf(T)
           q == ProjectOf(E)
<1>1. E \in SUBSET T /\ E \in SUBSET Files
  OBVIOUS
<1>2. IsSheetOf(p, T) /\ IsSheetOf(q, E)
  BY <1>1, Sheets
<1>3. /\ CompletionStands(p) <=>
            processed[Last(T)].status = "COMPLETED" /\ EventsOf(T, "COMPLETED") # {}
      /\ CompletionStands(q) <=>
            processed[Last(E)].status = "COMPLETED" /\ EventsOf(E, "COMPLETED") # {}
  BY <1>1, ProjectStands
<1>4. Last(E) \in E /\ \A m \in E : ~Before(Last(E), m)
  BY <1>1, LastIsLatest
<1> HIDE DEF p, q
<1>5. CASE CompletionStands(p)
  <2>1. SettledAt(p) = Last(EventsOf(T, "COMPLETED"))
    BY <1>2, <1>3, <1>5 DEF SettledAt, IsSheetOf
  <2>2. EventsOf(T, "COMPLETED") \in SUBSET T /\ EventsOf(T, "COMPLETED") # {}
    BY <1>3, <1>5 DEF EventsOf
  <2>3. SettledAt(p) \in EventsOf(T, "COMPLETED")
    BY <2>1, <2>2, LastIsLatest
  <2>4. SettledAt(p) \in EventsOf(E, "COMPLETED")
    BY <2>2, <2>3 DEF EventsOf, p
  <2> QED
    BY <1>3, <1>5, <2>4
<1>6. CASE ~CompletionStands(p)
  <2>1. SettledAt(p) = p.cancelled /\ p.cancelled # NoFile
    BY <1>6 DEF SettledAt, p
  <2>2. /\ p.cancelled \in T /\ Day(p.cancelled) <= x
        /\ \A m \in T : ~Before(m, p.cancelled) => processed[m].status = "CANCELLED"
    BY <1>2, <2>1 DEF IsSheetOf, p
  <2>3. p.cancelled \in E
    BY <2>2
  <2>4. Last(E) \in T /\ ~Before(Last(E), p.cancelled)
    BY <1>1, <1>4, <2>3
  <2>5. processed[Last(E)].status = "CANCELLED"
    BY <2>2, <2>4
  <2>6. ~CompletionStands(q)
    BY <1>3, <2>5
  <2>7. q.cancelled # NoFile /\ q.cancelled \in E
    BY <1>2, <2>5 DEF IsSheetOf
  <2>8. SettledAt(q) = q.cancelled
    BY <2>6 DEF SettledAt
  <2> QED
    BY <2>7, <2>8 DEF q
<1> QED
  BY <1>5, <1>6

\* A window that is over stays as it was, but for a completion that stands again.
LEMMA ElapsedClosed == FilesOK /\ PlaceOK => ElapsedWindowIsClosed
<1> SUFFICES ASSUME FilesOK, PlaceOK, NEW w \in Window, NEW p \in Projects(AsOf(w)),
                    NEW d \in CohortDays
    PROVE  LET S == AsOf(w)
               begin == Day(Last({n \in OfProject(S, p) :
                                    ~ \E m \in OfProject(S, p) : Before(m, n)}))
               early == {n \in S : Day(n) <= begin + d}
               then == InCohort(w, early, p, d)
               again == /\ EventsOf(OfProject(early, p), "COMPLETED") # {}
                        /\ processed[Last(OfProject(S, p))].status = "COMPLETED"
           IN  then # "settled" =>
                   InCohort(w, S, p, d) \in {then} \cup (IF again THEN {"settled"} ELSE {})
  BY DEF ElapsedWindowIsClosed
<1> DEFINE S == AsOf(w)
           T == OfProject(S, p)
           begin == Day(Last({n \in T : ~ \E m \in T : Before(m, n)}))
           early == {n \in S : Day(n) <= begin + d}
           E == OfProject(early, p)
           first == ProjectOf(T).first
           was == InCohort(w, early, p, d)
           is == InCohort(w, S, p, d)
<1>1. S \in SUBSET Files /\ p \in Projects(S)
  BY WindowFiles
<1>2. T \in SUBSET Files /\ T # {}
  BY <1>1, OfProjectFiles
<1>3. begin = Day(first)
  <2> HIDE DEF T
  <2>1. Last({n \in T : ~ \E m \in T : Before(m, n)}) = ProjectOf(T).first
    BY <1>2, BeginDay
  <2> QED
    BY <2>1
<1> HIDE DEF begin
<1>4. early \in SUBSET Files /\ E = {n \in T : Day(n) <= begin + d}
  BY <1>1 DEF OfProject
<1>5. d \in Nat
  BY TowerAssumption
<1> HIDE DEF T
<1>6. /\ first \in T /\ (\A n \in T : n = first \/ Before(first, n))
      /\ begin \in Nat /\ \A n \in T : begin <= Day(n) /\ Day(n) \in Nat
  BY <1>2, <1>3, Begins, DayOf
<1>7. first \in E
  BY <1>3, <1>4, <1>5, <1>6
<1>8. E \in SUBSET Files /\ E # {} /\ E \in SUBSET T
  BY <1>2, <1>4, <1>7
<1>9. p \in Projects(early)
  BY <1>7 DEF Projects, OfProject
<1> DEFINE start == ProjectOf(E).first
<1>10. start = first
  <2> HIDE DEF E
  <2>1. start \in E /\ \A n \in E : n = start \/ Before(start, n)
    BY <1>8, Begins
  <2> QED
    BY <1>2, <1>6, <1>7, <1>8, <2>1, Order
<1> HIDE DEF E, early
<1>11. /\ is \in {"waiting", "settled", "retained", "idle"}
       /\ is = "waiting" <=> begin + d > AsOfDay(w)
       /\ is = "settled" <=>
             /\ ~(begin + d > AsOfDay(w))
             /\ SettledAt(ProjectOf(T)) # NoFile /\ Day(SettledAt(ProjectOf(T))) <= begin + d
       /\ is = "retained" <=>
             /\ ~(begin + d > AsOfDay(w))
             /\ ~(SettledAt(ProjectOf(T)) # NoFile /\ Day(SettledAt(ProjectOf(T))) <= begin + d)
             /\ \E n \in T : begin < Day(n) /\ Day(n) <= begin + d /\ Day(n) <= AsOfDay(w)
  <2> HIDE DEF S
  <2> QED
    BY <1>1, <1>3, CohortKinds DEF T
<1>12. /\ was \in {"waiting", "settled", "retained", "idle"}
       /\ was = "waiting" <=> begin + d > AsOfDay(w)
       /\ was = "settled" <=>
             /\ ~(begin + d > AsOfDay(w))
             /\ SettledAt(ProjectOf(E)) # NoFile /\ Day(SettledAt(ProjectOf(E))) <= begin + d
       /\ was = "retained" <=>
             /\ ~(begin + d > AsOfDay(w))
             /\ ~(SettledAt(ProjectOf(E)) # NoFile /\ Day(SettledAt(ProjectOf(E))) <= begin + d)
             /\ \E n \in E : begin < Day(n) /\ Day(n) <= begin + d /\ Day(n) <= AsOfDay(w)
  BY <1>3, <1>4, <1>9, <1>10, CohortKinds DEF E
<1>13. (\E n \in T : begin < Day(n) /\ Day(n) <= begin + d /\ Day(n) <= AsOfDay(w)) <=>
          \E n \in E : begin < Day(n) /\ Day(n) <= begin + d /\ Day(n) <= AsOfDay(w)
  BY <1>4
<1>14. ASSUME SettledAt(ProjectOf(T)) # NoFile, Day(SettledAt(ProjectOf(T))) <= begin + d
       PROVE  \/ SettledAt(ProjectOf(E)) # NoFile /\ Day(SettledAt(ProjectOf(E))) <= begin + d
              \/ EventsOf(E, "COMPLETED") # {} /\ processed[Last(T)].status = "COMPLETED"
  <2>1. begin + d \in Nat
    BY <1>5, <1>6
  <2> QED
    BY <1>2, <1>4, <1>8, <1>14, <2>1, SettledInWindow
<1> HIDE DEF was, is
<1>15. was # "settled" =>
          is \in {was} \cup (IF /\ EventsOf(E, "COMPLETED") # {}
                                /\ processed[Last(T)].status = "COMPLETED"
                             THEN {"settled"} ELSE {})
  <2> SUFFICES ASSUME was # "settled"
               PROVE  \/ is = was
                      \/ /\ is = "settled" /\ EventsOf(E, "COMPLETED") # {}
                         /\ processed[Last(T)].status = "COMPLETED"
    OBVIOUS
  <2>1. CASE is = "settled"
    BY <1>11, <1>12, <1>14, <2>1
  <2>2. CASE is # "settled"
    BY <1>11, <1>12, <1>13, <2>2
  <2> QED
    BY <2>1, <2>2
<1> QED
  BY <1>15 DEF was, is, E, early, T, begin

\* All that is said of cohorts.
LEMMA CohortsHonest == FilesOK /\ PlaceOK => CohortsAreHonest
BY CohortsDivide, ElapsedClosed DEF CohortsAreHonest

-----------------------------------------------------------------------------
(* What is said in Notion. *)

\* The settled states are those of projects that have ended and need no care.
LEMMA SettledStates ==
    ASSUME FilesOK, NEW T \in SUBSET Files, T # {}
    PROVE  LET p == ProjectOf(T)
           IN  /\ Settled(State(p)) => ~IsBlocked(p) /\ ~IsAtRisk(p)
               /\ processed[Last(T)].type \in {"COMPLETED", "CANCELLED"} => Settled(State(p))
<1> DEFINE p == ProjectOf(T)
<1>1. State(p) = IF IsBlocked(p) THEN "BLOCKED" ELSE IF IsAtRisk(p) THEN "AT_RISK"
                 ELSE IF CompletionStands(p) THEN "COMPLETE"
                 ELSE IF StatusOf(p) = "CANCELLED" THEN "CANCELLED" ELSE "ACTIVE"
  BY DEF State
<1>2. ASSUME processed[Last(T)].type \in {"COMPLETED", "CANCELLED"}
      PROVE  /\ ~IsBlocked(p) /\ ~IsAtRisk(p)
             /\ CompletionStands(p) \/ StatusOf(p) = "CANCELLED"
  <2>1. /\ ~IsBlocked(p) /\ ~IsAtRisk(p)
        /\ processed[Last(T)].status = processed[Last(T)].type
    BY <1>2, EndsIsEnded
  <2>2. Last(T) \in T
    BY LastIsLatest
  <2>3. processed[Last(T)].type = "COMPLETED" => EventsOf(T, "COMPLETED") # {}
    BY <2>2 DEF EventsOf
  <2>4. /\ StatusOf(p) = processed[Last(T)].status
        /\ CompletionStands(p) <=>
              processed[Last(T)].status = "COMPLETED" /\ EventsOf(T, "COMPLETED") # {}
    BY ProjectStands
  <2> QED
    BY <1>2, <2>1, <2>3, <2>4
<1> HIDE DEF p
<1>3. Settled(State(p)) => ~IsBlocked(p) /\ ~IsAtRisk(p)
  BY <1>1 DEF Settled
<1>4. ~IsBlocked(p) /\ ~IsAtRisk(p) /\ (CompletionStands(p) \/ StatusOf(p) = "CANCELLED")
         => Settled(State(p))
  BY <1>1 DEF Settled
<1> QED
  BY <1>2, <1>3, <1>4 DEF p

\* The newest file is among the recent, and whatever is not among them is older.
LEMMA NewestIsRecent ==
    ASSUME FilesOK, NEW S \in SUBSET Files, NEW m \in S, m \notin Newest(S, RecentLimit)
    PROVE  \E n \in Newest(S, RecentLimit) : Before(m, n)
<1> DEFINE last == Last(S)
           later == {n \in S : Before(last, n)}
<1>1. last \in S /\ (\A n \in S : n = last \/ Before(n, last)) /\ \A n \in S : ~Before(last, n)
  BY LastIsLatest
<1>2. later = {}
  BY <1>1
<1>3. Cardinality(later) < RecentLimit
  <2>1. Cardinality({}) = 0 /\ RecentLimit \in Nat \ {0}
    BY FS_EmptySet, TowerAssumption
  <2> QED
    BY <1>2, <2>1
<1>4. last \in Newest(S, RecentLimit)
  BY <1>1, <1>3 DEF Newest
<1> HIDE DEF last
<1> QED
  BY <1>1, <1>4

\* What the row of a project says of it.
LEMMA NotesTrue == FilesOK /\ PlaceOK => NotesAreTrue
<1> SUFFICES ASSUME FilesOK, PlaceOK, NEW p \in Projects(InPeriod(Forever))
    PROVE  LET S == InPeriod(Forever)
               risks == Risks(Forever)
               care == AtRisk(Forever)
               project == ProjectOf(OfProject(S, p))
               sign == Note(project)
               row == RowBody(Forever, p, project)
               last == Last(OfProject(S, p))
           IN  /\ p \in risks => sign = "blocker" /\ row.blocker
               /\ sign = "blocker" =>
                     p \in risks \/ processed[last].status \in {"CANCELLED", "COMPLETED"}
               /\ sign = "done" => p \notin risks \cup care
               /\ sign = "quiet" =>
                     /\ processed[last].type \notin {"COMPLETED", "CANCELLED"}
                     /\ Today >= Day(last) + SilentAfter
               /\ row.idle = "ended" => p \notin risks \cup care
               /\ row.events = {} => \E n \in Recent(Forever, RecentLimit) : Before(last, n)
  BY DEF NotesAreTrue
<1> DEFINE S == InPeriod(Forever)
           T == OfProject(S, p)
           project == ProjectOf(T)
           sign == Note(project)
           row == RowBody(Forever, p, project)
           last == Last(T)
<1>1. S \in SUBSET Files /\ S = AsOf(Forever) /\ p \in Projects(S)
  BY WindowFiles, ForeverFiles
<1>2. T \in SUBSET Files /\ T # {} /\ T \in SUBSET S
  BY <1>1, OfProjectFiles DEF OfProject
<1>3. p \in Risks(Forever) <=> IsBlocked(project)
  BY <1>1 DEF Risks
<1>4. p \in AtRisk(Forever) => IsAtRisk(project)
  BY <1>1 DEF AtRisk, NeedsCare
<1> HIDE DEF S
<1>5. /\ last \in T /\ project.last = last
      /\ project.blocker # NoFile <=> Standing(T)
      /\ IsBlocked(project) <=> Standing(T) /\ ~Ended(T)
  BY <1>2, ProjectStands
<1>6. /\ Settled(State(project)) => ~IsBlocked(project) /\ ~IsAtRisk(project)
      /\ processed[last].type \in {"COMPLETED", "CANCELLED"} => Settled(State(project))
  BY <1>2, SettledStates
<1>7. sign = IF project.blocker # NoFile THEN "blocker"
             ELSE IF Settled(State(project)) THEN "done"
             ELSE IF WholeDays(project.last) >= SilentAfter THEN "quiet" ELSE "plain"
  BY DEF Note
<1>8. /\ row.blocker = (project.blocker # NoFile)
      /\ row.idle = IF Settled(State(project)) THEN "ended" ELSE "quiet"
      /\ row.events = OfProject(Recent(Forever, RecentLimit), p)
  BY DEF RowBody
<1>9. row.events = {} => \E n \in Recent(Forever, RecentLimit) : Before(last, n)
  <2> SUFFICES ASSUME row.events = {}
               PROVE  \E n \in Recent(Forever, RecentLimit) : Before(last, n)
    OBVIOUS
  <2>1. Recent(Forever, RecentLimit) = Newest(S, RecentLimit)
    BY DEF Recent, S
  <2>2. last \in S /\ processed[last].project = p
    BY <1>5 DEF OfProject
  <2>3. last \notin Recent(Forever, RecentLimit)
    <3> HIDE DEF last, row
    <3> QED
      BY <1>8, <2>2 DEF OfProject
  <2> HIDE DEF last
  <2> QED
    BY <1>1, <2>1, <2>2, <2>3, NewestIsRecent
<1>10. WholeDays(last) >= SilentAfter => Today >= Day(last) + SilentAfter
  <2>1. Today \in Nat /\ SilentAfter \in Nat \ {0} /\ Day(last) \in Nat
    BY <1>2, <1>5, DayOf, WindowAssumption, TowerAssumption DEF PlaceOK, Today
  <2> QED
    BY <2>1 DEF WholeDays
<1>11. Ended(T) => processed[last].status \in {"CANCELLED", "COMPLETED"}
  BY DEF Ended
<1> HIDE DEF sign, row, project, last, T
<1>12. p \in Risks(Forever) => sign = "blocker" /\ row.blocker
  BY <1>3, <1>5, <1>7, <1>8
<1>13. sign = "blocker" =>
          p \in Risks(Forever) \/ processed[last].status \in {"CANCELLED", "COMPLETED"}
  BY <1>3, <1>5, <1>7, <1>11
<1>14. sign = "done" => p \notin Risks(Forever) \cup AtRisk(Forever)
  BY <1>3, <1>4, <1>6, <1>7
<1>15. sign = "quiet" => /\ processed[last].type \notin {"COMPLETED", "CANCELLED"}
                         /\ Today >= Day(last) + SilentAfter
  BY <1>5, <1>6, <1>7, <1>10
<1>16. row.idle = "ended" => p \notin Risks(Forever) \cup AtRisk(Forever)
  BY <1>3, <1>4, <1>6, <1>8
<1> QED
  BY <1>9, <1>12, <1>13, <1>14, <1>15, <1>16 DEF sign, row, project, last, T, S

-----------------------------------------------------------------------------
(* The page that is being put together. *)

\* A page has its fields; its lines are missing only where nobody is needed,
\* and it comes to what its lines and its model come to.
PageOK ==
    /\ screen = [phase |-> screen.phase, lines |-> screen.lines, needed |-> screen.needed,
               tone |-> screen.tone, model |-> screen.model]
    /\ screen.phase \in {"none", "lines", "shown"}
    /\ screen.phase # "none" /\ screen.lines = {} => ~screen.needed
    /\ screen.phase = "shown" =>
          /\ screen.tone = CompanyVerdict(screen.lines, screen.model)
          /\ screen.model = Unsaid \/ screen.model.events \in Nat

TowerInv == FilesOK /\ PlaceOK /\ PageOK

\* Whoever is needed has a line.
LEMMA NobodyWithoutLine ==
    ASSUME FilesOK, ControlTowerLines = {}
    PROVE  ~SomebodyIsNeeded
<1> DEFINE many == RiskRows(Forever)
           of(k) == {i \in OpenItems(Forever) : RiskOf(i.kind) = k}
<1>1. ASSUME NEW k \in RiskKind PROVE ~(many[k] > 0)
  <2>1. RowLines(many) = {}
    BY DEF ControlTowerLines
  <2>2. many[k] > 0 => [kind |-> k, total |-> FALSE] \in RowLines(many)
    BY DEF RowLines
  <2> QED
    BY <2>1, <2>2
<1>2. /\ many["OPEN_BLOCKER"] = Cardinality(Risks(Forever))
      /\ many["AT_RISK"] = Cardinality(AtRisk(Forever))
      /\ many["OPEN_ISSUE"] = Cardinality(of("OPEN_ISSUE"))
      /\ many["PENDING_DECISION"] = Cardinality(of("PENDING_DECISION"))
      /\ many["UNEXECUTED_DECISION"] = Cardinality(of("UNEXECUTED_DECISION"))
      /\ many["ROLE_MISMATCH"] = Cardinality(Mismatches(Forever))
      /\ many["EVENT_ID_CONFLICT"] = Cardinality(Conflicts(Forever))
  BY DEF RiskRows, ProjectRows, EventRows, RiskKind
<1> HIDE DEF many
<1>3. \A T : IsFiniteSet(T) /\ ~(Cardinality(T) > 0) => T = {}
  <2> TAKE T
  <2>1. IsFiniteSet(T) => Cardinality(T) \in Nat /\ (Cardinality(T) = 0 <=> T = {})
    BY FS_CardinalityType, FS_EmptySet
  <2> QED
    BY <2>1
<1>4. IsFiniteSet(OpenItems(Forever)) /\ IsFiniteSet(Risks(Forever)) /\ IsFiniteSet(AtRisk(Forever))
  BY FiniteItems
<1>5. IsFiniteSet(Mismatches(Forever)) /\ IsFiniteSet(Conflicts(Forever))
  <2>1. Mismatches(Forever) \in SUBSET Files
    BY WindowFiles DEF Mismatches
  <2>2. Conflicts(Forever) \in SUBSET Files
    BY ForeverFiles DEF Conflicts, Duplicates, Ignored
  <2> QED
    BY <2>1, <2>2, FiniteFiles
<1>6. ~(many["OPEN_BLOCKER"] > 0) /\ ~(many["AT_RISK"] > 0) /\ ~(many["OPEN_ISSUE"] > 0)
      /\ ~(many["PENDING_DECISION"] > 0) /\ ~(many["UNEXECUTED_DECISION"] > 0)
      /\ ~(many["ROLE_MISMATCH"] > 0) /\ ~(many["EVENT_ID_CONFLICT"] > 0)
  BY <1>1 DEF RiskKind
<1>7. \A k : of(k) \in SUBSET OpenItems(Forever) /\ IsFiniteSet(of(k))
  BY <1>4, FS_Subset
<1>8. /\ Risks(Forever) = {} /\ AtRisk(Forever) = {}
      /\ Mismatches(Forever) = {} /\ Conflicts(Forever) = {}
  BY <1>2, <1>3, <1>4, <1>5, <1>6
<1>9. of("OPEN_ISSUE") = {} /\ of("PENDING_DECISION") = {} /\ of("UNEXECUTED_DECISION") = {}
  <2> HIDE DEF of
  <2> QED
    BY <1>2, <1>3, <1>6, <1>7
<1>10. OpenItems(Forever) = {}
  <2>1. ASSUME NEW i \in OpenItems(Forever) PROVE FALSE
    <3>1. i.kind \in Kind
      BY DEF OpenItems, RollOpenItems
    <3>2. i.kind \in {"ISSUE", "DECISION", "DECISION_EXECUTION"}
      BY <3>1 DEF Kind
    <3>3. RiskOf(i.kind) \in {"OPEN_ISSUE", "PENDING_DECISION", "UNEXECUTED_DECISION"}
      BY <3>2 DEF RiskOf
    <3>4. i \in of(RiskOf(i.kind))
      OBVIOUS
    <3> HIDE DEF of
    <3> QED
      BY <1>9, <3>3, <3>4
  <2> QED
    BY <2>1
<1> QED
  BY <1>8, <1>10 DEF SomebodyIsNeeded

\* Files hold what they may, whoever moves them.
LEMMA FilesStay == FilesOK /\ FilesChange => FilesOK'
<1> SUFFICES ASSUME FilesOK, FilesChange PROVE FilesOK'
  OBVIOUS
<1>1. CASE \E e \in Event : Collect(e)
  BY <1>1 DEF Collect, FilesOK
<1>2. CASE \E n \in Name, e \in Event : Restore(n, e)
  BY <1>2 DEF Restore, FilesOK
<1>3. CASE \E n \in Name : Damage(n) \/ Remove(n)
  BY <1>3 DEF Damage, Remove, FilesOK
<1> QED
  BY <1>1, <1>2, <1>3 DEF FilesChange

\* At first there is nothing to read and nothing to show.
LEMMA TowerInitOK == TowerInit => TowerInv
<1> SUFFICES ASSUME TowerInit PROVE TowerInv
  OBVIOUS
<1>1. FilesOK
  BY DEF TowerInit, RollupInit, FilesOK
<1>2. PlaceOK
  <2>1. git \in Log
    BY DEF TowerInit, Log
  <2> QED
    BY <2>1 DEF TowerInit, PlaceOK
<1>3. PageOK
  BY DEF TowerInit, NoPage, PageOK
<1> QED
  BY <1>1, <1>2, <1>3 DEF TowerInv

\* No step of the clock, the files, git or the page leaves the invariant.
LEMMA TowerStepOK == TowerInv /\ [TowerNext]_tower => TowerInv'
<1> SUFFICES ASSUME FilesOK, PlaceOK, PageOK, [TowerNext]_tower PROVE TowerInv'
  BY DEF TowerInv
<1>1. CASE FilesChange
  <2>1. FilesOK'
    BY <1>1, FilesStay
  <2>2. PlaceOK' /\ PageOK'
    BY <1>1 DEF FilesChange, PlaceOK, PageOK, CompanyVerdict, Severity
  <2> QED
    BY <2>1, <2>2 DEF TowerInv
<1>2. CASE Tick \/ LoseListing \/ GitChanges \/ \E d \in Days : CloseDay(d) \/ LoseDaily(d)
  <2>1. UNCHANGED <<processed, screen>>
    BY <1>2 DEF Tick, LoseListing, GitChanges, CloseDay, LoseDaily
  <2>2. now' \in Nat
    BY <1>2, TowerAssumption DEF Tick, LoseListing, GitChanges, CloseDay, LoseDaily, PlaceOK
  <2>3. git' \in Log \cup {Unreadable}
    BY <1>2, TowerAssumption DEF Tick, LoseListing, GitChanges, CloseDay, LoseDaily, PlaceOK
  <2>4. listed' \in BOOLEAN
    BY <1>2 DEF Tick, LoseListing, GitChanges, CloseDay, LoseDaily, PlaceOK
  <2>5. daily' \in [Days -> {"none", "empty", "work", "unreadable"}]
    BY <1>2 DEF Tick, LoseListing, GitChanges, CloseDay, LoseDaily, PlaceOK
  <2>6. FilesOK' /\ PageOK'
    BY <2>1 DEF FilesOK, PageOK, CompanyVerdict, Severity
  <2> QED
    BY <2>2, <2>3, <2>4, <2>5, <2>6 DEF TowerInv, PlaceOK
<1>3. CASE ReadBlocks
  <2>1. PICK others \in SUBSET {"OTHER_P1", "OTHER_UNKNOWN", "OTHER_P2"}, read \in BOOLEAN :
           screen' = [NoPage EXCEPT
              !.phase = "lines", !.needed = SomebodyIsNeeded,
              !.lines = CompanyLines
                        \cup (IF read THEN ControlTowerLines
                              ELSE {[kind |-> "BLOCK_UNREAD", total |-> FALSE]})
                        \cup {[kind |-> k, total |-> FALSE] : k \in others}]
    BY <1>3 DEF ReadBlocks
  <2> DEFINE found == CompanyLines
                      \cup (IF read THEN ControlTowerLines
                            ELSE {[kind |-> "BLOCK_UNREAD", total |-> FALSE]})
                      \cup {[kind |-> k, total |-> FALSE] : k \in others}
  <2>2. found = {} => ControlTowerLines = {}
    OBVIOUS
  <2> HIDE DEF found
  <2>3. screen' = [phase |-> "lines", lines |-> found, needed |-> SomebodyIsNeeded,
                 tone |-> "warn", model |-> Unsaid]
    BY <2>1 DEF NoPage, found
  <2>4. found = {} => ~SomebodyIsNeeded
    BY <2>2, NobodyWithoutLine
  <2>5. PageOK'
    BY <2>3, <2>4 DEF PageOK
  <2>6. FilesOK' /\ PlaceOK'
    BY <1>3 DEF ReadBlocks, FilesOK, PlaceOK
  <2> QED
    BY <2>5, <2>6 DEF TowerInv
<1>4. ASSUME NEW w \in Window, ReadModel(w) PROVE TowerInv'
  <2>1. PICK model \in {Model(w), Unsaid} :
           screen' = [screen EXCEPT !.phase = "shown", !.model = model,
                                !.tone = CompanyVerdict(screen.lines, model)]
    BY <1>4 DEF ReadModel
  <2>2. screen.phase = "lines"
    BY <1>4 DEF ReadModel
  <2>3. model = Unsaid \/ model.events \in Nat
    <3>1. Model(w).events = Cardinality(InPeriod(w))
      BY DEF Model
    <3>2. Cardinality(InPeriod(w)) \in Nat
      BY WindowFiles, FiniteFiles
    <3> QED
      BY <2>1, <3>1, <3>2
  <2> DEFINE verdict == CompanyVerdict(screen.lines, model)
  <2> HIDE DEF verdict
  <2>4. screen' = [phase |-> "shown", lines |-> screen.lines, needed |-> screen.needed,
                 tone |-> verdict, model |-> model]
    BY <2>1 DEF PageOK, verdict
  <2>5. /\ screen'.phase = "shown" /\ screen'.lines = screen.lines /\ screen'.needed = screen.needed
        /\ screen'.tone = verdict /\ screen'.model = model
    BY <2>4
  <2>6. screen'.tone = CompanyVerdict(screen'.lines, screen'.model)
    BY <2>5 DEF verdict
  <2>7. PageOK'
    <3>1. screen.lines = {} => ~screen.needed
      BY <2>2 DEF PageOK
    <3>2. screen' = [phase |-> screen'.phase, lines |-> screen'.lines, needed |-> screen'.needed,
                   tone |-> screen'.tone, model |-> screen'.model]
      BY <2>4, <2>5
    <3> QED
      BY <2>3, <2>5, <2>6, <3>1, <3>2 DEF PageOK, CompanyVerdict, Severity
  <2>8. FilesOK' /\ PlaceOK'
    BY <1>4 DEF ReadModel, FilesOK, PlaceOK
  <2> QED
    BY <2>7, <2>8 DEF TowerInv
<1>5. CASE UNCHANGED tower
  BY <1>5 DEF tower, TowerInv, FilesOK, PlaceOK, PageOK, CompanyVerdict, Severity
<1> QED
  BY <1>1, <1>2, <1>3, <1>4, <1>5 DEF TowerNext

\* The verdicts are ranked.
LEMMA Ranks ==
    Rank("ok") = 0 /\ Rank("warn") = 1 /\ Rank("bad") = 2
<1>1. \A r \in 0..2 : r = 0 \/ r = 1 \/ r = 2
  OBVIOUS
<1>2. /\ \A r \in 0..2 : "ok" = <<"ok", "warn", "bad">>[r + 1] <=> r = 0
      /\ \A r \in 0..2 : "warn" = <<"ok", "warn", "bad">>[r + 1] <=> r = 1
      /\ \A r \in 0..2 : "bad" = <<"ok", "warn", "bad">>[r + 1] <=> r = 2
  BY <1>1
<1>3. 0 \in 0..2 /\ 1 \in 0..2 /\ 2 \in 0..2
  OBVIOUS
<1> QED
  BY <1>2, <1>3 DEF Rank

\* Where a page says that all is well, nobody is needed.
LEMMA VerdictsDoAgree == TowerInv => VerdictsAgree
<1> SUFFICES ASSUME FilesOK, PlaceOK, PageOK PROVE OkNeedsNobody /\ NotionIsNeverMilder
  BY DEF TowerInv, VerdictsAgree
<1> DEFINE L == screen.lines
           M == screen.model
           grave == \E l \in L : Severity(l) \in {"P1", "?"}
<1>1. screen.phase = "shown" =>
         /\ screen.tone = CompanyVerdict(L, M)
         /\ M = Unsaid \/ M.events \in Nat
         /\ L = {} => ~screen.needed
  BY DEF PageOK
<1>2. /\ CompanyVerdict(L, M) = IF M = Unsaid THEN IF L = {} THEN "warn" ELSE "bad"
                                ELSE IF grave THEN "bad"
                                ELSE IF L # {} \/ M.events = 0 THEN "warn" ELSE "ok"
      /\ NotionTone(L, M) = IF M = Unsaid \/ grave THEN "bad"
                            ELSE IF L # {} \/ M.events = 0 THEN "warn" ELSE "ok"
      /\ DescriptionHead(L, M) = IF M = Unsaid THEN "no model"
                                 ELSE IF L # {} THEN "attention" ELSE "clear"
      /\ ExitCode(L) = IF L = {} THEN 0 ELSE 3
  BY DEF CompanyVerdict, NotionTone, DescriptionHead, ExitCode
<1>3. L = {} => ~grave
  OBVIOUS
<1> HIDE DEF L, M, grave
<1>4. screen.phase = "shown" /\ screen.tone = "ok" =>
         /\ ~screen.needed /\ ExitCode(L) = 0 /\ M # Unsaid /\ M.events > 0
  <2> SUFFICES ASSUME screen.phase = "shown", screen.tone = "ok"
               PROVE  /\ ~screen.needed /\ ExitCode(L) = 0 /\ M # Unsaid /\ M.events > 0
    OBVIOUS
  <2>1. CompanyVerdict(L, M) = "ok"
    BY <1>1
  <2>2. M # Unsaid /\ L = {} /\ M.events # 0
    BY <1>2, <2>1
  <2>3. M.events \in Nat /\ ~screen.needed
    BY <1>1, <2>2
  <2>4. \A k \in Nat : k # 0 => k > 0
    OBVIOUS
  <2> QED
    BY <1>2, <2>2, <2>3, <2>4
<1>5. screen.phase = "shown" =>
         /\ M # Unsaid => NotionTone(L, M) = screen.tone
         /\ M = Unsaid => NotionTone(L, M) = "bad"
         /\ screen.tone \in {"ok", "warn", "bad"} /\ NotionTone(L, M) \in {"ok", "warn", "bad"}
         /\ DescriptionHead(L, M) = "clear" => NotionTone(L, M) # "bad" /\ ExitCode(L) = 0
  BY <1>1, <1>2, <1>3
<1>6. \A s, t \in {"ok", "warn", "bad"} : s = "bad" \/ s = t => Rank(s) >= Rank(t)
  BY Ranks
<1>7. screen.phase = "shown" => Rank(NotionTone(L, M)) >= Rank(screen.tone)
  BY <1>5, <1>6
<1>8. Banner(Forever) = "partial" => Caveat(Forever) # "none"
  BY DEF Banner, Caveat
<1>9. AbsenceNote(Forever, InPeriod(Forever)) = "nothing yet" => Files = {}
  <2>1. InPeriod(Forever) = {} => Files = {}
    BY ForeverFiles, KeptFacts
  <2> QED
    BY <2>1 DEF AbsenceNote
<1> QED
  BY <1>4, <1>5, <1>7, <1>8, <1>9 DEF OkNeedsNobody, NotionIsNeverMilder, L, M

-----------------------------------------------------------------------------
(* The theorems. *)

\* What is read and what is shown are what they can be, and a page has a line
\* wherever somebody is needed.
THEOREM TowerIsSound == TowerSpec => []TowerInv
BY TowerInitOK, TowerStepOK, PTL DEF TowerSpec

\* Whatever asks for an answer is shown until it has one, however many Events
\* there are, in whatever order their files came, and in every window.
THEOREM WhatStandsStaysShown == TowerSpec => []WhatStandsIsShown
<1>1. TowerInv => WhatStandsIsShown
  BY StandsAreShown DEF TowerInv
<1> QED
  BY <1>1, TowerIsSound, PTL

\* Two counts of one thing are one number, whatever files carry an Event ID.
THEOREM CountsAlwaysAgree == TowerSpec => []CountsAgree
<1>1. TowerInv => CountsAgree
  BY CountsDoAgree DEF TowerInv
<1> QED
  BY <1>1, TowerIsSound, PTL

\* No number is made up, doubled, or called complete when it is of a part.
THEOREM NumbersStayHonest == TowerSpec => []NumbersAreHonest
<1>1. TowerInv => NumbersAreHonest
  BY NumbersHonest DEF TowerInv
<1> QED
  BY <1>1, TowerIsSound, PTL

\* Cohorts divide the projects, and a window that is over stays as it was.
THEOREM CohortsStayHonest == TowerSpec => []CohortsAreHonest
<1>1. TowerInv => CohortsAreHonest
  BY CohortsHonest DEF TowerInv
<1> QED
  BY <1>1, TowerIsSound, PTL

\* All is well only where nobody is needed, in the browser and in Notion.
THEOREM VerdictsAlwaysAgree == TowerSpec => []VerdictsAgree
BY VerdictsDoAgree, TowerIsSound, PTL

\* The note of a project's row says what its Events say.
THEOREM NotesAreAlwaysTrue == TowerSpec => []NotesAreTrue
<1>1. TowerInv => NotesAreTrue
  BY NotesTrue DEF TowerInv
<1> QED
  BY <1>1, TowerIsSound, PTL

-----------------------------------------------------------------------------
(* The publication. *)

TypeOK ==
    /\ company \in Version /\ payload \in Version
    /\ body \in [Row -> Seq(Block)]
    /\ note \in [Row -> Nat \cup {Person}] /\ seen \in [Row -> Nat \cup {Person}]
    /\ description \in Nat
    /\ pc \in {"idle", "find", "page", "rows", "row", "body", "notes", "note", "describe"}
    /\ rows \subseteq Row
    /\ skipped \subseteq Row
    /\ failed \subseteq {"rows", "notes", "description", "port"}
    /\ exit \in {0, 1, 3, None}
    /\ warned \subseteq Row /\ late \subseteq Row /\ torn \subseteq Row

\* What is left of the tool's blocks when the first ones are taken away.
Leftover(blocks) ==
    \E v \in Version :
        blocks \in {<<>>, <<<<"text", v>>>>, <<<<"mark", v>>, <<"text", v>>>>}

\* A body as the tool leaves it, with what somebody may have typed below.
Whole(blocks) ==
    \E v \in Version :
        blocks \in {<<<<"mark", v>>, <<"text", v>>>>, <<<<"mark", v>>, <<"text", v>>, Typed>>}

\* A list of what is to be taken away, and a body that it is of.
Listed(list) ==
    \E v \in Version :
        list \in {<<>>, <<Typed>>, <<<<"text", v>>>>, <<<<"text", v>>, Typed>>,
                  <<<<"mark", v>>, <<"text", v>>>>, <<<<"mark", v>>, <<"text", v>>, Typed>>}
Fits(blocks, list) ==
    \/ blocks = list
    \/ Typed \notin Range(list) /\ blocks \in {<<Typed>> \o list, Append(list, Typed)}

\* The page is the tool's alone; the steps after it rely on it.
AfterPage == {"rows", "row", "body", "notes", "note", "describe"}
PageInv ==
    /\ page = None \/ Leftover(page)
    /\ pc = "page" => page = todo /\ Leftover(page)
    /\ pc \in AfterPage => page = Rendered(payload)

\* The body of a row that is not being replaced is whole, or has a reason not to
\* be; and what stands below the tool's line is somebody's who was warned.
AtRest(r) ==
    \/ body[r] = <<>> \/ Whole(body[r])
    \/ ~Ours(body[r]) /\ (Typed \in Range(body[r]) \/ r \in torn)
BodiesInv ==
    \A r \in Row :
        /\ r # current => AtRest(r)
        /\ body[r] # <<>> /\ Ours(body[r]) /\ Typed \in Range(body[r]) => r \in warned

\* The body that is being replaced.
ReplacedInv ==
    /\ pc # "body" => current = None
    /\ pc = "body" =>
          /\ current \in rows /\ Listed(todo) /\ Fits(body[current], todo)
          /\ Typed \in Range(todo) => current \in warned

\* What the run has done of the rows, and what it says of it.
RowsInv ==
    /\ pc \in {"find", "page", "rows"} => skipped = {}
    /\ pc \in {"row", "body"} =>
          /\ \A r \in skipped : r \notin rows /\ (Typed \in Range(body[r]) \/ r \in torn)
          /\ \A r \in Sourced[payload] \ rows : r \in skipped \/ Shows(r, payload)
    /\ pc \in {"notes", "note", "describe"} /\ "rows" \notin failed =>
          \A r \in Sourced[payload] : r \in skipped \/ Shows(r, payload)

\* What it has done of the notes.
NotesInv ==
    /\ pc = "notes" => rows = {}
    /\ pc = "note" =>
          /\ \A r \in Row : seen[r] = Person => note[r] = Person
          /\ \A r \in Row : note[r] = Person /\ seen[r] # Person => r \in late
          /\ \A r \in Sourced[payload] \ rows : note[r] \in {payload, Person}
    /\ pc = "describe" /\ "notes" \notin failed =>
          \A r \in Sourced[payload] : note[r] \in {payload, Person}

\* The inductive invariant.
Inv == TypeOK /\ PageInv /\ BodiesInv /\ ReplacedInv /\ RowsInv /\ NotesInv

-----------------------------------------------------------------------------
\* The tool's two blocks and a person's are three.
LEMMA BlockFacts ==
    /\ Typed \in Block
    /\ \A v \in Version :
          /\ <<"mark", v>> \in Block /\ <<"text", v>> \in Block
          /\ <<"mark", v>> # <<"text", v>> /\ <<"mark", v>> # Typed /\ <<"text", v>> # Typed
          /\ <<"mark", v>>[1] = "mark" /\ <<"text", v>>[1] # "mark"
    /\ Typed[1] # "mark"
BY DEF Block, Typed

\* What a short list contains.
LEMMA Ranges ==
    /\ Range(<<>>) = {}
    /\ \A a : Range(<<a>>) = {a}
    /\ \A a, b : Range(<<a, b>>) = {a, b}
    /\ \A a, b, c : Range(<<a, b, c>>) = {a, b, c}
<1>1. Range(<<>>) = {}
  BY DEF Range
<1>2. ASSUME NEW a PROVE Range(<<a>>) = {a}
  BY DEF Range
<1>3. ASSUME NEW a, NEW b PROVE Range(<<a, b>>) = {a, b}
  BY DEF Range
<1>4. ASSUME NEW a, NEW b, NEW c PROVE Range(<<a, b, c>>) = {a, b, c}
  <2>1. Range(<<a, b, c>>) = { <<a, b, c>>[i] : i \in 1 .. 3 }
    BY DEF Range
  <2>2. \A i \in 1 .. 3 : i = 1 \/ i = 2 \/ i = 3
    OBVIOUS
  <2> QED
    BY <2>1, <2>2
<1> QED
  BY <1>1, <1>2, <1>3, <1>4

\* Somebody types below or above what is there.
LEMMA Typing ==
    ASSUME NEW S, NEW s \in Seq(S), NEW x \in S
    PROVE  /\ Append(s, x) \in Seq(S) /\ <<x>> \o s \in Seq(S)
           /\ Append(s, x) # <<>> /\ <<x>> \o s # <<>>
           /\ Range(Append(s, x)) = Range(s) \cup {x}
           /\ Range(<<x>> \o s) = {x} \cup Range(s)
           /\ s # <<>> => Head(Append(s, x)) = Head(s)
           /\ Head(<<x>> \o s) = x
<1>1. /\ Append(s, x) \in Seq(S) /\ Len(Append(s, x)) = Len(s) + 1 /\ Len(s) \in Nat
      /\ \A i \in 1 .. Len(s) + 1 : Append(s, x)[i] = IF i <= Len(s) THEN s[i] ELSE x
  BY AppendProperties, LenProperties
<1>2. /\ <<x>> \o s \in Seq(S) /\ Len(<<x>> \o s) = Len(s) + 1
      /\ \A i \in 1 .. Len(s) + 1 : (<<x>> \o s)[i] = IF i = 1 THEN x ELSE s[i - 1]
  <2>1. <<x>> \in Seq(S) /\ Len(<<x>>) = 1 /\ <<x>>[1] = x
    OBVIOUS
  <2> QED
    BY <1>1, <2>1, ConcatProperties
<1>3. /\ DOMAIN s = 1 .. Len(s)
      /\ DOMAIN Append(s, x) = 1 .. Len(s) + 1 /\ DOMAIN (<<x>> \o s) = 1 .. Len(s) + 1
  BY <1>1, <1>2, LenProperties
<1> DEFINE A == Append(s, x)
           P == <<x>> \o s
<1>4. Range(A) = { A[i] : i \in 1 .. Len(s) + 1 } /\ Range(P) = { P[i] : i \in 1 .. Len(s) + 1 }
      /\ Range(s) = { s[i] : i \in 1 .. Len(s) }
  BY <1>3 DEF Range
<1> HIDE DEF A, P
<1>5. Range(A) = Range(s) \cup {x}
  BY <1>1, <1>4 DEF A
<1>6. Range(P) = {x} \cup Range(s)
  <2>1. Range(P) \subseteq {x} \cup Range(s)
    BY <1>1, <1>2, <1>4 DEF P
  <2>2. x \in Range(P)
    BY <1>1, <1>2, <1>4 DEF P
  <2>3. ASSUME NEW i \in 1 .. Len(s) PROVE s[i] \in Range(P)
    <3>1. i + 1 \in 1 .. Len(s) + 1 /\ P[i + 1] = s[i]
      BY <1>1, <1>2 DEF P
    <3> QED
      BY <1>4, <3>1
  <2> QED
    BY <1>4, <2>1, <2>2, <2>3
<1>7. A # <<>> /\ P # <<>>
  BY <1>1, <1>2 DEF A, P
<1>8. Head(A) = A[1] /\ Head(P) = P[1] /\ Head(s) = s[1]
  BY <1>1, <1>2, HeadTailProperties DEF A, P
<1>9. s # <<>> => Len(s) >= 1
  BY <1>1, EmptySeq
<1> QED
  BY <1>1, <1>2, <1>5, <1>6, <1>7, <1>8, <1>9 DEF A, P

\* Short lists put together.
LEMMA Joins ==
    /\ \A a \in Block : <<>> \o <<a>> = <<a>> /\ <<a>> \o <<>> = <<a>> /\ Append(<<>>, a) = <<a>>
    /\ \A a, b \in Block : /\ <<>> \o <<a, b>> = <<a, b>>
                           /\ <<a>> \o <<b>> = <<a, b>> /\ Append(<<a>>, b) = <<a, b>>
    /\ \A a, b, c \in Block : /\ <<a>> \o <<b, c>> = <<a, b, c>>
                              /\ Append(<<a, b>>, c) = <<a, b, c>>
<1>1. ASSUME NEW s \in Seq(Block), NEW t \in Seq(Block), Len(s) = Len(t),
             \A i \in 1 .. Len(s) : s[i] = t[i]
      PROVE  s = t
  BY <1>1, SeqEqual
<1>2. ASSUME NEW a \in Block
      PROVE  <<>> \o <<a>> = <<a>> /\ <<a>> \o <<>> = <<a>> /\ Append(<<>>, a) = <<a>>
  BY ConcatEmptySeq
<1>3. ASSUME NEW a \in Block, NEW b \in Block
      PROVE  /\ <<>> \o <<a, b>> = <<a, b>>
             /\ <<a>> \o <<b>> = <<a, b>> /\ Append(<<a>>, b) = <<a, b>>
  <2> DEFINE s == <<a>> \o <<b>>
             t == <<a, b>>
             u == Append(<<a>>, b)
  <2>1. s \in Seq(Block) /\ t \in Seq(Block) /\ Len(s) = 2 /\ Len(t) = 2
        /\ \A i \in 1 .. 2 : s[i] = t[i]
    OBVIOUS
  <2>2. u \in Seq(Block) /\ Len(u) = 2 /\ \A i \in 1 .. 2 : u[i] = t[i]
    OBVIOUS
  <2> HIDE DEF s, t, u
  <2>3. s = t /\ u = t
    BY <1>1, <2>1, <2>2
  <2> QED
    BY <2>3, ConcatEmptySeq DEF s, t, u
<1>4. ASSUME NEW a \in Block, NEW b \in Block, NEW c \in Block
      PROVE  <<a>> \o <<b, c>> = <<a, b, c>> /\ Append(<<a, b>>, c) = <<a, b, c>>
  <2> DEFINE s == <<a>> \o <<b, c>>
             t == <<a, b, c>>
             u == Append(<<a, b>>, c)
  <2>1. s \in Seq(Block) /\ t \in Seq(Block) /\ Len(s) = 3 /\ Len(t) = 3
    OBVIOUS
  <2>2. \A i \in 1 .. 3 : s[i] = t[i]
    OBVIOUS
  <2>3. u \in Seq(Block) /\ Len(u) = 3
    OBVIOUS
  <2>4. \A i \in 1 .. 3 : u[i] = t[i]
    OBVIOUS
  <2> HIDE DEF s, t, u
  <2>5. s = t /\ u = t
    BY <1>1, <2>1, <2>2, <2>3, <2>4
  <2> QED
    BY <2>5 DEF s, t, u
<1> QED
  BY <1>2, <1>3, <1>4

\* A block of a short list is taken away.
LEMMA Removes ==
    /\ \A a : Without(<<a>>, a) = <<>>
    /\ \A a, b : a # b => Without(<<a, b>>, a) = <<b>> /\ Without(<<a, b>>, b) = <<a>>
    /\ \A a, b, c : a # b /\ b # c /\ a # c =>
          Without(<<a, b, c>>, a) = <<b, c>> /\ Without(<<a, b, c>>, b) = <<a, c>>
<1>1. ASSUME NEW a PROVE Without(<<a>>, a) = <<>>
  <2> DEFINE i == CHOOSE i \in DOMAIN <<a>> : <<a>>[i] = a
  <2>1. Without(<<a>>, a) = [j \in 1 .. 0 |-> <<a>>[IF j < i THEN j ELSE j + 1]]
    BY DEF Without
  <2> QED
    BY <2>1
<1>2. ASSUME NEW a, NEW b, a # b
      PROVE  Without(<<a, b>>, a) = <<b>>
  <2> DEFINE i == CHOOSE i \in DOMAIN <<a, b>> : <<a, b>>[i] = a
  <2>1. i = 1
    BY <1>2
  <2>2. Without(<<a, b>>, a) = [j \in 1 .. 1 |-> <<a, b>>[IF j < 1 THEN j ELSE j + 1]]
    BY <2>1 DEF Without
  <2> QED
    BY <1>2, <2>2
<1>3. ASSUME NEW a, NEW b, a # b
      PROVE  Without(<<a, b>>, b) = <<a>>
  <2> DEFINE i == CHOOSE i \in DOMAIN <<a, b>> : <<a, b>>[i] = b
  <2>1. i = 2
    BY <1>3
  <2>2. Without(<<a, b>>, b) = [j \in 1 .. 1 |-> <<a, b>>[IF j < 2 THEN j ELSE j + 1]]
    BY <2>1 DEF Without
  <2> QED
    BY <1>3, <2>2
<1>4. ASSUME NEW a, NEW b, NEW c, a # b, b # c, a # c
      PROVE  Without(<<a, b, c>>, a) = <<b, c>>
  <2> DEFINE i == CHOOSE i \in DOMAIN <<a, b, c>> : <<a, b, c>>[i] = a
  <2>1. i = 1
    BY <1>4
  <2>2. Len(<<a, b, c>>) - 1 = 2
    OBVIOUS
  <2>3. Without(<<a, b, c>>, a)
            = [j \in 1 .. Len(<<a, b, c>>) - 1 |-> <<a, b, c>>[IF j < i THEN j ELSE j + 1]]
    BY DEF Without
  <2> HIDE DEF i
  <2>4. Without(<<a, b, c>>, a) = [j \in 1 .. 2 |-> <<a, b, c>>[IF j < 1 THEN j ELSE j + 1]]
    BY <2>1, <2>2, <2>3
  <2> QED
    BY <1>4, <2>4
<1>5. ASSUME NEW a, NEW b, NEW c, a # b, b # c, a # c
      PROVE  Without(<<a, b, c>>, b) = <<a, c>>
  <2> DEFINE i == CHOOSE i \in DOMAIN <<a, b, c>> : <<a, b, c>>[i] = b
  <2>1. i = 2
    BY <1>5
  <2>2. Without(<<a, b, c>>, b) = [j \in 1 .. 2 |-> <<a, b, c>>[IF j < 2 THEN j ELSE j + 1]]
    BY <2>1 DEF Without
  <2> QED
    BY <1>5, <2>2
<1> QED
  BY <1>1, <1>2, <1>3, <1>4, <1>5

\* How a short list begins and goes on.
LEMMA Openings ==
    /\ \A a \in Block : /\ <<a>> \in Seq(Block) /\ <<a>> # <<>>
                        /\ Head(<<a>>) = a /\ Tail(<<a>>) = <<>>
                        /\ Ours(<<a>>) <=> a[1] = "mark"
    /\ \A a, b \in Block : /\ <<a, b>> \in Seq(Block) /\ <<a, b>> # <<>>
                           /\ Head(<<a, b>>) = a /\ Tail(<<a, b>>) = <<b>>
                           /\ Ours(<<a, b>>) <=> a[1] = "mark"
    /\ \A a, b, c \in Block : /\ <<a, b, c>> \in Seq(Block) /\ <<a, b, c>> # <<>>
                              /\ Head(<<a, b, c>>) = a /\ Tail(<<a, b, c>>) = <<b, c>>
                              /\ Ours(<<a, b, c>>) <=> a[1] = "mark"
<1>1. ASSUME NEW a \in Block
      PROVE  /\ <<a>> \in Seq(Block) /\ <<a>> # <<>>
             /\ Head(<<a>>) = a /\ Tail(<<a>>) = <<>>
  OBVIOUS
<1>2. ASSUME NEW a \in Block, NEW b \in Block
      PROVE  /\ <<a, b>> \in Seq(Block) /\ <<a, b>> # <<>>
             /\ Head(<<a, b>>) = a /\ Tail(<<a, b>>) = <<b>>
  OBVIOUS
<1>3. ASSUME NEW a \in Block, NEW b \in Block, NEW c \in Block
      PROVE  /\ <<a, b, c>> \in Seq(Block) /\ <<a, b, c>> # <<>>
             /\ Head(<<a, b, c>>) = a /\ Tail(<<a, b, c>>) = <<b, c>>
  OBVIOUS
<1> QED
  BY <1>1, <1>2, <1>3 DEF Ours

\* The six lists there are, by the blocks of one look.
LEMMA Lists ==
    ASSUME NEW v \in Version, NEW M, NEW T, M = <<"mark", v>>, T = <<"text", v>>
    PROVE  /\ M \in Block /\ T \in Block /\ M # T /\ M # Typed /\ T # Typed
           /\ M[1] = "mark" /\ T[1] # "mark"
           /\ Listed(<<>>) /\ Listed(<<Typed>>) /\ Listed(<<T>>) /\ Listed(<<T, Typed>>)
           /\ Listed(<<M, T>>) /\ Listed(<<M, T, Typed>>)
           /\ Whole(<<M, T>>) /\ Whole(<<M, T, Typed>>) /\ Rendered(v) = <<M, T>>
<1>1. /\ M \in Block /\ T \in Block /\ M # T /\ M # Typed /\ T # Typed
      /\ M[1] = "mark" /\ T[1] # "mark"
  BY BlockFacts
<1>2. /\ Listed(<<>>) /\ Listed(<<Typed>>) /\ Listed(<<T>>) /\ Listed(<<T, Typed>>)
      /\ Listed(<<M, T>>) /\ Listed(<<M, T, Typed>>)
  BY DEF Listed
<1>3. Whole(<<M, T>>) /\ Whole(<<M, T, Typed>>) /\ Rendered(v) = <<M, T>>
  BY DEF Whole, Rendered
<1> QED
  BY <1>1, <1>2, <1>3

\* Which they are.
LEMMA ListedCases ==
    ASSUME NEW list, Listed(list)
    PROVE  \E v \in Version :
              list \in {<<>>, <<Typed>>, <<<<"text", v>>>>, <<<<"text", v>>, Typed>>,
                  <<<<"mark", v>>, <<"text", v>>>>, <<<<"mark", v>>, <<"text", v>>, Typed>>}
BY DEF Listed

\* What is still to be taken away is a list of blocks.
LEMMA ListedIsSeq ==
    ASSUME NEW list, Listed(list)
    PROVE  list \in Seq(Block)
<1>1. PICK v \in Version :
          list \in {<<>>, <<Typed>>, <<<<"text", v>>>>, <<<<"text", v>>, Typed>>,
                    <<<<"mark", v>>, <<"text", v>>>>, <<<<"mark", v>>, <<"text", v>>, Typed>>}
  BY ListedCases
<1> DEFINE M == <<"mark", v>>
           T == <<"text", v>>
<1>2. M \in Block /\ T \in Block /\ Typed \in Block
  BY BlockFacts
<1>3. list \in {<<>>, <<Typed>>, <<T>>, <<T, Typed>>, <<M, T>>, <<M, T, Typed>>}
  BY <1>1
<1> HIDE DEF M, T
<1>4. <<Typed>> \in Seq(Block) /\ <<T>> \in Seq(Block)
      /\ <<T, Typed>> \in Seq(Block) /\ <<M, T>> \in Seq(Block) /\ <<M, T, Typed>> \in Seq(Block)
  BY <1>2, Openings
<1>5. <<>> \in Seq(Block)
  OBVIOUS
<1> QED
  BY <1>3, <1>4, <1>5

\* What is a person's besides a list that is replaced.
LEMMA Fitting ==
    ASSUME NEW M \in Block, NEW T \in Block, M # Typed, T # Typed, NEW blocks
    PROVE  /\ Fits(blocks, <<>>) <=> blocks \in {<<>>, <<Typed>>}
           /\ Fits(blocks, <<Typed>>) <=> blocks = <<Typed>>
           /\ Fits(blocks, <<T>>) <=> blocks \in {<<T>>, <<Typed, T>>, <<T, Typed>>}
           /\ Fits(blocks, <<T, Typed>>) <=> blocks = <<T, Typed>>
           /\ Fits(blocks, <<M, T>>) <=> blocks \in {<<M, T>>, <<Typed, M, T>>, <<M, T, Typed>>}
           /\ Fits(blocks, <<M, T, Typed>>) <=> blocks = <<M, T, Typed>>
<1>1. Typed \in Block
  BY BlockFacts
<1>2. /\ <<Typed>> \o <<>> = <<Typed>> /\ Append(<<>>, Typed) = <<Typed>>
      /\ <<Typed>> \o <<T>> = <<Typed, T>> /\ Append(<<T>>, Typed) = <<T, Typed>>
      /\ <<Typed>> \o <<M, T>> = <<Typed, M, T>> /\ Append(<<M, T>>, Typed) = <<M, T, Typed>>
  BY <1>1, Joins
<1>3. Range(<<>>) = {} /\ Range(<<T>>) = {T} /\ Range(<<M, T>>) = {M, T}
  BY Ranges
<1>4. Range(<<Typed>>) = {Typed} /\ Range(<<T, Typed>>) = {T, Typed}
      /\ Range(<<M, T, Typed>>) = {M, T, Typed}
  BY Ranges
<1>5. Fits(blocks, <<>>) <=> blocks \in {<<>>, <<Typed>>}
  BY <1>2, <1>3 DEF Fits
<1>6. Fits(blocks, <<Typed>>) <=> blocks = <<Typed>>
  BY <1>4 DEF Fits
<1>7. Fits(blocks, <<T>>) <=> blocks \in {<<T>>, <<Typed, T>>, <<T, Typed>>}
  BY <1>2, <1>3 DEF Fits
<1>8. Fits(blocks, <<T, Typed>>) <=> blocks = <<T, Typed>>
  BY <1>4 DEF Fits
<1>9. Fits(blocks, <<M, T>>) <=> blocks \in {<<M, T>>, <<Typed, M, T>>, <<M, T, Typed>>}
  BY <1>2, <1>3 DEF Fits
<1>10. Fits(blocks, <<M, T, Typed>>) <=> blocks = <<M, T, Typed>>
  BY <1>4 DEF Fits
<1> QED
  BY <1>5, <1>6, <1>7, <1>8, <1>9, <1>10

\* The first block of a list is taken away from a body: what is left of the one
\* fits what is left of the other, and does not begin with the tool's line.
LEMMA TakesAway ==
    ASSUME NEW list, NEW blocks, Listed(list), list # <<>>, Fits(blocks, list),
           NEW rest, rest = Without(blocks, Head(list))
    PROVE  /\ Listed(Tail(list)) /\ Fits(rest, Tail(list))
           /\ Range(Tail(list)) \subseteq Range(list)
           /\ rest \in Seq(Block) /\ (Ours(rest) => rest = <<>>)
<1>1. PICK v \in Version :
          list \in {<<Typed>>, <<<<"text", v>>>>, <<<<"text", v>>, Typed>>,
                    <<<<"mark", v>>, <<"text", v>>>>, <<<<"mark", v>>, <<"text", v>>, Typed>>}
  BY ListedCases
<1> DEFINE M == <<"mark", v>>
           T == <<"text", v>>
           Goal == /\ Listed(Tail(list)) /\ Fits(rest, Tail(list))
                   /\ Range(Tail(list)) \subseteq Range(list)
                   /\ rest \in Seq(Block) /\ (Ours(rest) => rest = <<>>)
<1>2. /\ M \in Block /\ T \in Block /\ Typed \in Block /\ M # T /\ M # Typed /\ T # Typed
      /\ M[1] = "mark" /\ T[1] # "mark" /\ Typed[1] # "mark"
  BY BlockFacts
<1>3. list \in {<<Typed>>, <<T>>, <<T, Typed>>, <<M, T>>, <<M, T, Typed>>}
  BY <1>1
<1>4. /\ Listed(<<>>) /\ Listed(<<Typed>>) /\ Listed(<<T>>) /\ Listed(<<T, Typed>>)
  BY Lists
<1> SUFFICES Goal
  OBVIOUS
<1> HIDE DEF M, T
<1>5. /\ <<Typed>> \in Seq(Block) /\ <<T>> \in Seq(Block)
      /\ <<T, Typed>> \in Seq(Block) /\ <<Typed, T>> \in Seq(Block)
  BY <1>2, Openings
<1>6. <<>> \in Seq(Block) /\ ~Ours(<<Typed>>) /\ ~Ours(<<T>>) /\ ~Ours(<<T, Typed>>)
      /\ ~Ours(<<Typed, T>>)
  BY <1>2, Openings
<1>7. CASE list = <<Typed>>
  <2>1. Head(list) = Typed /\ Tail(list) = <<>> /\ Range(list) = {Typed} /\ Range(<<>>) = {}
    BY <1>2, <1>7, Openings, Ranges
  <2>2. blocks = <<Typed>>
    BY <1>2, <1>7, Fitting
  <2>3. rest = <<>>
    BY <2>1, <2>2, Removes
  <2>4. Fits(rest, <<>>)
    BY <1>2, <2>3, Fitting
  <2> QED
    BY <1>4, <1>6, <2>1, <2>3, <2>4
<1>8. CASE list = <<T>>
  <2>1. Head(list) = T /\ Tail(list) = <<>> /\ Range(list) = {T} /\ Range(<<>>) = {}
    BY <1>2, <1>8, Openings, Ranges
  <2>2. blocks \in {<<T>>, <<Typed, T>>, <<T, Typed>>}
    BY <1>2, <1>8, Fitting
  <2>3. rest \in {<<>>, <<Typed>>}
    BY <1>2, <2>1, <2>2, Removes
  <2>4. Fits(rest, <<>>)
    BY <1>2, <2>3, Fitting
  <2>5. rest \in Seq(Block) /\ (Ours(rest) => rest = <<>>)
    BY <1>5, <1>6, <2>3
  <2> QED
    BY <1>4, <2>1, <2>4, <2>5
<1>9. CASE list = <<T, Typed>>
  <2>1. Head(list) = T /\ Tail(list) = <<Typed>> /\ Range(list) = {T, Typed}
        /\ Range(<<Typed>>) = {Typed}
    BY <1>2, <1>9, Openings, Ranges
  <2>2. blocks = <<T, Typed>>
    BY <1>2, <1>9, Fitting
  <2>3. rest = <<Typed>>
    BY <1>2, <2>1, <2>2, Removes
  <2>4. Fits(rest, <<Typed>>)
    BY <1>2, <2>3, Fitting
  <2>5. rest \in Seq(Block) /\ (Ours(rest) => rest = <<>>)
    BY <1>5, <1>6, <2>3
  <2> QED
    BY <1>4, <2>1, <2>4, <2>5
<1>10. CASE list = <<M, T>>
  <2>1. Head(list) = M /\ Tail(list) = <<T>> /\ Range(list) = {M, T} /\ Range(<<T>>) = {T}
    BY <1>2, <1>10, Openings, Ranges
  <2>2. blocks \in {<<M, T>>, <<Typed, M, T>>, <<M, T, Typed>>}
    BY <1>2, <1>10, Fitting
  <2>3. rest \in {<<T>>, <<Typed, T>>, <<T, Typed>>}
    BY <1>2, <2>1, <2>2, Removes
  <2>4. Fits(rest, <<T>>)
    BY <1>2, <2>3, Fitting
  <2>5. rest \in Seq(Block) /\ (Ours(rest) => rest = <<>>)
    BY <1>5, <1>6, <2>3
  <2> QED
    BY <1>4, <2>1, <2>4, <2>5
<1>11. CASE list = <<M, T, Typed>>
  <2>1. Head(list) = M /\ Tail(list) = <<T, Typed>> /\ Range(list) = {M, T, Typed}
        /\ Range(<<T, Typed>>) = {T, Typed}
    BY <1>2, <1>11, Openings, Ranges
  <2>2. blocks = <<M, T, Typed>>
    BY <1>2, <1>11, Fitting
  <2>3. rest = <<T, Typed>>
    BY <1>2, <2>1, <2>2, Removes
  <2>4. Fits(rest, <<T, Typed>>)
    BY <1>2, <2>3, Fitting
  <2>5. rest \in Seq(Block) /\ (Ours(rest) => rest = <<>>)
    BY <1>5, <1>6, <2>3
  <2> QED
    BY <1>4, <2>1, <2>4, <2>5
<1> QED
  BY <1>3, <1>7, <1>8, <1>9, <1>10, <1>11

\* A body that begins with the tool's line, while it is replaced, is whole; and
\* one that does not, and is not empty, has a person's block or is torn.
LEMMA StillWhole ==
    ASSUME NEW list, NEW blocks, Listed(list), Fits(blocks, list), Ours(blocks), blocks # <<>>
    PROVE  Whole(blocks)
<1>1. PICK v \in Version :
          list \in {<<>>, <<Typed>>, <<<<"text", v>>>>, <<<<"text", v>>, Typed>>,
                    <<<<"mark", v>>, <<"text", v>>>>, <<<<"mark", v>>, <<"text", v>>, Typed>>}
  BY ListedCases
<1> DEFINE M == <<"mark", v>>
           T == <<"text", v>>
<1>2. /\ M \in Block /\ T \in Block /\ Typed \in Block /\ M # T /\ M # Typed /\ T # Typed
      /\ M[1] = "mark" /\ T[1] # "mark" /\ Typed[1] # "mark"
  BY BlockFacts
<1>3. list \in {<<>>, <<Typed>>, <<T>>, <<T, Typed>>, <<M, T>>, <<M, T, Typed>>}
  BY <1>1
<1>4. Whole(<<M, T>>) /\ Whole(<<M, T, Typed>>)
  BY Lists
<1> HIDE DEF M, T
<1>5. Head(blocks)[1] = "mark"
  BY DEF Ours
<1>6. blocks \in {<<>>, <<Typed>>, <<T>>, <<T, Typed>>, <<Typed, T>>, <<M, T>>,
                  <<M, T, Typed>>, <<Typed, M, T>>}
  <2>1. /\ Fits(blocks, <<>>) <=> blocks \in {<<>>, <<Typed>>}
        /\ Fits(blocks, <<Typed>>) <=> blocks = <<Typed>>
        /\ Fits(blocks, <<T>>) <=> blocks \in {<<T>>, <<Typed, T>>, <<T, Typed>>}
        /\ Fits(blocks, <<T, Typed>>) <=> blocks = <<T, Typed>>
        /\ Fits(blocks, <<M, T>>) <=> blocks \in {<<M, T>>, <<Typed, M, T>>, <<M, T, Typed>>}
        /\ Fits(blocks, <<M, T, Typed>>) <=> blocks = <<M, T, Typed>>
    BY <1>2, Fitting
  <2> QED
    BY <1>3, <2>1
<1>7. /\ Head(<<Typed>>) = Typed /\ Head(<<T>>) = T /\ Head(<<T, Typed>>) = T
      /\ Head(<<Typed, T>>) = Typed /\ Head(<<Typed, M, T>>) = Typed
  BY <1>2, Openings
<1> QED
  BY <1>2, <1>4, <1>5, <1>6, <1>7

-----------------------------------------------------------------------------
\* What is left of the page loses its first block.
LEMMA Shrinks ==
    ASSUME NEW list, Leftover(list), list # <<>>
    PROVE  Without(list, Head(list)) = Tail(list) /\ Leftover(Tail(list))
<1>1. PICK v \in Version : list \in {<<<<"text", v>>>>, <<<<"mark", v>>, <<"text", v>>>>}
  BY DEF Leftover
<1> DEFINE M == <<"mark", v>>
           T == <<"text", v>>
<1>2. M \in Block /\ T \in Block /\ M # T
  BY BlockFacts
<1>3. list \in {<<T>>, <<M, T>>} /\ Leftover(<<>>) /\ Leftover(<<T>>)
  BY <1>1 DEF Leftover
<1> HIDE DEF M, T
<1>4. CASE list = <<T>>
  <2>1. Head(list) = T /\ Tail(list) = <<>>
    BY <1>2, <1>4, Openings
  <2> QED
    BY <1>3, <1>4, <2>1, Removes
<1>5. CASE list = <<M, T>>
  <2>1. Head(list) = M /\ Tail(list) = <<T>>
    BY <1>2, <1>5, Openings
  <2> QED
    BY <1>2, <1>3, <1>5, <2>1, Removes
<1> QED
  BY <1>3, <1>4, <1>5

\* What is written is the tool's two blocks, below what is left.
LEMMA Renders ==
    ASSUME NEW v \in Version
    PROVE  /\ Leftover(Rendered(v)) /\ <<>> \o Rendered(v) = Rendered(v)
           /\ Whole(Rendered(v)) /\ Rendered(v) \in Seq(Block)
           /\ Typed \notin Range(Rendered(v))
           /\ <<Typed>> \o Rendered(v) \in Seq(Block) /\ ~Ours(<<Typed>> \o Rendered(v))
           /\ Range(<<Typed>> \o Rendered(v)) = {Typed} \cup Range(Rendered(v))
<1> DEFINE M == <<"mark", v>>
           T == <<"text", v>>
<1>1. M \in Block /\ T \in Block /\ Typed \in Block /\ M # Typed /\ T # Typed /\ Typed[1] # "mark"
  BY BlockFacts
<1>2. Rendered(v) = <<M, T>> /\ Leftover(<<M, T>>) /\ Whole(<<M, T>>)
  BY DEF Rendered, Leftover, Whole
<1> HIDE DEF M, T
<1>3. <<>> \o <<M, T>> = <<M, T>> /\ <<Typed>> \o <<M, T>> = <<Typed, M, T>>
  BY <1>1, Joins
<1>4. Range(<<M, T>>) = {M, T} /\ Range(<<Typed, M, T>>) = {Typed, M, T}
  BY Ranges
<1>5. <<M, T>> \in Seq(Block) /\ <<Typed, M, T>> \in Seq(Block) /\ ~Ours(<<Typed, M, T>>)
  BY <1>1, Openings
<1>6. {Typed, M, T} = {Typed} \cup {M, T} /\ Typed \notin {M, T}
  BY <1>1
<1> DEFINE w == Rendered(v)
<1>7. w = <<M, T>>
  BY <1>2
<1> HIDE DEF w
<1>8. /\ Leftover(w) /\ <<>> \o w = w /\ Whole(w) /\ w \in Seq(Block) /\ Typed \notin Range(w)
  BY <1>2, <1>3, <1>4, <1>5, <1>6, <1>7
<1>9. /\ <<Typed>> \o w \in Seq(Block) /\ ~Ours(<<Typed>> \o w)
      /\ Range(<<Typed>> \o w) = {Typed} \cup Range(w)
  BY <1>3, <1>4, <1>5, <1>6, <1>7
<1> QED
  BY <1>8, <1>9 DEF w

\* A body whose list is used up is written: the result is whole, or what
\* somebody typed meanwhile stands above the tool's line.
LEMMA Writing ==
    ASSUME NEW v \in Version, NEW blocks, Fits(blocks, <<>>),
           NEW new, new = blocks \o Rendered(v)
    PROVE  /\ new \in Seq(Block) /\ Range(Rendered(v)) \subseteq Range(new)
           /\ Whole(new) \/ (~Ours(new) /\ Typed \in Range(new))
           /\ Ours(new) => Typed \notin Range(new)
<1>1. blocks = <<>> \/ blocks = <<Typed>>
  <2>1. <<"mark", v>> \in Block /\ <<"text", v>> \in Block
        /\ <<"mark", v>> # Typed /\ <<"text", v>> # Typed
    BY BlockFacts
  <2> QED
    BY <2>1, Fitting
<1>2. CASE blocks = <<>>
  BY <1>2, Renders
<1>3. CASE blocks = <<Typed>>
  BY <1>3, Renders
<1> QED
  BY <1>1, <1>2, <1>3

-----------------------------------------------------------------------------
\* The page.
LEMMA PageStep ==
    ASSUME Inv, [Next]_vars
    PROVE  PageInv'
<1>1. payload \in Version /\ PageInv /\ company \in Version
  BY DEF Inv, TypeOK
<1>2. ASSUME page' = page, payload' = payload, pc' # "page", pc' \in AfterPage => pc \in AfterPage
      PROVE  PageInv'
  BY <1>1, <1>2 DEF PageInv
<1>3. ASSUME UNCHANGED <<page, payload, pc, todo>> PROVE PageInv'
  BY <1>1, <1>3 DEF PageInv
<1>4. CASE Begin
  BY <1>1, <1>4 DEF Begin, PageInv, AfterPage, shown
<1>5. CASE Create
  BY <1>1, <1>5, Renders DEF Create, PageInv, AfterPage
<1>6. CASE ListPage
  BY <1>1, <1>6 DEF ListPage, PageInv, AfterPage, shown
<1>7. CASE DeletePageBlock
  <2>1. page = todo /\ Leftover(page) /\ page # <<>>
    BY <1>1, <1>7 DEF DeletePageBlock, PageInv
  <2>2. page' = Tail(todo) /\ todo' = Tail(todo) /\ Leftover(Tail(todo)) /\ pc' = "page"
    BY <1>7, <2>1, Shrinks DEF DeletePageBlock, PageInv
  <2> QED
    BY <2>2 DEF PageInv, AfterPage
<1>8. CASE WritePage
  <2>1. page = <<>> /\ page' = page \o Rendered(payload) /\ pc' = "rows" /\ payload' = payload
    BY <1>1, <1>8 DEF WritePage, PageInv
  <2>2. page' = Rendered(payload) /\ Leftover(Rendered(payload))
    BY <1>1, <2>1, Renders
  <2> QED
    BY <2>1, <2>2 DEF PageInv
<1>9. CASE PageFails
  <2>1. pc' = "idle" /\ payload' = payload
    BY <1>9 DEF PageFails, End
  <2>2. \/ page' = Rendered(payload) \/ page' = page
        \/ pc = "page" /\ todo # <<>> /\ page' = Without(page, Head(todo))
        \/ pc = "page" /\ todo = <<>> /\ page' = page \o Rendered(payload)
    BY <1>9 DEF PageFails
  <2>3. page' = None \/ Leftover(page')
    BY <1>1, <2>2, Renders, Shrinks DEF PageInv
  <2> QED
    BY <2>1, <2>3 DEF PageInv, AfterPage
<1>10. CASE BeginFails \/ ListRows \/ DeleteRowBlock \/ WriteRow \/ RowsDone
  BY <1>2, <1>10 DEF BeginFails, ListRows, DeleteRowBlock, WriteRow, RowsDone, End,
                     AfterPage, shown
<1>11. CASE RowsFail \/ ListNotes \/ NotesDone \/ NotesFail
  BY <1>2, <1>11 DEF RowsFail, RowCallFails, ListNotes, NotesDone, NotesFail, NoteCallFails,
                     AfterPage, shown
<1>12. CASE Describe \/ DescribeFails \/ Raises \/ Crash
  BY <1>2, <1>12 DEF Describe, DescribeFails, Raises, Crash, End, AfterPage
<1>13. ASSUME NEW r \in Row, SkipRow(r) \/ OpenRow(r) \/ SetNote(r) PROVE PageInv'
  BY <1>2, <1>13 DEF SkipRow, OpenRow, SetNote, AfterPage, shown
<1>14. ASSUME NEW r \in Row, TypeText(r) \/ EmptyRow(r) \/ TypeNote(r) PROVE PageInv'
  BY <1>3, <1>14 DEF TypeText, EmptyRow, TypeNote, run
<1>15. CASE Work \/ UNCHANGED vars
  BY <1>3, <1>15 DEF Work, vars, run, shown
<1> QED
  BY <1>4, <1>5, <1>6, <1>7, <1>8, <1>9, <1>10, <1>11, <1>12, <1>13, <1>14, <1>15
     DEF Next, Step, Failure, People

-----------------------------------------------------------------------------
\* The body that is being replaced, after a call that took its first block
\* away, or wrote it, or had no effect: it is a list of blocks, and if it begins
\* with the tool's line it is whole, and a person who typed below is warned.
LEMMA Replaced ==
    ASSUME Inv, pc = "body",
           \/ todo # <<>> /\ body' = Deleted(current)
           \/ todo = <<>> /\ body' = Written(current)
           \/ body' = body
    PROVE  /\ current \in Row /\ body' \in [Row -> Seq(Block)]
           /\ \A r \in Row \ {current} : body'[r] = body[r]
           /\ body'[current] # <<>> /\ Ours(body'[current]) =>
                 /\ Whole(body'[current])
                 /\ Typed \in Range(body'[current]) => current \in warned
<1> DEFINE b == body[current]
<1>1. /\ payload \in Version /\ body \in [Row -> Seq(Block)] /\ rows \subseteq Row
      /\ current \in rows /\ Listed(todo) /\ Fits(b, todo)
  BY DEF Inv, TypeOK, ReplacedInv
<1>2. current \in Row /\ b \in Seq(Block)
  BY <1>1
<1>3. b # <<>> /\ Ours(b) /\ Typed \in Range(b) => current \in warned
  BY <1>2 DEF Inv, BodiesInv
<1>4. CASE todo # <<>> /\ body' = Deleted(current)
  <2> DEFINE n == Without(b, Head(todo))
  <2>1. body' = [body EXCEPT ![current] = n]
    BY <1>4 DEF Deleted
  <2>2. n \in Seq(Block) /\ (Ours(n) => n = <<>>)
    BY <1>1, <1>4, TakesAway
  <2> HIDE DEF n
  <2> QED
    BY <1>1, <1>2, <2>1, <2>2
<1>5. CASE todo = <<>> /\ body' = Written(current)
  <2> DEFINE n == b \o Rendered(payload)
  <2>1. body' = [body EXCEPT ![current] = n]
    BY <1>5 DEF Written
  <2>2. n \in Seq(Block) /\ (Whole(n) \/ ~Ours(n)) /\ (Ours(n) => Typed \notin Range(n))
    BY <1>1, <1>5, Writing
  <2> HIDE DEF n
  <2> QED
    BY <1>1, <1>2, <2>1, <2>2
<1>6. CASE body' = body
  <2>1. b # <<>> /\ Ours(b) => Whole(b)
    BY <1>1, StillWhole
  <2>2. body'[current] = b
    BY <1>6
  <2> HIDE DEF b
  <2> QED
    BY <1>1, <1>2, <1>3, <1>6, <2>1, <2>2
<1> QED
  BY <1>4, <1>5, <1>6

\* Somebody types into a body.
LEMMA Types ==
    ASSUME NEW blocks \in Seq(Block), Typed \notin Range(blocks), NEW new,
           new = Append(blocks, Typed) \/ (blocks # <<>> /\ new = <<Typed>> \o blocks)
    PROVE  /\ new \in Seq(Block) /\ new # <<>> /\ Range(new) = Range(blocks) \cup {Typed}
           /\ Ours(new) => blocks # <<>> /\ Ours(blocks) /\ new = Append(blocks, Typed)
           /\ Whole(blocks) => Whole(new) \/ ~Ours(new)
           /\ ~Ours(<<Typed>> \o blocks)
<1>1. Typed \in Block /\ Typed[1] # "mark"
  BY BlockFacts
<1>2. /\ new \in Seq(Block) /\ new # <<>> /\ Range(new) = Range(blocks) \cup {Typed}
  <2>1. /\ Append(blocks, Typed) \in Seq(Block) /\ Append(blocks, Typed) # <<>>
        /\ Range(Append(blocks, Typed)) = Range(blocks) \cup {Typed}
    BY <1>1, Typing
  <2>2. /\ <<Typed>> \o blocks \in Seq(Block) /\ <<Typed>> \o blocks # <<>>
        /\ Range(<<Typed>> \o blocks) = Range(blocks) \cup {Typed}
    <3>1. Range(<<Typed>> \o blocks) = {Typed} \cup Range(blocks)
      BY <1>1, Typing
    <3> QED
      BY <1>1, <3>1, Typing
  <2> QED
    BY <2>1, <2>2
<1>3. ASSUME Ours(new) PROVE blocks # <<>> /\ Ours(blocks) /\ new = Append(blocks, Typed)
  <2>1. Head(new)[1] = "mark"
    BY <1>2, <1>3 DEF Ours
  <2>2. Head(<<Typed>> \o blocks) = Typed /\ Append(<<>>, Typed) = <<Typed>>
        /\ Head(<<Typed>>) = Typed
    BY <1>1, Typing, Joins, Openings
  <2>3. new = Append(blocks, Typed) /\ blocks # <<>>
    BY <1>1, <2>1, <2>2
  <2>4. Head(new) = Head(blocks)
    BY <1>1, <2>3, Typing
  <2> QED
    BY <2>1, <2>3, <2>4 DEF Ours
<1>4. ASSUME Whole(blocks), Ours(new) PROVE Whole(new)
  <2>1. PICK v \in Version :
            blocks \in {<<<<"mark", v>>, <<"text", v>>>>, <<<<"mark", v>>, <<"text", v>>, Typed>>}
    BY <1>4 DEF Whole
  <2> DEFINE M == <<"mark", v>>
             T == <<"text", v>>
  <2>2. M \in Block /\ T \in Block
    BY BlockFacts
  <2>3. blocks \in {<<M, T>>, <<M, T, Typed>>} /\ Whole(<<M, T, Typed>>)
    BY <2>1 DEF Whole
  <2> HIDE DEF M, T
  <2>4. blocks = <<M, T>>
    BY <2>3, Ranges
  <2>5. new = <<M, T, Typed>>
    BY <1>1, <1>3, <1>4, <2>2, <2>4, Joins
  <2> QED
    BY <2>3, <2>5
<1>5. ~Ours(<<Typed>> \o blocks)
  BY <1>1, Typing DEF Ours
<1> QED
  BY <1>2, <1>3, <1>4, <1>5

\* A whole body begins with the tool's line.
LEMMA WholeIsOurs ==
    ASSUME NEW blocks, Whole(blocks)
    PROVE  Ours(blocks)
<1>1. PICK v \in Version :
          blocks \in {<<<<"mark", v>>, <<"text", v>>>>, <<<<"mark", v>>, <<"text", v>>, Typed>>}
  BY DEF Whole
<1>2. Head(blocks) = <<"mark", v>>
  BY <1>1, BlockFacts, Openings
<1> QED
  BY <1>2, BlockFacts DEF Ours

-----------------------------------------------------------------------------
\* The types.
LEMMA TypeStep ==
    ASSUME Inv, [Next]_vars
    PROVE  TypeOK'
<1>1. /\ TypeOK /\ Sourced[payload] \subseteq Row
  BY SourcedAssumption DEF Inv, TypeOK
<1>2. None \notin Row
  BY NamesAssumption
<1>3. CASE Begin \/ BeginFails
  <2>1. failed' \subseteq {"rows", "notes", "description", "port"}
    BY <1>3 DEF Begin, BeginFails
  <2> QED
    BY <1>1, <1>3, <2>1 DEF TypeOK, Begin, BeginFails, End, shown, history
<1>4. CASE Create \/ ListPage \/ DeletePageBlock \/ WritePage
  BY <1>1, <1>4 DEF TypeOK, Create, ListPage, DeletePageBlock, WritePage, shown, history
<1>5. CASE PageFails
  BY <1>1, <1>5 DEF TypeOK, PageFails, End, history
<1>6. CASE ListRows \/ RowsDone \/ ListNotes \/ NotesDone
  BY <1>1, <1>6 DEF TypeOK, ListRows, RowsDone, ListNotes, NotesDone, shown, history
<1>7. ASSUME NEW r \in Row, SkipRow(r) \/ OpenRow(r) PROVE TypeOK'
  BY <1>1, <1>7 DEF TypeOK, SkipRow, OpenRow, shown, history
<1>8. CASE DeleteRowBlock
  <2>1. body' \in [Row -> Seq(Block)]
    BY <1>8, Replaced DEF DeleteRowBlock
  <2> QED
    BY <1>1, <1>8, <2>1 DEF TypeOK, DeleteRowBlock, history
<1>9. CASE WriteRow
  <2>1. body' \in [Row -> Seq(Block)]
    BY <1>9, Replaced DEF WriteRow
  <2> QED
    BY <1>1, <1>9, <2>1 DEF TypeOK, WriteRow, history
<1>10. CASE RowsFail
  <2>1. body' \in [Row -> Seq(Block)]
    BY <1>1, <1>10, Replaced DEF RowsFail, RowCallFails, TypeOK
  <2>2. torn' \subseteq Row
    BY <1>1, <1>10 DEF RowsFail, RowCallFails, Tears, TypeOK
  <2> QED
    BY <1>1, <1>10, <2>1, <2>2 DEF TypeOK, RowsFail
<1>11. ASSUME NEW r \in Row, SetNote(r) PROVE TypeOK'
  <2>1. note' \in [Row -> Nat \cup {Person}]
    BY <1>1, <1>11 DEF TypeOK, SetNote, Version
  <2> QED
    BY <1>1, <1>11, <2>1 DEF TypeOK, SetNote, history
<1>12. CASE NotesFail
  <2>1. note' \in [Row -> Nat \cup {Person}]
    <3>1. note' = note \/ \E r \in rows : note' = [note EXCEPT ![r] = payload]
      BY <1>12 DEF NotesFail, NoteCallFails
    <3> QED
      BY <1>1, <3>1 DEF TypeOK, Version
  <2> QED
    BY <1>1, <1>12, <2>1 DEF TypeOK, NotesFail, history
<1>13. CASE Describe \/ DescribeFails
  <2>1. description' \in Nat
    BY <1>1, <1>13 DEF TypeOK, Describe, DescribeFails, DescriptionCallFails, Version
  <2>2. failed' \subseteq {"rows", "notes", "description", "port"} /\ exit' \in {0, 1, 3, None}
    BY <1>1, <1>13 DEF TypeOK, Describe, DescribeFails, End, ExitOf
  <2> QED
    BY <1>1, <1>13, <2>1, <2>2 DEF TypeOK, Describe, DescribeFails, End, history
<1>14. CASE Crash
  <2>1. torn' \subseteq Row
    BY <1>1, <1>14 DEF Crash, Tears, TypeOK
  <2> QED
    BY <1>1, <1>14, <2>1 DEF TypeOK, Crash, End
<1>15. CASE Work
  <2>1. company' \in Version
    BY <1>1, <1>15, BoundsAssumption DEF TypeOK, Work, Version
  <2> QED
    BY <1>1, <1>15, <2>1 DEF TypeOK, Work, shown, run, history
<1>16. ASSUME NEW r \in Row, TypeText(r) PROVE TypeOK'
  <2>1. PICK new : body' = [body EXCEPT ![r] = new]
                   /\ (new = Append(body[r], Typed)
                       \/ (body[r] # <<>> /\ new = <<Typed>> \o body[r]))
    BY <1>16 DEF TypeText
  <2>2. new \in Seq(Block)
    BY <1>1, <1>16, <2>1, Types DEF TypeOK, TypeText
  <2>3. body' \in [Row -> Seq(Block)]
    BY <1>1, <2>1, <2>2 DEF TypeOK
  <2>4. warned' \subseteq Row
    BY <1>1, <1>16 DEF TypeOK, TypeText
  <2> QED
    BY <1>1, <1>16, <2>3, <2>4 DEF TypeOK, TypeText, run
<1>17. ASSUME NEW r \in Row, EmptyRow(r) \/ TypeNote(r) PROVE TypeOK'
  <2>1. <<>> \in Seq(Block)
    OBVIOUS
  <2>2. body' \in [Row -> Seq(Block)]
    BY <1>1, <1>17, <2>1 DEF TypeOK, EmptyRow, TypeNote
  <2>3. note' \in [Row -> Nat \cup {Person}] /\ torn' \subseteq Row /\ late' \subseteq Row
    BY <1>1, <1>17 DEF TypeOK, EmptyRow, TypeNote
  <2> QED
    BY <1>1, <1>17, <2>2, <2>3 DEF TypeOK, EmptyRow, TypeNote, run
<1>18. CASE UNCHANGED vars
  BY <1>1, <1>18 DEF TypeOK, vars, shown, run, history
<1>19. CASE Raises
  <2>1. body' \in [Row -> Seq(Block)]
    BY <1>1, <1>19, Replaced DEF Raises, RowCallFails, TypeOK
  <2>2. torn' \subseteq Row
    BY <1>1, <1>19 DEF Raises, RowCallFails, Tears, TypeOK
  <2>3. note' \in [Row -> Nat \cup {Person}] /\ description' \in Nat
    BY <1>1, <1>19 DEF Raises, NoteCallFails, DescriptionCallFails, TypeOK, Version
  <2> QED
    BY <1>1, <1>19, <2>1, <2>2, <2>3 DEF TypeOK, Raises, End
<1> QED
  BY <1>3, <1>4, <1>5, <1>6, <1>7, <1>8, <1>9, <1>10, <1>11, <1>12, <1>13, <1>14, <1>15,
     <1>16, <1>17, <1>18, <1>19 DEF Next, Step, Failure, People

-----------------------------------------------------------------------------
\* A body that is not one's own to settle is not touched by the others.
LEMMA SettledStays ==
    ASSUME NEW r \in Row, AtRest(r), body'[r] = body[r], torn \subseteq torn'
    PROVE  AtRest(r)'
BY DEF AtRest

\* The bodies.
LEMMA BodiesStep ==
    ASSUME Inv, [Next]_vars
    PROVE  BodiesInv'
<1>1. /\ body \in [Row -> Seq(Block)] /\ torn \subseteq Row /\ warned \subseteq Row
      /\ pc # "body" => current = None
      /\ BodiesInv
  BY DEF Inv, TypeOK, ReplacedInv
<1>2. None \notin Row
  BY NamesAssumption
<1>3. ASSUME body' = body, warned' = warned, torn' = torn,
             current' = current \/ current = None
      PROVE  BodiesInv'
  <2> SUFFICES ASSUME NEW r \in Row
               PROVE  /\ r # current' => AtRest(r)'
                      /\ body'[r] # <<>> /\ Ours(body'[r]) /\ Typed \in Range(body'[r])
                            => r \in warned'
    BY DEF BodiesInv
  <2>1. r # current' => r # current
    BY <1>2, <1>3
  <2>2. body'[r] = body[r] /\ warned' = warned /\ torn \subseteq torn'
    BY <1>3
  <2> QED
    BY <1>1, <2>1, <2>2, SettledStays DEF BodiesInv
<1>4. CASE Begin \/ BeginFails \/ Create \/ ListPage \/ DeletePageBlock \/ WritePage
  BY <1>1, <1>3, <1>4 DEF Begin, BeginFails, Create, ListPage, DeletePageBlock, WritePage,
                          shown, history
<1>5. CASE PageFails
  BY <1>1, <1>3, <1>5 DEF PageFails, history
<1>6. CASE ListRows \/ RowsDone \/ ListNotes \/ NotesDone \/ NotesFail
  BY <1>3, <1>6 DEF ListRows, RowsDone, ListNotes, NotesDone, NotesFail, NoteCallFails, shown,
                    history
<1>7. CASE Describe \/ DescribeFails
  BY <1>1, <1>3, <1>7 DEF Describe, DescribeFails, DescriptionCallFails, history
<1>8. ASSUME NEW r \in Row, SkipRow(r) \/ OpenRow(r) \/ SetNote(r) PROVE BodiesInv'
  BY <1>1, <1>3, <1>8 DEF SkipRow, OpenRow, SetNote, shown, history
<1>9. ASSUME NEW r \in Row, TypeNote(r) PROVE BodiesInv'
  BY <1>3, <1>9 DEF TypeNote, run
<1>10. CASE Work \/ UNCHANGED vars
  BY <1>3, <1>10 DEF Work, vars, shown, run, history
<1>11. CASE DeleteRowBlock
  <2>1. /\ pc = "body" /\ todo # <<>> /\ body' = Deleted(current)
        /\ UNCHANGED <<current, warned, torn>>
    BY <1>11 DEF DeleteRowBlock, history
  <2>2. \A r \in Row \ {current} : body'[r] = body[r]
    BY <2>1, Replaced
  <2>3. body'[current] # <<>> /\ Ours(body'[current]) /\ Typed \in Range(body'[current])
            => current \in warned
    BY <2>1, Replaced
  <2> SUFFICES ASSUME NEW r \in Row
               PROVE  /\ r # current' => AtRest(r)'
                      /\ body'[r] # <<>> /\ Ours(body'[r]) /\ Typed \in Range(body'[r])
                            => r \in warned'
    BY DEF BodiesInv
  <2>4. CASE r = current
    BY <2>1, <2>3, <2>4
  <2>5. CASE r # current
    BY <1>1, <2>1, <2>2, <2>5, SettledStays DEF BodiesInv
  <2> QED
    BY <2>4, <2>5
<1>12. CASE WriteRow
  <2>1. pc = "body" /\ todo = <<>> /\ body' = Written(current) /\ UNCHANGED <<warned, torn>>
    BY <1>12 DEF WriteRow, history
  <2>2. /\ current \in Row /\ \A r \in Row \ {current} : body'[r] = body[r]
    BY <2>1, Replaced
  <2>3. body'[current] # <<>> /\ Ours(body'[current]) /\ Typed \in Range(body'[current])
            => current \in warned
    BY <2>1, Replaced
  <2>4. Whole(body'[current]) \/ (~Ours(body'[current]) /\ Typed \in Range(body'[current]))
    <3>1. payload \in Version /\ Fits(body[current], <<>>)
      BY <2>1 DEF Inv, TypeOK, ReplacedInv
    <3>2. body'[current] = body[current] \o Rendered(payload)
      BY <1>1, <2>1, <2>2 DEF Written
    <3> QED
      BY <3>1, <3>2, Writing
  <2> SUFFICES ASSUME NEW r \in Row
               PROVE  /\ AtRest(r)'
                      /\ body'[r] # <<>> /\ Ours(body'[r]) /\ Typed \in Range(body'[r])
                            => r \in warned'
    BY DEF BodiesInv
  <2>5. CASE r = current
    BY <2>1, <2>3, <2>4, <2>5 DEF AtRest
  <2>6. CASE r # current
    BY <1>1, <2>1, <2>2, <2>6, SettledStays DEF BodiesInv
  <2> QED
    BY <2>5, <2>6
<1>13. ASSUME RowsFail \/ (Raises /\ RowCallFails) \/ Crash PROVE BodiesInv'
  <2>1. /\ \/ pc = "body" /\ \/ todo # <<>> /\ body' = Deleted(current)
                             \/ todo = <<>> /\ body' = Written(current)
           \/ body' = body
        /\ warned' = warned /\ current' = None
    BY <1>13 DEF RowsFail, Raises, RowCallFails, Crash, End
  <2>2. torn' = torn \cup {r \in Row : body'[r] # <<>> /\ ~Ours(body'[r]) /\ r = current}
    BY <1>13 DEF RowsFail, RowCallFails, Crash, Tears
  <2>3. CASE pc # "body"
    <3>1. body' = body /\ torn' = torn /\ current = None
      BY <1>1, <1>2, <2>1, <2>2, <2>3
    <3> QED
      BY <1>3, <2>1, <3>1
  <2>4. CASE pc = "body"
    <3>1. /\ current \in Row
          /\ \A r \in Row \ {current} : body'[r] = body[r]
          /\ body'[current] # <<>> /\ Ours(body'[current]) =>
                 /\ Whole(body'[current])
                 /\ Typed \in Range(body'[current]) => current \in warned
      BY <2>1, <2>4, Replaced
    <3>2. torn \subseteq torn'
          /\ (body'[current] # <<>> /\ ~Ours(body'[current]) => current \in torn')
      BY <2>2, <3>1
    <3> SUFFICES ASSUME NEW r \in Row
                 PROVE  /\ AtRest(r)'
                        /\ body'[r] # <<>> /\ Ours(body'[r]) /\ Typed \in Range(body'[r])
                              => r \in warned'
      BY DEF BodiesInv
    <3>3. CASE r = current
      BY <2>1, <3>1, <3>2, <3>3 DEF AtRest
    <3>4. CASE r # current
      BY <1>1, <2>1, <3>1, <3>2, <3>4, SettledStays DEF BodiesInv
    <3> QED
      BY <3>3, <3>4
  <2> QED
    BY <2>3, <2>4
<1>14. ASSUME NEW r \in Row, TypeText(r) PROVE BodiesInv'
  <2>1. PICK new :
            /\ body' = [body EXCEPT ![r] = new]
            /\ new = Append(body[r], Typed) \/ (body[r] # <<>> /\ new = <<Typed>> \o body[r])
            /\ \/ body[r] # <<>> /\ Ours(body[r]) => r \in warned'
               \/ new = <<Typed>> \o body[r]
    BY <1>14 DEF TypeText
  <2>2. Typed \notin Range(body[r]) /\ body[r] \in Seq(Block)
    BY <1>1, <1>14 DEF TypeText
  <2>3. /\ torn' = torn /\ current' = current
        /\ \A q \in Row \ {r} : q \in warned => q \in warned'
    BY <1>14 DEF TypeText, run
  <2>4. /\ Typed \in Range(new) /\ new # <<>>
        /\ Ours(new) => body[r] # <<>> /\ Ours(body[r])
        /\ Whole(body[r]) => Whole(new) \/ ~Ours(new)
        /\ ~Ours(<<Typed>> \o body[r])
    BY <2>1, <2>2, Types
  <2>5. body'[r] = new /\ \A q \in Row \ {r} : body'[q] = body[q]
    BY <1>1, <2>1
  <2> SUFFICES ASSUME NEW q \in Row
               PROVE  /\ q # current' => AtRest(q)'
                      /\ body'[q] # <<>> /\ Ours(body'[q]) /\ Typed \in Range(body'[q])
                            => q \in warned'
    BY DEF BodiesInv
  <2>6. CASE q = r
    <3>1. r # current => Whole(new) \/ ~Ours(new)
      BY <1>1, <2>4 DEF BodiesInv, AtRest
    <3>2. r # current' => AtRest(r)'
      BY <2>3, <2>4, <2>5, <3>1 DEF AtRest
    <3>3. Ours(new) => r \in warned'
      BY <2>1, <2>4
    <3> QED
      BY <2>5, <2>6, <3>2, <3>3
  <2>7. CASE q # r
    <3>1. q # current => AtRest(q)'
      BY <1>1, <2>3, <2>5, <2>7, SettledStays DEF BodiesInv
    <3> QED
      BY <1>1, <2>3, <2>5, <2>7, <3>1 DEF BodiesInv
  <2> QED
    BY <2>6, <2>7
<1>15. ASSUME NEW r \in Row, EmptyRow(r) PROVE BodiesInv'
  <2>1. body' = [body EXCEPT ![r] = <<>>] /\ warned' = warned /\ torn' = torn \ {r}
        /\ current' = current
    BY <1>15 DEF EmptyRow, run
  <2>2. body'[r] = <<>> /\ \A q \in Row \ {r} : body'[q] = body[q] /\ (q \in torn => q \in torn')
    BY <1>1, <2>1
  <2> SUFFICES ASSUME NEW q \in Row
               PROVE  /\ q # current' => AtRest(q)'
                      /\ body'[q] # <<>> /\ Ours(body'[q]) /\ Typed \in Range(body'[q])
                            => q \in warned'
    BY DEF BodiesInv
  <2>3. CASE q = r
    BY <2>2, <2>3 DEF AtRest
  <2>4. CASE q # r
    BY <1>1, <2>1, <2>2, <2>4 DEF BodiesInv, AtRest
  <2> QED
    BY <2>3, <2>4
<1>16. CASE Raises
  <2>1. CASE RowCallFails
    BY <1>13, <1>16, <2>1
  <2>2. CASE ~RowCallFails
    BY <1>1, <1>3, <1>16, <2>2 DEF Raises, NoteCallFails, DescriptionCallFails, End
  <2> QED
    BY <2>1, <2>2
<1> QED
  BY <1>4, <1>5, <1>6, <1>7, <1>8, <1>9, <1>10, <1>11, <1>12, <1>13, <1>14, <1>15, <1>16
     DEF Next, Step, Failure, People

-----------------------------------------------------------------------------
\* The body that is being replaced.
LEMMA ReplacedStep ==
    ASSUME Inv, [Next]_vars
    PROVE  ReplacedInv'
<1>1. /\ body \in [Row -> Seq(Block)] /\ rows \subseteq Row
      /\ BodiesInv /\ ReplacedInv
  BY DEF Inv, TypeOK
<1>2. None \notin Row
  BY NamesAssumption
<1>3. ASSUME pc' # "body", current' = None \/ (pc # "body" /\ current' = current)
      PROVE  ReplacedInv'
  BY <1>1, <1>3 DEF ReplacedInv
<1>4. ASSUME UNCHANGED <<pc, todo, rows, current, body, warned>> PROVE ReplacedInv'
  BY <1>1, <1>4 DEF ReplacedInv
<1>5. CASE Begin \/ BeginFails \/ Create \/ ListPage \/ DeletePageBlock \/ WritePage
  BY <1>3, <1>5 DEF Begin, BeginFails, Create, ListPage, DeletePageBlock, WritePage, End
<1>6. CASE PageFails \/ RowsFail \/ Raises \/ Crash
  BY <1>3, <1>6 DEF PageFails, RowsFail, Raises, Crash, End
<1>7. CASE ListRows \/ RowsDone \/ ListNotes \/ NotesDone \/ NotesFail
  BY <1>3, <1>7 DEF ListRows, RowsDone, ListNotes, NotesDone, NotesFail, NoteCallFails
<1>8. CASE Describe \/ DescribeFails \/ WriteRow
  BY <1>3, <1>8 DEF Describe, DescribeFails, WriteRow, End
<1>9. ASSUME NEW r \in Row, SkipRow(r) \/ SetNote(r) PROVE ReplacedInv'
  BY <1>3, <1>9 DEF SkipRow, SetNote
<1>10. CASE Work \/ UNCHANGED vars
  BY <1>4, <1>10 DEF Work, vars, shown, run, history
<1>11. ASSUME NEW r \in Row, TypeNote(r) PROVE ReplacedInv'
  BY <1>4, <1>11 DEF TypeNote, run
<1>12. ASSUME NEW r \in Row, EmptyRow(r) PROVE ReplacedInv'
  BY <1>1, <1>12 DEF EmptyRow, run, ReplacedInv
<1>13. ASSUME NEW r \in Row, OpenRow(r) PROVE ReplacedInv'
  <2>1. /\ pc = "row" /\ r \in rows /\ Ours(body[r])
        /\ current' = r /\ todo' = body[r] /\ pc' = "body"
        /\ body' = body /\ rows' = rows /\ warned' = warned
    BY <1>13 DEF OpenRow, shown, history
  <2>2. current = None
    BY <1>1, <2>1 DEF ReplacedInv
  <2>3. body[r] = <<>> \/ Whole(body[r])
    BY <1>1, <1>2, <2>1, <2>2 DEF BodiesInv, AtRest
  <2>4. Listed(body[r])
    <3>1. CASE body[r] = <<>>
      <4>1. 1 \in Version
        BY BoundsAssumption DEF Version
      <4> QED
        BY <3>1, <4>1 DEF Listed
    <3>2. CASE Whole(body[r])
      BY <3>2 DEF Whole, Listed
    <3> QED
      BY <2>3, <3>1, <3>2
  <2>5. Fits(body[r], body[r])
    BY DEF Fits
  <2>6. Typed \in Range(body[r]) => r \in warned
    BY <1>1, <2>1, Ranges DEF BodiesInv
  <2> QED
    BY <2>1, <2>4, <2>5, <2>6 DEF ReplacedInv
<1>14. CASE DeleteRowBlock
  <2>1. /\ pc = "body" /\ todo # <<>> /\ body' = Deleted(current) /\ todo' = Tail(todo)
        /\ UNCHANGED <<pc, current, rows, warned>>
    BY <1>14 DEF DeleteRowBlock, history
  <2>2. /\ current \in rows /\ Listed(todo) /\ Fits(body[current], todo)
        /\ Typed \in Range(todo) => current \in warned
    BY <1>1, <2>1 DEF ReplacedInv
  <2>3. body'[current] = Without(body[current], Head(todo))
    BY <1>1, <2>1, <2>2 DEF Deleted
  <2>4. /\ Listed(Tail(todo)) /\ Fits(body'[current], Tail(todo))
        /\ Range(Tail(todo)) \subseteq Range(todo)
    BY <2>1, <2>2, <2>3, TakesAway
  <2> QED
    BY <2>1, <2>2, <2>4 DEF ReplacedInv
<1>15. ASSUME NEW r \in Row, TypeText(r) PROVE ReplacedInv'
  <2>1. /\ UNCHANGED <<pc, todo, rows, current>>
        /\ \A q \in Row \ {r} : body'[q] = body[q] /\ (q \in warned => q \in warned')
        /\ Typed \notin Range(body[r])
        /\ body'[r] = Append(body[r], Typed) \/ body'[r] = <<Typed>> \o body[r]
    BY <1>1, <1>15 DEF TypeText, run
  <2>2. CASE pc # "body" \/ current # r
    BY <1>1, <2>1, <2>2 DEF ReplacedInv
  <2>3. CASE pc = "body" /\ current = r
    <3>1. /\ current \in rows /\ Listed(todo) /\ Fits(body[r], todo)
      BY <1>1, <2>3 DEF ReplacedInv
    <3>2. body[r] = todo
      <4>1. todo \in Seq(Block)
        BY <3>1, ListedIsSeq
      <4>2. Typed \in Range(<<Typed>> \o todo) /\ Typed \in Range(Append(todo, Typed))
        BY <3>1, <4>1, Typing, BlockFacts
      <4> QED
        BY <2>1, <3>1, <4>2 DEF Fits
    <3>3. Typed \notin Range(todo)
      BY <2>1, <3>2
    <3>4. Fits(body'[r], todo)
      BY <2>1, <3>2, <3>3 DEF Fits
    <3> QED
      BY <2>1, <2>3, <3>1, <3>3, <3>4 DEF ReplacedInv
  <2> QED
    BY <2>2, <2>3
<1> QED
  BY <1>5, <1>6, <1>7, <1>8, <1>9, <1>10, <1>11, <1>12, <1>13, <1>14, <1>15
     DEF Next, Step, Failure, People

-----------------------------------------------------------------------------
\* A body that shows a version goes on showing it, and keeps a person's block,
\* when a block is added.
LEMMA ShownStays ==
    ASSUME NEW r \in Row, Range(body[r]) \subseteq Range(body'[r]), payload' = payload
    PROVE  /\ Shows(r, payload) => Shows(r, payload)'
           /\ Typed \in Range(body[r]) => Typed \in Range(body'[r])
BY DEF Shows

\* The rows that were visited, and what is said of them.
LEMMA RowsStep ==
    ASSUME Inv, [Next]_vars
    PROVE  RowsInv'
<1>1. /\ body \in [Row -> Seq(Block)] /\ rows \subseteq Row /\ skipped \subseteq Row
      /\ payload \in Version /\ Sourced[payload] \subseteq Row
      /\ BodiesInv /\ ReplacedInv /\ RowsInv
  BY SourcedAssumption DEF Inv, TypeOK
<1>2. None \notin Row
  BY NamesAssumption
\* Most steps leave the bodies alone, or add to them.
<1>3. ASSUME UNCHANGED <<payload, skipped, torn>>,
             \A r \in Row : Range(body[r]) \subseteq Range(body'[r]),
             \/ /\ pc' \in {"find", "page", "rows"} /\ pc \in {"find", "page", "rows"}
                /\ failed' = failed
             \/ /\ pc' \in {"row", "body"} /\ pc \in {"row", "body"} /\ failed' = failed
                /\ rows' = rows
             \/ pc' = "notes" /\ pc = "row" /\ rows = {} /\ failed' = failed
             \/ /\ pc' \in {"notes", "note", "describe"} /\ pc \in {"notes", "note", "describe"}
                /\ "rows" \in failed => "rows" \in failed'
             \/ pc' = "idle"
             \/ "rows" \in failed' /\ pc' = "notes"
      PROVE  RowsInv'
  <2>1. \A r \in Row : /\ Shows(r, payload) => Shows(r, payload)'
                       /\ Typed \in Range(body[r]) => Typed \in Range(body'[r])
    BY <1>3, ShownStays
  <2>2. CASE pc' \in {"find", "page", "rows"}
    BY <1>1, <1>3, <2>2 DEF RowsInv
  <2>3. CASE pc' \in {"row", "body"}
    <3>1. pc \in {"row", "body"} /\ rows' = rows /\ failed' = failed
      BY <1>3, <2>3
    <3> QED
      BY <1>1, <1>3, <2>1, <2>3, <3>1 DEF RowsInv
  <2>4. CASE pc' \in {"notes", "note", "describe"}
    <3>1. "rows" \notin failed' => \A r \in Sourced[payload] : r \in skipped \/ Shows(r, payload)
      BY <1>1, <1>3, <2>4 DEF RowsInv
    <3> QED
      BY <1>1, <1>3, <2>1, <2>4, <3>1 DEF RowsInv
  <2>5. CASE pc' = "idle"
    BY <2>5 DEF RowsInv
  <2> QED
    BY <1>3, <2>2, <2>3, <2>4, <2>5
<1>4. CASE Begin
  BY <1>4 DEF Begin, RowsInv
<1>5. CASE Create \/ ListPage \/ DeletePageBlock \/ WritePage
  BY <1>3, <1>5 DEF Create, ListPage, DeletePageBlock, WritePage, shown, history
<1>6. CASE BeginFails \/ PageFails \/ Describe \/ DescribeFails \/ Raises \/ Crash
  BY <1>6 DEF BeginFails, PageFails, Describe, DescribeFails, Raises, Crash, End, RowsInv
<1>7. CASE ListRows
  BY <1>1, <1>7 DEF ListRows, shown, RowsInv
<1>8. ASSUME NEW r \in Row, SkipRow(r) PROVE RowsInv'
  <2>1. /\ pc = "row" /\ pc' = "row" /\ r \in rows /\ ~Ours(body[r])
        /\ rows' = rows \ {r} /\ skipped' = skipped \cup {r}
        /\ UNCHANGED <<body, payload, failed, torn>>
    BY <1>8 DEF SkipRow, shown, history
  <2>2. AtRest(r) /\ body[r] # <<>>
    BY <1>1, <1>2, <2>1 DEF ReplacedInv, BodiesInv, Ours
  <2>3. Whole(body[r]) => Ours(body[r])
    BY WholeIsOurs
  <2>4. Typed \in Range(body[r]) \/ r \in torn
    BY <2>1, <2>2, <2>3 DEF AtRest
  <2>5. \A q \in Row : Shows(q, payload) => Shows(q, payload)'
    BY <2>1 DEF Shows
  <2>6. \A q \in skipped' : q \notin rows' /\ (Typed \in Range(body'[q]) \/ q \in torn')
    BY <1>1, <2>1, <2>4 DEF RowsInv
  <2>7. \A q \in Sourced[payload] \ rows' : q \in skipped' \/ Shows(q, payload)'
    BY <1>1, <2>1, <2>5 DEF RowsInv
  <2> QED
    BY <2>1, <2>6, <2>7 DEF RowsInv
<1>9. ASSUME NEW r \in Row, OpenRow(r) PROVE RowsInv'
  BY <1>3, <1>9 DEF OpenRow, shown, history
<1>10. CASE DeleteRowBlock
  <2>1. /\ pc = "body" /\ pc' = "body" /\ todo # <<>> /\ body' = Deleted(current)
        /\ UNCHANGED <<payload, rows, skipped, failed, torn>>
    BY <1>10 DEF DeleteRowBlock, history
  <2>2. current \in rows /\ \A r \in Row \ {current} : body'[r] = body[r]
    BY <1>1, <2>1, Replaced DEF ReplacedInv
  <2>3. \A r \in Row \ {current} : /\ Shows(r, payload) => Shows(r, payload)'
                                   /\ Typed \in Range(body[r]) => Typed \in Range(body'[r])
    BY <2>1, <2>2, ShownStays
  <2> QED
    BY <1>1, <2>1, <2>2, <2>3 DEF RowsInv
<1>11. CASE WriteRow
  <2>1. /\ pc = "body" /\ pc' = "row" /\ todo = <<>> /\ body' = Written(current)
        /\ rows' = rows \ {current} /\ UNCHANGED <<payload, skipped, failed, torn>>
    BY <1>11 DEF WriteRow, history
  <2>2. /\ current \in rows /\ Fits(body[current], <<>>)
        /\ \A r \in Row \ {current} : body'[r] = body[r]
    BY <1>1, <2>1, Replaced DEF ReplacedInv
  <2>3. \A r \in Row \ {current} : /\ Shows(r, payload) => Shows(r, payload)'
                                   /\ Typed \in Range(body[r]) => Typed \in Range(body'[r])
    BY <2>1, <2>2, ShownStays
  <2>4. \A q \in Row : q = current => Shows(q, payload)'
    <3>1. body'[current] = body[current] \o Rendered(payload)
      BY <1>1, <2>1, <2>2 DEF Written
    <3>2. Range(Rendered(payload)) \subseteq Range(body'[current])
      BY <1>1, <2>2, <3>1, Writing
    <3> QED
      BY <2>1, <3>2 DEF Shows
  <2>5. \A q \in skipped' : q \notin rows' /\ (Typed \in Range(body'[q]) \/ q \in torn')
    BY <1>1, <2>1, <2>2, <2>3 DEF RowsInv
  <2>6. \A q \in Sourced[payload] \ rows' : q \in skipped' \/ Shows(q, payload)'
    BY <1>1, <2>1, <2>2, <2>3, <2>4 DEF RowsInv
  <2> QED
    BY <2>1, <2>5, <2>6 DEF RowsInv
<1>12. CASE RowsFail
  BY <1>12 DEF RowsFail, RowsInv
<1>13. CASE RowsDone \/ ListNotes \/ NotesDone
  BY <1>3, <1>13 DEF RowsDone, ListNotes, NotesDone, shown, history
<1>14. ASSUME NEW r \in Row, SetNote(r) PROVE RowsInv'
  BY <1>3, <1>14 DEF SetNote, history
<1>15. CASE NotesFail
  BY <1>3, <1>15 DEF NotesFail, NoteCallFails, history
<1>16. ASSUME NEW r \in Row, TypeText(r) PROVE RowsInv'
  <2>1. \A q \in Row \ {r} : body'[q] = body[q]
    BY <1>1, <1>16 DEF TypeText
  <2>2. Range(body[r]) \subseteq Range(body'[r])
    <3>1. body'[r] = Append(body[r], Typed) \/ body'[r] = <<Typed>> \o body[r]
      BY <1>1, <1>16 DEF TypeText
    <3>2. /\ Range(Append(body[r], Typed)) = Range(body[r]) \cup {Typed}
          /\ Range(<<Typed>> \o body[r]) = {Typed} \cup Range(body[r])
      BY <1>1, Typing, BlockFacts
    <3> QED
      BY <3>1, <3>2
  <2>3. UNCHANGED <<payload, skipped, torn, pc, failed, rows>>
    BY <1>16 DEF TypeText, run
  <2>4. \A q \in Row : Range(body[q]) \subseteq Range(body'[q])
    BY <2>1, <2>2
  <2> QED
    BY <1>1, <2>3, <2>4, ShownStays DEF RowsInv
<1>17. ASSUME NEW r \in Row, EmptyRow(r) PROVE RowsInv'
  BY <1>17 DEF EmptyRow, run, RowsInv
<1>18. ASSUME UNCHANGED <<body, run, torn>> PROVE RowsInv'
  BY <1>1, <1>18 DEF RowsInv, run, Shows
<1>19. ASSUME NEW r \in Row, TypeNote(r) PROVE RowsInv'
  BY <1>18, <1>19 DEF TypeNote
<1>20. CASE Work \/ UNCHANGED vars
  BY <1>18, <1>20 DEF Work, vars, shown, history
<1> QED
  BY <1>4, <1>5, <1>6, <1>7, <1>8, <1>9, <1>10, <1>11, <1>12, <1>13, <1>14, <1>15, <1>16,
     <1>17, <1>19, <1>20 DEF Next, Step, Failure, People

-----------------------------------------------------------------------------
\* The notes.
LEMMA NotesStep ==
    ASSUME Inv, [Next]_vars
    PROVE  NotesInv'
<1>1. /\ note \in [Row -> Nat \cup {Person}] /\ rows \subseteq Row
      /\ payload \in Nat /\ Sourced[payload] \subseteq Row
      /\ NotesInv
  BY SourcedAssumption DEF Inv, TypeOK, Version
<1>2. Person # payload
  BY <1>1, NamesAssumption
<1>3. ASSUME pc' \notin {"notes", "note", "describe"} PROVE NotesInv'
  BY <1>3 DEF NotesInv
<1>4. ASSUME UNCHANGED <<note, run, late>> PROVE NotesInv'
  BY <1>1, <1>4 DEF NotesInv, run
<1>5. CASE Begin \/ BeginFails \/ Create \/ ListPage \/ DeletePageBlock \/ WritePage
  BY <1>3, <1>5 DEF Begin, BeginFails, Create, ListPage, DeletePageBlock, WritePage, End
<1>6. CASE PageFails \/ Raises \/ Crash \/ Describe \/ DescribeFails
  BY <1>3, <1>6 DEF PageFails, Raises, Crash, Describe, DescribeFails, End
<1>7. CASE ListRows \/ DeleteRowBlock \/ WriteRow
  BY <1>3, <1>7 DEF ListRows, DeleteRowBlock, WriteRow
<1>8. ASSUME NEW r \in Row, SkipRow(r) \/ OpenRow(r) PROVE NotesInv'
  BY <1>3, <1>8 DEF SkipRow, OpenRow
<1>9. CASE RowsDone \/ RowsFail
  BY <1>9 DEF RowsDone, RowsFail, NotesInv
<1>10. CASE ListNotes
  BY <1>1, <1>10 DEF ListNotes, shown, NotesInv
<1>11. ASSUME NEW r \in Row, SetNote(r) PROVE NotesInv'
  <2>1. /\ pc = "note" /\ pc' = "note" /\ r \in rows /\ rows' = rows \ {r}
        /\ note' = IF seen[r] = Person THEN note ELSE [note EXCEPT ![r] = payload]
        /\ UNCHANGED <<payload, seen, late>>
    BY <1>11 DEF SetNote, history
  <2>2. /\ \A q \in Row : seen[q] = Person => note[q] = Person
        /\ \A q \in Row : note[q] = Person /\ seen[q] # Person => q \in late
        /\ \A q \in Sourced[payload] \ rows : note[q] \in {payload, Person}
    BY <1>1, <2>1 DEF NotesInv
  <2>3. /\ \A q \in Row \ {r} : note'[q] = note[q]
        /\ IF seen[r] = Person THEN note'[r] = note[r] ELSE note'[r] = payload
    BY <1>1, <2>1
  <2>4. note'[r] = Person <=> seen[r] = Person
    BY <1>2, <2>2, <2>3
  <2>5. \A q \in Row : seen[q] = Person => note'[q] = Person
    BY <2>2, <2>3, <2>4
  <2>6. \A q \in Row : note'[q] = Person /\ seen[q] # Person => q \in late
    BY <2>2, <2>3, <2>4
  <2>7. \A q \in Sourced[payload] \ rows' : note'[q] \in {payload, Person}
    BY <1>1, <2>1, <2>2, <2>3
  <2> QED
    BY <2>1, <2>5, <2>6, <2>7 DEF NotesInv
<1>12. CASE NotesDone
  BY <1>1, <1>12 DEF NotesDone, shown, NotesInv
<1>13. CASE NotesFail
  BY <1>13 DEF NotesFail, NotesInv
<1>14. ASSUME NEW r \in Row, TypeText(r) \/ EmptyRow(r) PROVE NotesInv'
  BY <1>4, <1>14 DEF TypeText, EmptyRow
<1>15. ASSUME NEW r \in Row, TypeNote(r) PROVE NotesInv'
  <2>1. /\ note' = [note EXCEPT ![r] = Person] /\ late' = late \cup {r}
        /\ UNCHANGED <<pc, payload, rows, seen, failed>>
    BY <1>15 DEF TypeNote, run
  <2>2. note'[r] = Person /\ \A q \in Row \ {r} : note'[q] = note[q]
    BY <1>1, <2>1
  <2> QED
    BY <1>1, <2>1, <2>2 DEF NotesInv
<1>16. CASE Work \/ UNCHANGED vars
  BY <1>4, <1>16 DEF Work, vars, shown, history
<1> QED
  BY <1>5, <1>6, <1>7, <1>8, <1>9, <1>10, <1>11, <1>12, <1>13, <1>14, <1>15, <1>16
     DEF Next, Step, Failure, People

-----------------------------------------------------------------------------
\* The invariant holds of the state nobody has published in.
LEMMA InitInv ==
    ASSUME Init
    PROVE  Inv
<1>1. 1 \in Version /\ <<>> \in Seq(Block)
  BY BoundsAssumption DEF Version
<1>2. TypeOK
  BY <1>1 DEF Init, TypeOK
<1>3. PageInv /\ ReplacedInv /\ NotesInv
  BY DEF Init, PageInv, AfterPage, ReplacedInv, NotesInv
<1>4. BodiesInv /\ RowsInv
  BY DEF Init, BodiesInv, AtRest, RowsInv
<1> QED
  BY <1>2, <1>3, <1>4 DEF Inv

\* It is inductive: every step of a run, every failure and whatever people do
\* keeps it.
THEOREM PublicationInvariant == Spec => []Inv
<1>1. Inv /\ [Next]_vars => Inv'
  BY TypeStep, PageStep, BodiesStep, ReplacedStep, RowsStep, NotesStep DEF Inv
<1> QED
  BY InitInv, <1>1, PTL DEF Spec

\* Every variable has its type: the blocks of a body are the tool's or a
\* person's, and a run ends with an exit code the program has.
THEOREM TypeCorrect == Spec => []TypeOK
BY PublicationInvariant, PTL DEF Inv

\* A row is reported as left to a person only if somebody typed in it or it is torn
\* (publish_project_pages).
THEOREM LeftAlone == Spec => []LeftAloneHasAReason
<1>1. Inv => LeftAloneHasAReason
  BY DEF Inv, RowsInv, LeftAloneHasAReason
<1> QED
  BY <1>1, PublicationInvariant, PTL

\* No run deletes or overwrites what somebody typed where a person's words are safe:
\* in the page of a row (publish_project_pages) or in its note (publish_project_notes).
THEOREM WordsAreKept == Spec => PeopleKeepTheirWords
<1>1. Inv => (pc = "body" /\ Typed \in Range(todo) => current \in warned)
  BY DEF Inv, ReplacedInv
<1>2. Inv /\ [Next]_vars =>
          [\A r \in Row : note[r] = Person /\ note'[r] # Person => r \in late]_vars
  <2> SUFFICES ASSUME Inv, [Next]_vars, NEW r \in Row, note[r] = Person, note'[r] # Person
               PROVE  r \in late
    OBVIOUS
  <2>1. /\ note \in [Row -> Nat \cup {Person}] /\ rows \subseteq Row /\ NotesInv
    BY DEF Inv, TypeOK
  <2>2. ASSUME pc = "note", seen[r] # Person PROVE r \in late
    BY <2>1, <2>2 DEF NotesInv
  <2>3. ASSUME NEW q \in Row, SetNote(q) PROVE r \in late
    <3>1. q = r /\ seen[q] # Person /\ pc = "note"
      BY <2>1, <2>3 DEF SetNote
    <3> QED
      BY <2>2, <3>1
  <2>4. CASE NoteCallFails
    <3>1. /\ pc \in {"notes", "note"}
          /\ \/ \E q \in rows : seen[q] # Person /\ note' = [note EXCEPT ![q] = payload]
             \/ note' = note
      BY <2>4 DEF NoteCallFails
    <3>2. r \in rows /\ seen[r] # Person
      BY <2>1, <3>1
    <3>3. pc = "note"
      BY <2>1, <3>1, <3>2 DEF NotesInv
    <3> QED
      BY <2>2, <3>2, <3>3
  <2>5. ASSUME NEW q \in Row, TypeNote(q) PROVE FALSE
    BY <2>1, <2>5 DEF TypeNote
  <2>6. CASE note' = note
    BY <2>6
  <2>7. CASE NotesFail \/ Raises
    BY <2>4, <2>6, <2>7 DEF NotesFail, Raises
  <2> QED
    BY <2>3, <2>5, <2>6, <2>7
       DEF Next, Step, Failure, People, Begin, BeginFails, Create, ListPage, DeletePageBlock,
           WritePage, PageFails, ListRows, SkipRow, OpenRow, DeleteRowBlock, WriteRow, RowsDone,
           RowsFail, ListNotes, NotesDone, Describe, DescribeFails, Crash, Work, TypeText,
           EmptyRow, vars, shown
<1> QED
  BY <1>1, <1>2, PublicationInvariant, PTL
     DEF Spec, PeopleKeepTheirWords, PeopleKeepTheirText, PeopleKeepTheirNotes

\* The exit code tells what is in Notion (publish_control_tower.py's main): after
\* 0 and 3 the page shows the look that was published, and so does every surface
\* that the run does not name as failed, but for what is a person's or torn.
THEOREM ExitTells == Spec => ExitTellsWhatIsShown
<1> DEFINE Told ==
        /\ page' = Rendered(payload)
        /\ "description" \notin failed' => description' = payload
        /\ "rows" \notin failed' => \A r \in Sourced[payload] \ skipped : Shows(r, payload)'
        /\ "notes" \notin failed' => \A r \in Sourced[payload] : note'[r] \in {payload, Person}
        /\ exit' = 0 <=> failed' = {}
<1>1. ASSUME Inv, Next, pc # "idle", pc' = "idle", exit' \in {0, 3} PROVE Told
  <2>1. None \notin {0, 1, 3}
    BY NamesAssumption
  <2>2. /\ PageInv /\ RowsInv /\ NotesInv
    BY <1>1 DEF Inv
  <2>3. Describe \/ DescribeFails
    <3>1. ~PageFails /\ ~Raises /\ ~Crash
      BY <1>1, <2>1 DEF PageFails, Raises, Crash, End
    <3>2. ~Begin /\ ~BeginFails
      BY <1>1 DEF Begin, BeginFails
    <3>3. ~Create /\ ~ListPage /\ ~DeletePageBlock /\ ~WritePage
      BY <1>1 DEF Create, ListPage, DeletePageBlock, WritePage
    <3>4. ~ListRows /\ ~DeleteRowBlock /\ ~WriteRow /\ ~RowsDone /\ ~ListNotes /\ ~NotesDone
      BY <1>1 DEF ListRows, DeleteRowBlock, WriteRow, RowsDone, ListNotes, NotesDone
    <3>5. ~RowsFail /\ ~NotesFail /\ ~Work
      BY <1>1 DEF RowsFail, NotesFail, Work, run
    <3>6. \A r \in Row : ~SkipRow(r) /\ ~OpenRow(r) /\ ~SetNote(r)
      BY <1>1 DEF SkipRow, OpenRow, SetNote
    <3>7. \A r \in Row : ~TypeText(r) /\ ~EmptyRow(r) /\ ~TypeNote(r)
      BY <1>1 DEF TypeText, EmptyRow, TypeNote, run
    <3> HIDE DEF Told
    <3> QED
      BY <1>1, <3>1, <3>2, <3>3, <3>4, <3>5, <3>6, <3>7 DEF Next, Step, Failure, People
  <2>4. /\ pc = "describe" /\ UNCHANGED <<page, body, note, payload>>
        /\ "rows" \notin failed' => "rows" \notin failed
        /\ "notes" \notin failed' => "notes" \notin failed
    BY <2>3 DEF Describe, DescribeFails, DescriptionCallFails
  <2>5. page' = Rendered(payload)
    BY <2>2, <2>4 DEF PageInv, AfterPage
  <2>6. "description" \notin failed' => description' = payload
    BY <2>3 DEF Describe, DescribeFails
  <2>7. \A r \in Sourced[payload] : Shows(r, payload) => Shows(r, payload)'
    BY <2>4 DEF Shows
  <2>8. "rows" \notin failed' => \A r \in Sourced[payload] \ skipped : Shows(r, payload)'
    BY <2>2, <2>4, <2>7 DEF RowsInv
  <2>9. "notes" \notin failed' => \A r \in Sourced[payload] : note'[r] \in {payload, Person}
    BY <2>2, <2>4 DEF NotesInv
  <2>10. exit' = 0 <=> failed' = {}
    BY <2>3 DEF Describe, DescribeFails, End, ExitOf
  <2> QED
    BY <2>5, <2>6, <2>8, <2>9, <2>10
<1>2. Inv /\ [Next]_vars => [pc # "idle" /\ pc' = "idle" /\ exit' \in {0, 3} => Told]_vars
  BY <1>1
<1> QED
  BY <1>2, PublicationInvariant, PTL DEF Spec, ExitTellsWhatIsShown
=============================================================================
