----------------------- MODULE SnapshotRepositoryProofs -----------------------
(***************************************************************************)
(* Proofs about a local backup repository, for whichever service runs the  *)
(* engine over it.                                                         *)
(*                                                                         *)
(* RepositoryTyped says what the files, the world and the operation are,   *)
(* and RepositoryStep what a step of a service may do to them; a service   *)
(* shows that its steps are such steps and has the rest from here.         *)
(*                                                                         *)
(* RepositoryInv is the inductive invariant.  That every undamaged chain   *)
(* restores is not inductive: a delta is made on what the operation found  *)
(* some steps ago, and a deletion goes on through several steps.  Its      *)
(* parts:                                                                  *)
(*   Publishing     what is being written is what the operation scanned    *)
(*   RecordsAgree   an identity names its archive by the content it has    *)
(*   Links, Depths  a delta is made on a verified archive, within MaxDepth *)
(*   PublishingAlone, Basing, Dooming                                      *)
(*                  nothing is made on a snapshot before its publication   *)
(*                  ends, the baseline stays good until the delta is       *)
(*                  written, and what is doomed leaves no delta behind     *)
(*                                                                         *)
(* Chain is a recursive function over a number of steps.  What is said of  *)
(* it is proved by the least number that contradicts it.                   *)
(***************************************************************************)
EXTENDS SnapshotRepository, TLAPS, WellFoundedInduction, FiniteSetTheorems

-----------------------------------------------------------------------------
(* Chains of archives.  Chain is a recursive function of the archives; here *)
(* they are a parameter, so that the chains before and after a step can be  *)
(* compared.                                                                *)

IsDeltaOf(a, n) == a[n] # NoFile /\ a[n].kind = "delta"
ParentsOf(a, S) == {a[m].parent : m \in {x \in S : IsDeltaOf(a, x)}}
DeltasOf(a, S) == {m \in S : IsDeltaOf(a, m)}

WalkIs(f, a, n, N) ==
    f = [k \in 0 .. N |-> IF k = 0 THEN {n} ELSE f[k - 1] \cup ParentsOf(a, f[k - 1])]
Walk(a, n, N) == CHOOSE f : WalkIs(f, a, n, N)
ChainOf(a, n) == Walk(a, n, MaxDepth + 1)[MaxDepth + 1]

LEMMA ChainIsChainOf == ASSUME NEW n PROVE Chain(n) = ChainOf(archive, n)
  BY DEF Chain, ChainOf, Walk, WalkIs, ParentsOf, IsDeltaOf, IsDelta, Exists

LEMMA ChainIsChainOfNext == ASSUME NEW CONSTANT n PROVE Chain(n)' = ChainOf(archive', n)
  BY DEF Chain, ChainOf, Walk, WalkIs, ParentsOf, IsDeltaOf, IsDelta, Exists

\* Induction, without an operator for what is to be proved.
LEMMA LeastNumber ==
    ASSUME NEW T \in SUBSET Nat, T # {}
    PROVE  \E x \in T : \A y \in T : x <= y
  <1>1. PICK x \in T : \A y \in T : ~(<<y, x>> \in OpToRel(<, Nat))
    BY NatLessThanWellFounded, WFMin
  <1>r. PICK R : R = {ss \in Nat \X Nat : ss[1] < ss[2]}
    OBVIOUS
  <1>2. R = OpToRel(<, Nat)
    BY <1>r DEF OpToRel
  <1>3. \A y \in T : ~(<<y, x>> \in R)
    BY <1>1, <1>2
  <1>4. \A y \in T : ~(y < x)
    BY <1>3, <1>r
  <1> QED
    BY <1>4

LEMMA NatInduct ==
    ASSUME NEW S, 0 \in S, \A k \in Nat : k \in S => k + 1 \in S
    PROVE  Nat \subseteq S
  <1> SUFFICES ASSUME Nat \ S # {} PROVE FALSE
    OBVIOUS
  <1>1. PICK x \in Nat \ S : \A y \in Nat \ S : x <= y
    <2>1. Nat \ S \in SUBSET Nat
      OBVIOUS
    <2> QED
      BY <2>1, LeastNumber
  <1>2. x # 0 /\ x - 1 \in Nat
    BY <1>1
  <1>3. x - 1 \in S
    BY <1>1, <1>2
  <1> QED
    BY <1>1, <1>2, <1>3

LEMMA WalkExists == ASSUME NEW a, NEW n, NEW N \in Nat
                    PROVE  WalkIs(Walk(a, n, N), a, n, N)
  <1>s. PICK S : S = {k \in Nat : \E f : WalkIs(f, a, n, k)}
    OBVIOUS
  <1>1. 0 \in S
    <2>1. WalkIs([k \in 0 .. 0 |-> {n}], a, n, 0)
      BY DEF WalkIs
    <2> QED
      BY <1>s, <2>1
  <1>2. ASSUME NEW m \in Nat, m \in S PROVE m + 1 \in S
    <2>f. PICK f : WalkIs(f, a, n, m)
      BY <1>s, <1>2
    <2>g. PICK g : g = [k \in 0 .. m + 1 |-> IF k <= m THEN f[k]
                                          ELSE f[m] \cup ParentsOf(a, f[m])]
      OBVIOUS
    <2>1. \A k \in 0 .. m : g[k] = f[k]
      BY <2>g
    <2>2. \A k \in 0 .. m : f[k] = IF k = 0 THEN {n} ELSE f[k - 1] \cup ParentsOf(a, f[k - 1])
      BY <2>f DEF WalkIs
    <2>h. PICK h : h = [k \in 0 .. m + 1 |-> IF k = 0 THEN {n}
                                          ELSE g[k - 1] \cup ParentsOf(a, g[k - 1])]
      OBVIOUS
    <2>3. ASSUME NEW k \in 0 .. m + 1 PROVE g[k] = h[k]
      <3>h. h[k] = IF k = 0 THEN {n} ELSE g[k - 1] \cup ParentsOf(a, g[k - 1])
        BY <2>h
      <3>1. CASE k = 0
        <4>1. g[0] = f[0] /\ f[0] = {n}
          <5>1. 0 \in 0 .. m
            OBVIOUS
          <5> QED
            BY <2>1, <2>2, <5>1
        <4> QED
          BY <3>1, <3>h, <4>1
      <3>2. CASE k # 0 /\ k <= m
        <4>1. k - 1 \in 0 .. m /\ k \in 0 .. m
          BY <3>2
        <4> QED
          BY <3>2, <3>h, <4>1, <2>1, <2>2
      <3>3. CASE k = m + 1
        <4>1. k - 1 = m /\ m \in 0 .. m /\ k # 0 /\ ~(k <= m)
          BY <3>3
        <4>2. g[k] = f[m] \cup ParentsOf(a, f[m])
          BY <4>1, <2>g
        <4> QED
          BY <3>h, <4>1, <4>2, <2>1
      <3> QED
        BY <3>1, <3>2, <3>3
    <2>4. g = h
      BY <2>g, <2>h, <2>3
    <2> QED
      BY <1>s, <2>4, <2>h DEF WalkIs
  <1>3. N \in S
    BY <1>1, <1>2, NatInduct
  <1> QED
    BY <1>s, <1>3 DEF Walk

LEMMA WalkSteps ==
    ASSUME NEW a, NEW n, NEW N \in Nat
    PROVE  /\ Walk(a, n, N)[0] = {n}
           /\ \A k \in 0 .. N - 1 :
                Walk(a, n, N)[k + 1] = Walk(a, n, N)[k] \cup ParentsOf(a, Walk(a, n, N)[k])
  <1>f. PICK f : f = Walk(a, n, N)
    OBVIOUS
  <1>1. f = [k \in 0 .. N |-> IF k = 0 THEN {n} ELSE f[k - 1] \cup ParentsOf(a, f[k - 1])]
    BY <1>f, WalkExists DEF WalkIs
  <1>2. \A k \in 0 .. N : f[k] = IF k = 0 THEN {n} ELSE f[k - 1] \cup ParentsOf(a, f[k - 1])
    BY <1>1
  <1>3. ASSUME NEW k \in 0 .. N - 1 PROVE f[k + 1] = f[k] \cup ParentsOf(a, f[k])
    <2>1. k + 1 \in 0 .. N /\ k + 1 # 0 /\ (k + 1) - 1 = k
      OBVIOUS
    <2> QED
      BY <2>1, <1>2
  <1>4. f[0] = {n}
    <2>1. 0 \in 0 .. N
      OBVIOUS
    <2> QED
      BY <1>2, <2>1
  <1> QED
    BY <1>f, <1>3, <1>4

LEMMA WalkGrows ==
    ASSUME NEW a, NEW n, NEW N \in Nat, NEW k \in 0 .. N
    PROVE  Walk(a, n, N)[k] \subseteq Walk(a, n, N)[N]
  <1>f. PICK f : f = Walk(a, n, N)
    OBVIOUS
  <1>s. PICK S : S = {i \in Nat : k + i <= N => f[k] \subseteq f[k + i]}
    OBVIOUS
  <1>1. 0 \in S
    BY <1>s
  <1>2. ASSUME NEW i \in Nat, i \in S PROVE i + 1 \in S
    <2> SUFFICES ASSUME k + (i + 1) <= N PROVE f[k] \subseteq f[k + (i + 1)]
      BY <1>s
    <2>1. f[k] \subseteq f[k + i] /\ k + i \in 0 .. N - 1 /\ k + (i + 1) = (k + i) + 1
      BY <1>s, <1>2
    <2>2. f[(k + i) + 1] = f[k + i] \cup ParentsOf(a, f[k + i])
      BY <1>f, <2>1, WalkSteps
    <2> QED
      BY <2>1, <2>2
  <1>3. N - k \in S /\ k + (N - k) = N
    <2>1. N - k \in Nat /\ k + (N - k) = N
      OBVIOUS
    <2> QED
      BY <1>1, <1>2, <2>1, NatInduct
  <1> QED
    BY <1>s, <1>f, <1>3

USE RepositoryAssumption

\* A snapshot is on its chain, and so is what it was made on.
LEMMA ChainStarts ==
    ASSUME NEW a, NEW n
    PROVE  /\ n \in ChainOf(a, n)
           /\ IsDeltaOf(a, n) => a[n].parent \in ChainOf(a, n)
  <1> DEFINE N == MaxDepth + 1
  <1>0. N \in Nat /\ 0 \in 0 .. N /\ 1 \in 0 .. N /\ 0 \in 0 .. N - 1 /\ 0 + 1 = 1
    OBVIOUS
  <1>f. PICK f : f = Walk(a, n, N)
    OBVIOUS
  <1>1. f[0] = {n} /\ f[1] = f[0] \cup ParentsOf(a, f[0])
    BY <1>f, <1>0, WalkSteps
  <1>2. f[0] \subseteq f[N] /\ f[1] \subseteq f[N]
    BY <1>f, <1>0, WalkGrows
  <1> HIDE DEF N
  <1>3. IsDeltaOf(a, n) => a[n].parent \in f[1]
    BY <1>1 DEF ParentsOf
  <1> QED
    BY <1>f, <1>1, <1>2, <1>3 DEF ChainOf, N

\* What holds of a snapshot and goes from each of its chain to its parent
\* holds of the whole chain.
LEMMA ChainWithin ==
    ASSUME NEW a, NEW n, NEW S, n \in S,
           \A x \in S \cap ChainOf(a, n) :
             IsDeltaOf(a, x) /\ a[x].parent \in ChainOf(a, n) => a[x].parent \in S
    PROVE  ChainOf(a, n) \subseteq S
  <1> DEFINE N == MaxDepth + 1
  <1>0. N \in Nat
    OBVIOUS
  <1>f. PICK f : f = Walk(a, n, N)
    OBVIOUS
  <1>c. ChainOf(a, n) = f[N]
    BY <1>f DEF ChainOf
  <1> HIDE DEF N
  <1>t. PICK T : T = {k \in Nat : k <= N => f[k] \subseteq S}
    OBVIOUS
  <1>1. 0 \in T
    BY <1>f, <1>t, <1>0, WalkSteps
  <1>2. ASSUME NEW k \in Nat, k \in T PROVE k + 1 \in T
    <2> SUFFICES ASSUME k + 1 <= N PROVE f[k + 1] \subseteq S
      BY <1>t
    <2>1. f[k] \subseteq S /\ k \in 0 .. N - 1 /\ k \in 0 .. N /\ k + 1 \in 0 .. N
      BY <1>0, <1>2, <1>t
    <2>2. f[k + 1] = f[k] \cup ParentsOf(a, f[k])
      BY <1>f, <1>0, <2>1, WalkSteps
    <2>3. f[k] \subseteq f[N] /\ f[k + 1] \subseteq f[N]
      BY <1>f, <1>0, <2>1, WalkGrows
    <2>4. ASSUME NEW p \in ParentsOf(a, f[k]) PROVE p \in S
      <3>1. PICK x \in f[k] : IsDeltaOf(a, x) /\ p = a[x].parent
        BY DEF ParentsOf
      <3>2. x \in S \cap ChainOf(a, n) /\ p \in ChainOf(a, n)
        BY <3>1, <2>1, <2>2, <2>3, <1>c
      <3> QED
        BY <3>1, <3>2
    <2> QED
      BY <2>1, <2>2, <2>4
  <1>3. N \in T
    BY <1>0, <1>1, <1>2, NatInduct
  <1> QED
    BY <1>0, <1>3, <1>t, <1>c

\* Where no snapshot becomes a delta or gets another parent, chains shrink.
LEMMA ChainShrinks ==
    ASSUME NEW a, NEW b, NEW n,
           \A x \in ChainOf(b, n) :
             IsDeltaOf(b, x) => IsDeltaOf(a, x) /\ a[x].parent = b[x].parent
    PROVE  ChainOf(b, n) \subseteq ChainOf(a, n)
  <1> DEFINE N == MaxDepth + 1
  <1>0. N \in Nat
    OBVIOUS
  <1>f. PICK f : f = Walk(a, n, N)
    OBVIOUS
  <1>g. PICK g : g = Walk(b, n, N)
    OBVIOUS
  <1>c. ChainOf(a, n) = f[N] /\ ChainOf(b, n) = g[N]
    BY <1>f, <1>g DEF ChainOf
  <1> HIDE DEF N
  <1>t. PICK T : T = {k \in Nat : k <= N => g[k] \subseteq f[k]}
    OBVIOUS
  <1>1. 0 \in T
    BY <1>f, <1>g, <1>t, <1>0, WalkSteps
  <1>2. ASSUME NEW k \in Nat, k \in T PROVE k + 1 \in T
    <2> SUFFICES ASSUME k + 1 <= N PROVE g[k + 1] \subseteq f[k + 1]
      BY <1>t
    <2>1. g[k] \subseteq f[k] /\ k \in 0 .. N - 1 /\ k \in 0 .. N
      BY <1>0, <1>2, <1>t
    <2>2. /\ f[k + 1] = f[k] \cup ParentsOf(a, f[k])
          /\ g[k + 1] = g[k] \cup ParentsOf(b, g[k])
      BY <1>f, <1>g, <1>0, <2>1, WalkSteps
    <2>3. g[k] \subseteq ChainOf(b, n)
      BY <1>c, <1>g, <1>0, <2>1, WalkGrows
    <2>4. ParentsOf(b, g[k]) \subseteq ParentsOf(a, f[k])
      BY <2>1, <2>3 DEF ParentsOf
    <2> QED
      BY <2>1, <2>2, <2>4
  <1>3. N \in T
    BY <1>0, <1>1, <1>2, NatInduct
  <1> QED
    BY <1>0, <1>3, <1>t, <1>c

\* A chain is what it was as long as its own archives are what they were.
LEMMA ChainSame ==
    ASSUME NEW a, NEW b, NEW n, \A x \in ChainOf(b, n) : b[x] = a[x]
    PROVE  ChainOf(a, n) = ChainOf(b, n)
  <1> DEFINE N == MaxDepth + 1
  <1>0. N \in Nat
    OBVIOUS
  <1>f. PICK f : f = Walk(a, n, N)
    OBVIOUS
  <1>g. PICK g : g = Walk(b, n, N)
    OBVIOUS
  <1>c. ChainOf(a, n) = f[N] /\ ChainOf(b, n) = g[N]
    BY <1>f, <1>g DEF ChainOf
  <1> HIDE DEF N
  <1>t. PICK T : T = {k \in Nat : k <= N => g[k] = f[k]}
    OBVIOUS
  <1>1. 0 \in T
    <2>1. f[0] = {n} /\ g[0] = {n}
      BY <1>f, <1>g, <1>0, WalkSteps
    <2> QED
      BY <2>1, <1>t
  <1>2. ASSUME NEW k \in Nat, k \in T PROVE k + 1 \in T
    <2> SUFFICES ASSUME k + 1 <= N PROVE g[k + 1] = f[k + 1]
      BY <1>t
    <2>1. g[k] = f[k] /\ k \in 0 .. N - 1 /\ k \in 0 .. N
      BY <1>0, <1>2, <1>t
    <2>2. /\ f[k + 1] = f[k] \cup ParentsOf(a, f[k])
          /\ g[k + 1] = g[k] \cup ParentsOf(b, g[k])
      BY <1>f, <1>g, <1>0, <2>1, WalkSteps
    <2>3. g[k] \subseteq ChainOf(b, n)
      BY <1>c, <1>g, <1>0, <2>1, WalkGrows
    <2>4. ParentsOf(b, g[k]) = ParentsOf(a, f[k])
      BY <2>1, <2>3 DEF ParentsOf, IsDeltaOf
    <2> QED
      BY <2>1, <2>2, <2>4
  <1>3. N \in T
    BY <1>0, <1>1, <1>2, NatInduct
  <1> QED
    BY <1>0, <1>3, <1>t, <1>c

ParentsIn(a) == \A x \in Names : IsDeltaOf(a, x) => a[x].parent \in Names

LEMMA ChainFinite ==
    ASSUME NEW a, ParentsIn(a), NEW n \in Names
    PROVE  /\ ChainOf(a, n) \subseteq Names
           /\ \A S : S \subseteq Names => IsFiniteSet(S) /\ Cardinality(S) \in Nat
  <1>1. ChainOf(a, n) \subseteq Names
    BY ChainWithin DEF ParentsIn
  <1>2. IsFiniteSet(Names)
    BY FS_Interval DEF Names
  <1> QED
    BY <1>1, <1>2, FS_Subset, FS_CardinalityType

\* A chain that a restore would follow ends: each step of a longer one would
\* have found another delta.
LEMMA ChainClosed ==
    ASSUME NEW a, ParentsIn(a), NEW n \in Names,
           Cardinality(DeltasOf(a, ChainOf(a, n))) <= MaxDepth,
           NEW x \in ChainOf(a, n), IsDeltaOf(a, x)
    PROVE  a[x].parent \in ChainOf(a, n)
  <1> SUFFICES ASSUME a[x].parent \notin ChainOf(a, n) PROVE FALSE
    OBVIOUS
  <1> DEFINE N == MaxDepth + 1
  <1>0. N \in Nat
    OBVIOUS
  <1>f. PICK f : f = Walk(a, n, N)
    OBVIOUS
  <1>c. ChainOf(a, n) = f[N]
    BY <1>f DEF ChainOf
  <1> HIDE DEF N
  <1>w. /\ f[0] = {n}
        /\ \A k \in 0 .. N - 1 : f[k + 1] = f[k] \cup ParentsOf(a, f[k])
        /\ \A k \in 0 .. N : f[k] \subseteq f[N] /\ f[k] \subseteq Names
    BY <1>f, <1>0, <1>c, WalkSteps, WalkGrows, ChainFinite
  <1>d. PICK D : D = [k \in 0 .. N |-> DeltasOf(a, f[k])]
    OBVIOUS
  <1>1. \A k \in 0 .. N : IsFiniteSet(D[k]) /\ Cardinality(D[k]) \in Nat
    BY <1>w, <1>d, ChainFinite DEF DeltasOf
  \* Each step but the last one leaves a delta whose parent is not there yet.
  <1>2. ASSUME NEW k \in 0 .. N PROVE \E y \in D[k] : a[y].parent \notin f[k]
    <2> SUFFICES ASSUME \A y \in D[k] : a[y].parent \in f[k] PROVE FALSE
      OBVIOUS
    <2>1. ParentsOf(a, f[k]) \subseteq f[k]
      BY <1>d DEF ParentsOf, DeltasOf
    <2>t. PICK T : T = {i \in Nat : k + i <= N => f[k + i] = f[k]}
      OBVIOUS
    <2>2. 0 \in T
      BY <2>t
    <2>3. ASSUME NEW i \in Nat, i \in T PROVE i + 1 \in T
      <3> SUFFICES ASSUME k + (i + 1) <= N PROVE f[k + (i + 1)] = f[k]
        BY <2>t
      <3>1. f[k + i] = f[k] /\ k + i \in 0 .. N - 1 /\ k + (i + 1) = (k + i) + 1
        BY <1>0, <2>t, <2>3
      <3>2. f[(k + i) + 1] = f[k + i] \cup ParentsOf(a, f[k + i])
        BY <1>w, <3>1
      <3> QED
        BY <3>1, <3>2, <2>1
    <2>4. N - k \in T /\ N - k \in Nat /\ k + (N - k) = N
      <3>1. N - k \in Nat /\ k + (N - k) = N
        BY <1>0
      <3> QED
        BY <3>1, <2>2, <2>3, NatInduct
    <2>5. f[N] = f[k]
      BY <1>0, <2>4, <2>t
    <2> QED
      BY <2>5, <2>1, <1>c DEF ParentsOf
  <1>t. PICK T : T = {k \in Nat : k <= N => Cardinality(D[k]) >= k + 1}
    OBVIOUS
  <1>3. 0 \in T
    <2>1. 0 \in 0 .. N
      BY <1>0
    <2>2. D[0] # {}
      BY <1>2, <2>1
    <2>3. Cardinality(D[0]) # 0 /\ Cardinality(D[0]) \in Nat
      BY <1>1, <2>1, <2>2, FS_EmptySet
    <2> QED
      BY <2>3, <1>t
  <1>4. ASSUME NEW k \in Nat, k \in T PROVE k + 1 \in T
    <2> SUFFICES ASSUME k + 1 <= N PROVE Cardinality(D[k + 1]) >= (k + 1) + 1
      BY <1>t
    <2>1. Cardinality(D[k]) >= k + 1 /\ k \in 0 .. N - 1 /\ k \in 0 .. N /\ k + 1 \in 0 .. N
      BY <1>0, <1>4, <1>t
    <2>2. f[k + 1] = f[k] \cup ParentsOf(a, f[k])
      BY <1>w, <2>1
    <2>y. PICK y \in D[k + 1] : a[y].parent \notin f[k + 1]
      BY <1>2, <2>1
    <2>3. y \notin D[k]
      BY <2>y, <2>2, <2>1, <1>d DEF DeltasOf, ParentsOf
    <2>4. D[k] \cup {y} \subseteq D[k + 1]
      BY <2>y, <2>1, <2>2, <1>d DEF DeltasOf
    <2>5. Cardinality(D[k] \cup {y}) = Cardinality(D[k]) + 1
      BY <1>1, <2>1, <2>3, FS_AddElement
    <2>6. Cardinality(D[k] \cup {y}) <= Cardinality(D[k + 1])
      BY <1>1, <2>1, <2>4, FS_Subset
    <2> QED
      BY <1>1, <2>1, <2>5, <2>6
  <1>5. N \in T
    BY <1>0, <1>3, <1>4, NatInduct
  <1>6. Cardinality(D[N]) >= N + 1 /\ D[N] = DeltasOf(a, ChainOf(a, n))
    BY <1>0, <1>5, <1>t, <1>c, <1>d
  <1>7. Cardinality(D[N]) \in Nat /\ N = MaxDepth + 1
    BY <1>0, <1>1 DEF N
  <1> QED
    BY <1>6, <1>7

-----------------------------------------------------------------------------
(* The values the variables range over *)

JobSteps == {"idle", "compare", "scan", "decide", "archive", "manifest", "identity",
             "plain", "done", "unchanged", "failed", "saveManifest", "retain",
             "unlink", "sweep", "deleted", "notDeleted", "tidy", "save"}
Archives == [kind : {"full", "delta"}, content : Contents, serial : Serials,
             parent : Names \cup {NoName}, parentId : Ids \cup {NoId},
             base : Ids \cup {NoId}]
Identities == [id : Ids, content : Contents, filter : Filters]
Operations == [who : {"nobody", "user", "schedule", "realtime"}, step : JobSteps,
               filter : Filters, scanned : Contents \cup {NoFile},
               content : Contents \cup {NoFile}, name : Names \cup {NoName},
               parent : Names \cup {NoName}, doomed : SUBSET Names]

\* A delta says what it was made on.
Envelopes(a) == \A n \in Names : IsDeltaOf(a, n) =>
    /\ a[n].parent \in Names /\ a[n].parentId \in Ids /\ a[n].base \in Ids

FilesTyped ==
  /\ archive \in [Names -> Archives \cup {NoFile}]
  /\ manifest \in [Names -> Contents \cup {NoFile}]
  /\ identity \in [Names -> Identities \cup {NoFile}]
  /\ DOMAIN marker = Names
  /\ Envelopes(archive)
WorldTyped ==
  /\ source \in Versions /\ lastName \in Names \cup {NoName}
  /\ damaged \in SUBSET Names /\ manual \in 0 .. MaxManual

\* An operation that has written an archive knows its name, and one that has
\* scanned the source knows the content.
JobNamed ==
  /\ job.step \in {"manifest", "identity", "done", "sweep"} => job.name \in Names
  /\ job.step \in {"decide", "archive", "manifest", "identity"} => job.content \in Contents
RepositoryTyped == FilesTyped /\ WorldTyped /\ job \in Operations /\ JobNamed

-----------------------------------------------------------------------------
(* What the choices of the model choose *)

LEMMA NoFileIsNoFile ==
    /\ NoFile \notin Archives /\ NoFile \notin Contents
    /\ NoFile \notin Identities
  <1>2. DOMAIN NoFile = {"none"}
    BY DEF NoFile
  <1>3. \A x \in Archives : "kind" \in DOMAIN x
    BY DEF Archives
  <1>4. \A x \in Contents : "version" \in DOMAIN x
    BY DEF Contents
  <1>5. \A x \in Identities : "id" \in DOMAIN x
    BY DEF Identities
  <1> QED
    BY <1>2, <1>3, <1>4, <1>5

LEMMA NewestExists ==
    ASSUME NEW S \in SUBSET Names, S # {}
    PROVE  Newest(S) \in S /\ \A m \in S : m <= Newest(S)
  <1>t. PICK T : T = {k \in Nat : \E n \in S : k = MaxName - n}
    OBVIOUS
  <1>1. T \in SUBSET Nat /\ \A n \in S : n \in Int /\ MaxName - n \in T
    BY <1>t DEF Names
  <1>2. T # {}
    BY <1>1
  <1>3. PICK k \in T : \A y \in T : k <= y
    BY <1>1, <1>2, LeastNumber
  <1>4. PICK n \in S : k = MaxName - n
    BY <1>t
  <1>5. \A m \in S : m <= n
    BY <1>1, <1>3, <1>4
  <1> QED
    BY <1>4, <1>5 DEF Newest

LEMMA BaselineIsAName == \A f : Baseline(f) \in Names \cup {NoName}
  BY NewestExists DEF Baseline, Candidates

LEMMA NoJobIsAJob ==
    /\ NoJob \in Operations
    /\ NoJob.who = "nobody" /\ NoJob.step = "idle" /\ NoJob.doomed = {}
    /\ NoJob.name = NoName /\ NoJob.parent = NoName
    /\ NoJob.content = NoFile /\ NoJob.scanned = NoFile
  <1>f. PICK f : f = CHOOSE x \in Filters : TRUE
    OBVIOUS
  <1>1. f \in Filters
    BY <1>f
  <1>2. NoJob = [who |-> "nobody", step |-> "idle", filter |-> f,
                 scanned |-> NoFile, content |-> NoFile, name |-> NoName,
                 parent |-> NoName, doomed |-> {}]
    BY <1>f DEF NoJob
  <1> QED
    BY <1>1, <1>2 DEF Operations, JobSteps

LEMMA MappedIsSmall ==
    ASSUME NEW D, IsFiniteSet(D), NEW g, DOMAIN g = D
    PROVE  /\ IsFiniteSet({g[x] : x \in D})
           /\ Cardinality({g[x] : x \in D}) <= Cardinality(D)
           /\ Cardinality({g[x] : x \in D}) \in Nat
  <1>t. PICK T : T = {g[x] : x \in D}
    OBVIOUS
  <1>h. PICK h : h = [x \in D |-> g[x]]
    OBVIOUS
  <1>1. h \in [D -> T] /\ \A y \in T : \E x \in D : h[x] = y
    BY <1>t, <1>h
  <1>2. h \in Surjection(D, T)
    BY <1>1 DEF Surjection
  <1>3. IsFiniteSet(T) /\ Cardinality(T) <= Cardinality(D)
    BY <1>2, FS_Surjection
  <1> QED
    BY <1>3, <1>t, FS_CardinalityType

\* There are serial numbers enough: a new delta always gets one of its own.
LEMMA SerialsSuffice ==
    ASSUME \E n \in Names : ~Exists(n)
    PROVE  /\ FreshSerial \in Serials \ {0}
           /\ \A n \in Names : IsDelta(n) => archive[n].serial # FreshSerial
                                             /\ archive[n].parentId.serial # FreshSerial
           /\ \A n \in Names : identity[n] # NoFile => identity[n].id.serial # FreshSerial
  <1>n. PICK n0 \in Names : ~Exists(n0)
    OBVIOUS
  <1>d. PICK D : D = Names \ {n0}
    OBVIOUS
  <1>m. MaxName \in Nat /\ Names = 1 .. MaxName /\ MaxName >= 1
    BY DEF Names
  <1>1. IsFiniteSet(Names) /\ Cardinality(Names) = MaxName
    BY <1>m, FS_Interval
  <1>2. IsFiniteSet(D) /\ Cardinality(D) = MaxName - 1
    BY <1>1, <1>d, <1>n, FS_RemoveElement
  <1>a. PICK a : a = [n \in D |-> archive[n].serial]
    OBVIOUS
  <1>b. PICK b : b = [n \in D |-> archive[n].parentId.serial]
    OBVIOUS
  <1>c. PICK c : c = [n \in Names |-> identity[n].id.serial]
    OBVIOUS
  <1>A. PICK A : A = {a[x] : x \in D}
    OBVIOUS
  <1>B. PICK B : B = {b[x] : x \in D}
    OBVIOUS
  <1>C. PICK C : C = {c[x] : x \in Names}
    OBVIOUS
  <1>3. IsFiniteSet(A) /\ Cardinality(A) \in Nat /\ Cardinality(A) <= MaxName - 1
    BY <1>2, <1>a, <1>A, MappedIsSmall
  <1>4. IsFiniteSet(B) /\ Cardinality(B) \in Nat /\ Cardinality(B) <= MaxName - 1
    BY <1>2, <1>b, <1>B, MappedIsSmall
  <1>5. IsFiniteSet(C) /\ Cardinality(C) \in Nat /\ Cardinality(C) <= MaxName
    BY <1>1, <1>c, <1>C, MappedIsSmall
  <1>6. /\ IsFiniteSet(A \cup B) /\ Cardinality(A \cup B) \in Nat
        /\ Cardinality(A \cup B) <= (MaxName - 1) + (MaxName - 1)
    <2>1. IsFiniteSet(A \cup B) /\ Cardinality(A \cup B) = Cardinality(A) + Cardinality(B) - Cardinality(A \cap B)
      BY <1>3, <1>4, FS_Union
    <2>2. Cardinality(A \cup B) \in Nat /\ Cardinality(A \cap B) \in Nat
      BY <1>3, <2>1, FS_CardinalityType, FS_Intersection
    <2> QED
      BY <2>1, <2>2, <1>3, <1>4, <1>m
  <1>u. PICK U : U = (A \cup B) \cup C
    OBVIOUS
  <1>7. IsFiniteSet(U) /\ Cardinality(U) \in Nat /\ Cardinality(U) < 3 * MaxName
    <2>1. IsFiniteSet(U) /\ Cardinality(U) = Cardinality(A \cup B) + Cardinality(C) - Cardinality((A \cup B) \cap C)
      BY <1>5, <1>6, <1>u, FS_Union
    <2>2. Cardinality(U) \in Nat /\ Cardinality((A \cup B) \cap C) \in Nat
      BY <1>6, <2>1, FS_CardinalityType, FS_Intersection
    <2> QED
      BY <2>1, <2>2, <1>5, <1>6, <1>m
  <1>8. \E s \in 1 .. 3 * MaxName : s \notin U
    <2> SUFFICES ASSUME 1 .. 3 * MaxName \subseteq U PROVE FALSE
      OBVIOUS
    <2>1. 3 * MaxName \in Int /\ ~(1 > 3 * MaxName)
      BY <1>m
    <2>2. Cardinality(1 .. 3 * MaxName) = 3 * MaxName
      BY <2>1, FS_Interval
    <2>3. Cardinality(1 .. 3 * MaxName) <= Cardinality(U)
      BY <1>7, FS_Subset
    <2> QED
      BY <2>1, <2>2, <2>3, <1>7
  <1>9. PICK s \in 1 .. 3 * MaxName : s \notin U
    BY <1>8
  <1>10. s \in Serials \ {0}
    BY <1>m DEF Serials
  <1>11. \A n \in Names : IsDelta(n) => archive[n].serial # s /\ archive[n].parentId.serial # s
    <2>1. \A n \in Names : IsDelta(n) => n \in D
      BY <1>d, <1>n DEF IsDelta
    <2>2. \A n \in D : archive[n].serial \in U /\ archive[n].parentId.serial \in U
      BY <1>a, <1>b, <1>A, <1>B, <1>u
    <2> QED
      BY <2>1, <2>2, <1>9
  <1>12. \A n \in Names : identity[n] # NoFile => identity[n].id.serial # s
    BY <1>c, <1>C, <1>u, <1>9
  <1> QED
    BY <1>10, <1>11, <1>12 DEF FreshSerial

-----------------------------------------------------------------------------
(* What the steps do to the operation *)

SameJob(j, k) ==
  /\ k.who = j.who /\ k.filter = j.filter /\ k.scanned = j.scanned
  /\ k.content = j.content /\ k.name = j.name /\ k.parent = j.parent
  /\ k.doomed = j.doomed

LEMMA GoesTo ==
    ASSUME job \in Operations, NEW s \in JobSteps, Goto(s)
    PROVE  job' \in Operations /\ job'.step = s /\ SameJob(job, job')
  BY DEF Operations, Goto, SameJob

LEMMA ScanIsContent ==
    ASSUME source \in Versions, NEW f \in Filters
    PROVE  Scan(f) \in Contents /\ Scan(f).version = source /\ Scan(f).filter = f
  BY DEF Scan, Contents

LEMMA EngineScanDoes ==
    ASSUME RepositoryTyped, EngineScan
    PROVE  /\ job' \in Operations /\ job'.step = "decide"
           /\ job'.content = Scan(job.filter)
           /\ job'.who = job.who /\ job'.filter = job.filter
           /\ job'.scanned = job.scanned /\ job'.name = job.name
           /\ job'.parent = job.parent /\ job'.doomed = job.doomed
  <1>c. PICK c : c = Scan(job.filter)
    OBVIOUS
  <1>1. c \in Contents
    BY <1>c, ScanIsContent DEF RepositoryTyped, WorldTyped, Operations
  <1>2. job \in Operations /\ job' = [job EXCEPT !.content = c, !.step = "decide"]
    BY <1>c DEF RepositoryTyped, EngineScan
  <1> QED
    BY <1>1, <1>2, <1>c DEF Operations, JobSteps

LEMMA EngineDecideDoes ==
    ASSUME RepositoryTyped, EngineDecide
    PROVE  /\ job' \in Operations /\ job'.parent = Baseline(job.filter)
           /\ job'.step = IF /\ job'.parent # NoName
                             /\ manifest[job'.parent] = job.content
                          THEN "unchanged" ELSE "archive"
           /\ job'.who = job.who /\ job'.filter = job.filter
           /\ job'.scanned = job.scanned /\ job'.name = job.name
           /\ job'.content = job.content /\ job'.doomed = job.doomed
  <1>b. PICK b : b = Baseline(job.filter)
    OBVIOUS
  <1>s. PICK s : s = IF b # NoName /\ manifest[b] = job.content
                     THEN "unchanged" ELSE "archive"
    OBVIOUS
  <1>1. b \in Names \cup {NoName} /\ s \in JobSteps
    BY <1>b, <1>s, BaselineIsAName DEF JobSteps
  <1>2. job \in Operations /\ job' = [job EXCEPT !.parent = b, !.step = s]
    BY <1>b, <1>s DEF RepositoryTyped, EngineDecide
  <1>3. /\ job' \in Operations /\ job'.parent = b /\ job'.step = s
        /\ job'.who = job.who /\ job'.filter = job.filter
        /\ job'.scanned = job.scanned /\ job'.name = job.name
        /\ job'.content = job.content /\ job'.doomed = job.doomed
    BY <1>1, <1>2 DEF Operations
  <1> QED
    BY <1>3, <1>b, <1>s

\* The archive a backup writes.
NewArchive ==
  IF job.parent = NoName THEN Full(job.content)
  ELSE Delta(job.content, FreshSerial, job.parent, IdOf(archive[job.parent]),
             IF archive[job.parent].kind = "delta" THEN archive[job.parent].base
             ELSE IdOf(archive[job.parent]))

LEMMA EngineArchiveDoes ==
    ASSUME RepositoryTyped, EngineArchive
    PROVE  \E n \in Names :
             /\ ~Exists(n) /\ (ClockGoesBack \/ n = lastName + 1)
             /\ job.parent # NoName => Exists(job.parent)
             /\ archive' = [archive EXCEPT ![n] = NewArchive]
             /\ lastName' = IF n > lastName THEN n ELSE lastName
             /\ job' \in Operations /\ job'.step = "manifest" /\ job'.name = n
             /\ job'.who = job.who /\ job'.filter = job.filter
             /\ job'.scanned = job.scanned /\ job'.parent = job.parent
             /\ job'.content = job.content /\ job'.doomed = job.doomed
  <1>n. PICK n \in FreeNames :
       /\ IF job.parent = NoName
          THEN archive' = [archive EXCEPT ![n] = Full(job.content)]
          ELSE /\ Exists(job.parent)
               /\ LET p == archive[job.parent]
                      base == IF p.kind = "delta" THEN p.base ELSE IdOf(p)
                  IN  archive' = [archive EXCEPT ![n] =
                        Delta(job.content, FreshSerial, job.parent, IdOf(p), base)]
       /\ lastName' = IF n > lastName THEN n ELSE lastName
       /\ job' = [job EXCEPT !.name = n, !.step = "manifest"]
    BY DEF EngineArchive
  <1>1. n \in Names /\ ~Exists(n) /\ (ClockGoesBack \/ n = lastName + 1)
    BY <1>n DEF FreeNames
  <1>2. archive' = [archive EXCEPT ![n] = NewArchive]
    BY <1>n DEF NewArchive
  <1>3. job \in Operations /\ job' = [job EXCEPT !.name = n, !.step = "manifest"]
    BY <1>n DEF RepositoryTyped
  <1>4. /\ job' \in Operations /\ job'.step = "manifest" /\ job'.name = n
        /\ job'.who = job.who /\ job'.filter = job.filter
        /\ job'.scanned = job.scanned /\ job'.parent = job.parent
        /\ job'.content = job.content /\ job'.doomed = job.doomed
    BY <1>1, <1>3 DEF Operations, JobSteps
  <1>5. /\ job.parent # NoName => Exists(job.parent)
        /\ lastName' = IF n > lastName THEN n ELSE lastName
    BY <1>n
  <1> QED
    BY <1>1, <1>2, <1>4, <1>5

LEMMA PlainArchiveDoes ==
    ASSUME RepositoryTyped, PlainArchive
    PROVE  \E n \in Names :
             /\ ~Exists(n) /\ (ClockGoesBack \/ n = lastName + 1)
             /\ archive' = [archive EXCEPT ![n] = Full(Scan(job.filter))]
             /\ lastName' = IF n > lastName THEN n ELSE lastName
             /\ job' \in Operations /\ job'.step = "done" /\ job'.name = n
             /\ job'.who = job.who /\ job'.filter = job.filter
             /\ job'.scanned = job.scanned /\ job'.parent = job.parent
             /\ job'.content = job.content /\ job'.doomed = job.doomed
  <1>n. PICK n \in FreeNames :
       /\ archive' = [archive EXCEPT ![n] = Full(Scan(job.filter))]
       /\ lastName' = IF n > lastName THEN n ELSE lastName
       /\ job' = [job EXCEPT !.name = n, !.step = "done"]
    BY DEF PlainArchive
  <1>1. n \in Names /\ ~Exists(n) /\ (ClockGoesBack \/ n = lastName + 1)
    BY <1>n DEF FreeNames
  <1>3. job \in Operations /\ job' = [job EXCEPT !.name = n, !.step = "done"]
    BY <1>n DEF RepositoryTyped
  <1>4. /\ job' \in Operations /\ job'.step = "done" /\ job'.name = n
        /\ job'.who = job.who /\ job'.filter = job.filter
        /\ job'.scanned = job.scanned /\ job'.parent = job.parent
        /\ job'.content = job.content /\ job'.doomed = job.doomed
    BY <1>1, <1>3 DEF Operations, JobSteps
  <1> QED
    BY <1>1, <1>n, <1>4

LEMMA UnlinkDoes ==
    ASSUME RepositoryTyped, NEW n \in Names, Unlink(n)
    PROVE  /\ job' \in Operations /\ job'.step = "sweep" /\ job'.name = n
           /\ job'.doomed = job.doomed \ {n}
           /\ job'.who = job.who /\ job'.filter = job.filter
           /\ job'.scanned = job.scanned /\ job'.parent = job.parent
           /\ job'.content = job.content
  <1>d. PICK d : d = job.doomed \ {n}
    OBVIOUS
  <1>1. job \in Operations /\ job' = [job EXCEPT !.doomed = d, !.name = n, !.step = "sweep"]
    BY <1>d DEF RepositoryTyped, Unlink
  <1>2. d \in SUBSET Names
    BY <1>d DEF RepositoryTyped, Operations
  <1>3. /\ job' \in Operations /\ job'.step = "sweep" /\ job'.name = n
        /\ job'.doomed = d
        /\ job'.who = job.who /\ job'.filter = job.filter
        /\ job'.scanned = job.scanned /\ job'.parent = job.parent
        /\ job'.content = job.content
    BY <1>1, <1>2 DEF Operations, JobSteps
  <1> QED
    BY <1>3, <1>d

LEMMA StartManualBackupDoes ==
    ASSUME RepositoryTyped, StartManualBackup
    PROVE  /\ job' \in Operations /\ job'.who = "user" /\ job'.step \in {"plain", "scan"}
           /\ job'.name = NoName /\ job'.parent = NoName /\ job'.doomed = {}
           /\ job'.content = NoFile /\ job'.scanned = NoFile
  <1>n. PICK n : n = NoJob
    OBVIOUS
  <1>1. /\ n \in Operations /\ n.name = NoName /\ n.parent = NoName /\ n.doomed = {}
        /\ n.content = NoFile /\ n.scanned = NoFile
    BY <1>n, NoJobIsAJob
  <1>p. PICK s \in {"plain", "scan"}, f \in Filters :
          job' = [n EXCEPT !.who = "user", !.step = s, !.filter = f]
    BY <1>n DEF StartManualBackup
  <1> QED
    BY <1>1, <1>p DEF Operations, JobSteps

LEMMA StartManualDeleteDoes ==
    ASSUME RepositoryTyped, StartManualDelete
    PROVE  /\ job' \in Operations /\ job'.who = "user" /\ job'.step = "unlink"
           /\ job'.name = NoName /\ job'.parent = NoName
           /\ job'.content = NoFile /\ job'.scanned = NoFile
           /\ DeletionAccepted(job'.doomed)
  <1>n. PICK n : n = NoJob
    OBVIOUS
  <1>1. /\ n \in Operations /\ n.name = NoName /\ n.parent = NoName
        /\ n.content = NoFile /\ n.scanned = NoFile
    BY <1>n, NoJobIsAJob
  <1>s. PICK S \in SUBSET Names :
          /\ DeletionAccepted(S)
          /\ job' = [n EXCEPT !.who = "user", !.step = "unlink", !.doomed = S]
    BY <1>n DEF StartManualDelete
  <1>2. /\ job' \in Operations /\ job'.who = "user" /\ job'.step = "unlink"
        /\ job'.name = NoName /\ job'.parent = NoName
        /\ job'.content = NoFile /\ job'.scanned = NoFile
        /\ job'.doomed = S
    BY <1>1, <1>s DEF Operations, JobSteps
  <1> QED
    BY <1>2, <1>s

-----------------------------------------------------------------------------
(* The steps of a service over the repository, by the files they touch      *)

\* None but markers: an operation starts, ends or goes to its next step.  It
\* gets to the archive by way of the engine's decision, and to a deletion by
\* way of its acceptance.
KeepsSnapshots ==
  /\ UNCHANGED <<archive, manifest, identity, source, lastName, damaged>>
  /\ DOMAIN marker' = DOMAIN marker
  /\ manual' = manual \/ (manual' = manual + 1 /\ manual < MaxManual)
  /\ job' \in Operations /\ JobNamed'
  /\ job'.step \notin {"manifest", "identity", "sweep"}
  /\ job'.step = "archive" => EngineDecide
  /\ job'.step = "unlink" => DeletionAccepted(job'.doomed)

\* Those of the snapshot that is made.
MakesSnapshot ==
  EngineArchive \/ EngineManifest \/ EngineIdentity \/ EngineFails \/ PlainArchive

\* Those of snapshots that are deleted, or have gone.
CleansOrphans ==
  /\ manifest' = WithoutOrphans(manifest)
  /\ identity' = WithoutOrphans(identity)
  /\ marker' = WithoutOrphans(marker)
  /\ UNCHANGED <<world, archive>>
  /\ job' \in Operations /\ job'.step \in {"idle", "save"}
DeletesSnapshots == Sweep \/ CleansOrphans \/ \E n \in Names : Unlink(n)
\* Those the user touches.
TouchesByHand == SourceChanges \/ \E n \in Names : HandRemoves(n) \/ HandReplaces(n)

RepositoryStep ==
  \/ KeepsSnapshots \/ MakesSnapshot \/ DeletesSnapshots \/ TouchesByHand
  \/ UNCHANGED repoVars

-----------------------------------------------------------------------------
(* Type correctness *)

LEMMA FullIsArchive ==
    ASSUME NEW c \in Contents
    PROVE  Full(c) \in Archives /\ ~(Full(c).kind = "delta") /\ Full(c).content = c
  BY DEF Full, Archives, Serials

LEMMA IdOfIsId ==
    ASSUME NEW a \in Archives
    PROVE  IdOf(a) \in Ids /\ IdOf(a).content = a.content
  BY DEF IdOf, Ids, Archives

LEMMA NewArchiveIs ==
    ASSUME RepositoryTyped, At("archive"), \E n \in Names : ~Exists(n),
           job.parent # NoName => Exists(job.parent)
    PROVE  /\ NewArchive \in Archives /\ NewArchive # NoFile
           /\ NewArchive.content = job.content
           /\ NewArchive.kind = "delta" => job.parent \in Names /\ NewArchive.parent = job.parent
           /\ NewArchive.kind = "delta" =>
                /\ Exists(job.parent)
                /\ NewArchive.parentId = IdOf(archive[job.parent])
                /\ NewArchive.parentId \in Ids /\ NewArchive.base \in Ids
                /\ NewArchive.base = IF IsDelta(job.parent) THEN archive[job.parent].base
                                     ELSE IdOf(archive[job.parent])
           /\ job.parent # NoName => NewArchive.kind = "delta"
  <1>c. job.content \in Contents /\ job \in Operations
    BY DEF RepositoryTyped, JobNamed, At
  <1>1. CASE job.parent = NoName
    BY <1>1, <1>c, FullIsArchive, NoFileIsNoFile DEF NewArchive
  <1>2. CASE job.parent # NoName
    <2>p. PICK p : p = job.parent
      OBVIOUS
    <2>1. p \in Names /\ Exists(p)
      BY <1>2, <1>c, <2>p DEF Operations
    <2>2. archive[p] \in Archives
      BY <2>1 DEF RepositoryTyped, FilesTyped, Exists
    <2>3. IdOf(archive[p]) \in Ids
      BY <2>2, IdOfIsId
    <2>b. PICK base : base = IF archive[p].kind = "delta" THEN archive[p].base ELSE IdOf(archive[p])
      OBVIOUS
    <2>4. base \in Ids
      BY <2>1, <2>3, <2>b DEF RepositoryTyped, FilesTyped, Envelopes, IsDeltaOf, Exists
    <2>5. FreshSerial \in Serials
      BY SerialsSuffice
    <2>s. PICK s : s = FreshSerial
      OBVIOUS
    <2>i. PICK i : i = IdOf(archive[p])
      OBVIOUS
    <2>6. NewArchive = Delta(job.content, s, p, i, base)
      BY <1>2, <2>p, <2>b, <2>s, <2>i DEF NewArchive
    <2>7. /\ Delta(job.content, s, p, i, base) \in Archives
          /\ Delta(job.content, s, p, i, base).content = job.content
          /\ Delta(job.content, s, p, i, base).kind = "delta"
          /\ Delta(job.content, s, p, i, base).parent = p
          /\ Delta(job.content, s, p, i, base).parentId = i
          /\ Delta(job.content, s, p, i, base).base = base
      BY <1>c, <2>1, <2>3, <2>4, <2>5, <2>s, <2>i DEF Delta, Archives
    <2>8. base = IF IsDelta(p) THEN archive[p].base ELSE IdOf(archive[p])
      BY <2>b, <2>1 DEF IsDelta
    <2> QED
      BY <2>1, <2>3, <2>4, <2>6, <2>7, <2>8, <2>p, <2>i, NoFileIsNoFile
  <1> QED
    BY <1>1, <1>2

LEMMA FilesTypedSame ==
    ASSUME FilesTyped, UNCHANGED files
    PROVE  FilesTyped'
  BY DEF FilesTyped, files, Envelopes, IsDeltaOf

LEMMA WorldTypedSame == ASSUME WorldTyped, UNCHANGED world PROVE WorldTyped'
  BY DEF WorldTyped, world

\* One archive is written or goes, with or without its sidecars.
LEMMA FilesTypedOne ==
    ASSUME FilesTyped, NEW n \in Names, NEW x \in Archives \cup {NoFile},
           archive' \in {archive, [archive EXCEPT ![n] = x]},
           x \in Archives /\ x.kind = "delta" =>
             /\ x.parent \in Names /\ x.parentId \in Ids /\ x.base \in Ids,
           NEW c \in Contents \cup {NoFile},
           manifest' \in {manifest, [manifest EXCEPT ![n] = c]},
           NEW i \in Identities \cup {NoFile},
           identity' \in {identity, [identity EXCEPT ![n] = i]},
           DOMAIN marker' = Names
    PROVE  FilesTyped'
  <1>1. archive' \in [Names -> Archives \cup {NoFile}]
    BY DEF FilesTyped
  <1>2. manifest' \in [Names -> Contents \cup {NoFile}]
    BY DEF FilesTyped
  <1>3. identity' \in [Names -> Identities \cup {NoFile}]
    BY DEF FilesTyped
  <1>4. Envelopes(archive')
    <2> SUFFICES ASSUME NEW m \in Names, IsDeltaOf(archive', m)
                 PROVE  /\ archive'[m].parent \in Names /\ archive'[m].parentId \in Ids
                        /\ archive'[m].base \in Ids
      BY DEF Envelopes
    <2>1. archive'[m] = archive[m] \/ archive'[m] = x
      BY DEF FilesTyped
    <2>2. CASE archive'[m] = archive[m]
      BY <2>2 DEF FilesTyped, Envelopes, IsDeltaOf
    <2>3. CASE archive'[m] = x
      BY <2>3, NoFileIsNoFile DEF IsDeltaOf
    <2> QED
      BY <2>1, <2>2, <2>3
  <1> QED
    BY <1>1, <1>2, <1>3, <1>4 DEF FilesTyped, Envelopes, IsDeltaOf

LEMMA TypedKeeping == ASSUME RepositoryTyped, KeepsSnapshots PROVE RepositoryTyped'
  <1>1. FilesTyped'
    BY DEF KeepsSnapshots, RepositoryTyped, FilesTyped, Envelopes, IsDeltaOf
  <1>2. WorldTyped'
    <2>1. WorldTyped /\ UNCHANGED <<source, lastName, damaged>>
      BY DEF KeepsSnapshots, RepositoryTyped
    <2>2. manual' \in 0 .. MaxManual
      <3>1. manual \in 0 .. MaxManual
        BY <2>1 DEF WorldTyped
      <3>2. manual' = manual \/ (manual' = manual + 1 /\ manual < MaxManual)
        BY DEF KeepsSnapshots
      <3> QED
        BY <3>1, <3>2
    <2> QED
      BY <2>1, <2>2 DEF WorldTyped
  <1> QED
    BY <1>1, <1>2 DEF KeepsSnapshots, RepositoryTyped

LEMMA TypedMaking == ASSUME RepositoryTyped, MakesSnapshot PROVE RepositoryTyped'
  <1>n. NoFile \in Contents \cup {NoFile} /\ NoFile \in Identities \cup {NoFile}
        /\ NoFile \in Archives \cup {NoFile} /\ NoFile \notin Archives
    BY NoFileIsNoFile
  <1>1. CASE EngineArchive
    <2>n. PICK n \in Names :
             /\ ~Exists(n) /\ (ClockGoesBack \/ n = lastName + 1)
             /\ job.parent # NoName => Exists(job.parent)
             /\ archive' = [archive EXCEPT ![n] = NewArchive]
             /\ lastName' = IF n > lastName THEN n ELSE lastName
             /\ job' \in Operations /\ job'.step = "manifest" /\ job'.name = n
             /\ job'.who = job.who /\ job'.filter = job.filter
             /\ job'.scanned = job.scanned /\ job'.parent = job.parent
             /\ job'.content = job.content /\ job'.doomed = job.doomed
      BY <1>1, EngineArchiveDoes
    <2>x. PICK x : x = NewArchive
      OBVIOUS
    <2>1. /\ x \in Archives
          /\ x.kind = "delta" => x.parent \in Names /\ x.parentId \in Ids /\ x.base \in Ids
      BY <1>1, <2>n, <2>x, NewArchiveIs DEF EngineArchive
    <2>2. FilesTyped'
      BY <1>1, <1>n, <2>n, <2>x, <2>1, FilesTypedOne DEF EngineArchive, RepositoryTyped, FilesTyped
    <2>3. WorldTyped'
      BY <1>1, <2>n DEF EngineArchive, RepositoryTyped, WorldTyped, Names
    <2>4. JobNamed'
      BY <1>1, <2>n DEF EngineArchive, RepositoryTyped, JobNamed, At
    <2> QED
      BY <2>n, <2>2, <2>3, <2>4 DEF RepositoryTyped
  <1>2. CASE EngineManifest
    <2>1. "identity" \in JobSteps
      BY DEF JobSteps
    <2>2. job' \in Operations /\ job'.step = "identity" /\ SameJob(job, job')
      BY <1>2, <2>1, GoesTo DEF EngineManifest, RepositoryTyped
    <2>3. job.name \in Names /\ job.content \in Contents
      BY <1>2 DEF EngineManifest, RepositoryTyped, JobNamed, At
    <2>4. FilesTyped'
      BY <1>2, <1>n, <2>3, FilesTypedOne DEF EngineManifest, RepositoryTyped, FilesTyped
    <2>5. JobNamed'
      BY <2>2, <2>3 DEF JobNamed, SameJob
    <2> QED
      BY <1>2, <2>2, <2>4, <2>5, WorldTypedSame DEF RepositoryTyped, EngineManifest
  <1>3. CASE EngineIdentity
    <2>1. "done" \in JobSteps
      BY DEF JobSteps
    <2>2. job' \in Operations /\ job'.step = "done" /\ SameJob(job, job')
      BY <1>3, <2>1, GoesTo DEF EngineIdentity, RepositoryTyped
    <2>3. job.name \in Names /\ job.content \in Contents /\ job.filter \in Filters
      BY <1>3 DEF EngineIdentity, RepositoryTyped, JobNamed, At, Operations
    <2>4. IdOf(archive[job.name]) \in Ids
      BY <1>3, <2>3, IdOfIsId DEF EngineIdentity, Exists, RepositoryTyped, FilesTyped
    <2>i. PICK i : i = [id |-> IdOf(archive[job.name]), content |-> job.content,
                        filter |-> job.filter]
      OBVIOUS
    <2>5. i \in Identities
      BY <2>i, <2>3, <2>4 DEF Identities
    <2>6. FilesTyped'
      BY <1>3, <1>n, <2>3, <2>i, <2>5, FilesTypedOne DEF EngineIdentity, RepositoryTyped, FilesTyped
    <2>7. JobNamed'
      BY <2>2, <2>3 DEF JobNamed, SameJob
    <2> QED
      BY <1>3, <2>2, <2>6, <2>7, WorldTypedSame DEF RepositoryTyped, EngineIdentity
  <1>4. CASE EngineFails
    <2>1. "failed" \in JobSteps
      BY DEF JobSteps
    <2>2. job' \in Operations /\ job'.step = "failed"
      BY <1>4, <2>1, GoesTo DEF EngineFails, RepositoryTyped
    <2>3. FilesTyped'
      <3>1. CASE At("manifest") \/ At("identity")
        <4>1. job.name \in Names
          BY <3>1 DEF RepositoryTyped, JobNamed, At
        <4> QED
          BY <1>4, <1>n, <4>1, FilesTypedOne DEF EngineFails, RepositoryTyped, FilesTyped
      <3>2. CASE ~(At("manifest") \/ At("identity"))
        BY <1>4, <3>2, FilesTypedSame DEF EngineFails, RepositoryTyped, files
      <3> QED
        BY <3>1, <3>2
    <2>4. JobNamed'
      BY <2>2 DEF JobNamed
    <2> QED
      BY <1>4, <2>2, <2>3, <2>4, WorldTypedSame DEF RepositoryTyped, EngineFails
  <1>5. CASE PlainArchive
    <2>n. PICK n \in Names :
             /\ ~Exists(n) /\ (ClockGoesBack \/ n = lastName + 1)
             /\ archive' = [archive EXCEPT ![n] = Full(Scan(job.filter))]
             /\ lastName' = IF n > lastName THEN n ELSE lastName
             /\ job' \in Operations /\ job'.step = "done" /\ job'.name = n
             /\ job'.who = job.who /\ job'.filter = job.filter
             /\ job'.scanned = job.scanned /\ job'.parent = job.parent
             /\ job'.content = job.content /\ job'.doomed = job.doomed
      BY <1>5, PlainArchiveDoes
    <2>x. PICK x : x = Full(Scan(job.filter))
      OBVIOUS
    <2>1. x \in Archives /\ ~(x.kind = "delta")
      BY <2>x, FullIsArchive, ScanIsContent DEF RepositoryTyped, WorldTyped, Operations
    <2>2. FilesTyped'
      BY <1>5, <1>n, <2>n, <2>x, <2>1, FilesTypedOne DEF PlainArchive, RepositoryTyped, FilesTyped
    <2>3. WorldTyped'
      BY <1>5, <2>n DEF PlainArchive, RepositoryTyped, WorldTyped, Names
    <2>4. JobNamed'
      BY <2>n DEF JobNamed
    <2> QED
      BY <2>n, <2>2, <2>3, <2>4 DEF RepositoryTyped
  <1> QED
    BY <1>1, <1>2, <1>3, <1>4, <1>5 DEF MakesSnapshot

LEMMA TypedDeletion == ASSUME RepositoryTyped, DeletesSnapshots PROVE RepositoryTyped'
  <1>n. NoFile \in Contents \cup {NoFile} /\ NoFile \in Identities \cup {NoFile}
        /\ NoFile \in Archives \cup {NoFile} /\ NoFile \notin Archives
    BY NoFileIsNoFile
  <1>1. CASE Sweep
    <2>1. PICK s \in {"deleted", "unlink"} : Goto(s)
      BY <1>1 DEF Sweep
    <2>2. s \in JobSteps
      BY DEF JobSteps
    <2>3. job' \in Operations /\ job'.step = s
      BY <2>1, <2>2, GoesTo DEF RepositoryTyped
    <2>4. JobNamed'
      BY <2>3 DEF JobNamed
    <2>5. job.name \in Names
      BY <1>1 DEF Sweep, RepositoryTyped, JobNamed, At
    <2>6. FilesTyped'
      <3>1. DOMAIN marker' = Names
        BY <1>1 DEF Sweep, RepositoryTyped, FilesTyped
      <3>2. manifest' \in {manifest, [manifest EXCEPT ![job.name] = NoFile]}
        BY <1>1 DEF Sweep
      <3>3. identity' \in {identity, [identity EXCEPT ![job.name] = NoFile]}
        BY <1>1 DEF Sweep
      <3>4. archive' = archive
        BY <1>1 DEF Sweep
      <3> QED
        BY <1>n, <2>5, <3>1, <3>2, <3>3, <3>4, FilesTypedOne DEF RepositoryTyped
    <2> QED
      BY <1>1, <2>3, <2>4, <2>6, WorldTypedSame DEF Sweep, RepositoryTyped
  <1>2. CASE CleansOrphans
    <2>2. job' \in Operations /\ job'.step \in {"idle", "save"}
      BY <1>2 DEF CleansOrphans
    <2>3. JobNamed'
      BY <2>2 DEF JobNamed
    <2>4. FilesTyped'
      BY <1>2 DEF CleansOrphans, WithoutOrphans, RepositoryTyped, FilesTyped, Envelopes, IsDeltaOf
    <2> QED
      BY <1>2, <2>2, <2>3, <2>4, WorldTypedSame DEF CleansOrphans, RepositoryTyped
  <1>3. CASE \E n \in Names : Unlink(n)
    <2>1. PICK n \in Names : Unlink(n)
      BY <1>3
    <2>2. job' \in Operations /\ job'.step = "sweep" /\ job'.name = n
      BY <2>1, UnlinkDoes
    <2>3. JobNamed'
      BY <2>2 DEF JobNamed
    <2>4. FilesTyped'
      BY <2>1, <1>n, FilesTypedOne DEF Unlink, RepositoryTyped, FilesTyped
    <2> QED
      BY <2>1, <2>2, <2>3, <2>4, WorldTypedSame DEF Unlink, RepositoryTyped
  <1> QED
    BY <1>1, <1>2, <1>3 DEF DeletesSnapshots

LEMMA TypedHand == ASSUME RepositoryTyped, TouchesByHand PROVE RepositoryTyped'
  <1>n. NoFile \in Contents \cup {NoFile} /\ NoFile \in Identities \cup {NoFile}
        /\ NoFile \in Archives \cup {NoFile} /\ NoFile \notin Archives
    BY NoFileIsNoFile
  <1>1. CASE SourceChanges
    <2>1. WorldTyped'
      BY <1>1 DEF SourceChanges, RepositoryTyped, WorldTyped
    <2>2. job' \in Operations /\ JobNamed'
      BY <1>1 DEF SourceChanges, RepositoryTyped, JobNamed
    <2> QED
      BY <1>1, <2>1, <2>2, FilesTypedSame DEF SourceChanges, RepositoryTyped
  <1>2. CASE \E n \in Names : HandRemoves(n) \/ HandReplaces(n)
    <2>n. PICK n \in Names : HandRemoves(n) \/ HandReplaces(n)
      BY <1>2
    <2>1. WorldTyped'
      BY <2>n DEF HandRemoves, HandReplaces, RepositoryTyped, WorldTyped
    <2>2. job' \in Operations /\ JobNamed'
      BY <2>n DEF HandRemoves, HandReplaces, RepositoryTyped, JobNamed
    <2>3. FilesTyped'
      <3>1. PICK x \in Archives \cup {NoFile} :
                archive' = [archive EXCEPT ![n] = x] /\ (x \in Archives => ~(x.kind = "delta"))
        BY <2>n, <1>n, FullIsArchive DEF HandRemoves, HandReplaces
      <3> QED
        BY <2>n, <3>1, <1>n, FilesTypedOne DEF HandRemoves, HandReplaces, RepositoryTyped, FilesTyped
    <2> QED
      BY <2>1, <2>2, <2>3 DEF RepositoryTyped
  <1> QED
    BY <1>1, <1>2 DEF TouchesByHand

LEMMA RepositoryTypedStep == RepositoryTyped /\ RepositoryStep => RepositoryTyped'
  <1>1. RepositoryTyped /\ UNCHANGED repoVars => RepositoryTyped'
    BY FilesTypedSame, WorldTypedSame
       DEF RepositoryTyped, repoVars, files, world, JobNamed
  <1> QED
    BY <1>1, TypedKeeping, TypedMaking, TypedDeletion, TypedHand DEF RepositoryStep

-----------------------------------------------------------------------------
(* Where the steps of an operation lead *)

LEMMA DeletionSteps ==
    ASSUME RepositoryTyped, DeletesSnapshots
    PROVE  /\ UNCHANGED world
           /\ job'.step \in {"sweep", "unlink", "deleted", "save", "idle"}
           /\ job'.step = "sweep" => \E n \in Names : Unlink(n)
           /\ job'.step = "unlink" => Sweep
  <1>1. CASE Sweep
    <2>1. PICK s \in {"deleted", "unlink"} : Goto(s)
      BY <1>1 DEF Sweep
    <2>2. job'.step = s
      <3>1. s \in JobSteps
        BY DEF JobSteps
      <3> QED
        BY <2>1, <3>1, GoesTo DEF RepositoryTyped
    <2> QED
      BY <1>1, <2>2 DEF Sweep
  <1>2. CASE CleansOrphans
    BY <1>2 DEF CleansOrphans
  <1>3. ASSUME NEW n \in Names, Unlink(n)
        PROVE  UNCHANGED world /\ job'.step = "sweep"
    BY <1>3, UnlinkDoes DEF Unlink
  <1> QED
    BY <1>1, <1>2, <1>3 DEF DeletesSnapshots

LEMMA EngineSteps ==
    ASSUME RepositoryTyped, MakesSnapshot
    PROVE  /\ UNCHANGED <<source, damaged, manual, marker>>
           /\ job'.step \in {"manifest", "identity", "done", "failed"}
           /\ job'.step = "manifest" => EngineArchive
           /\ job'.step = "identity" => EngineManifest
           /\ job'.step = "done" => EngineIdentity \/ PlainArchive
  <1>1. CASE EngineArchive
    BY <1>1, EngineArchiveDoes DEF EngineArchive
  <1>2. CASE EngineManifest
    <2>1. "identity" \in JobSteps
      BY DEF JobSteps
    <2>2. job'.step = "identity"
      BY <1>2, <2>1, GoesTo DEF EngineManifest, RepositoryTyped
    <2> QED
      BY <1>2, <2>2 DEF EngineManifest, world
  <1>3. CASE EngineIdentity
    <2>1. "done" \in JobSteps
      BY DEF JobSteps
    <2>2. job'.step = "done"
      BY <1>3, <2>1, GoesTo DEF EngineIdentity, RepositoryTyped
    <2> QED
      BY <1>3, <2>2 DEF EngineIdentity, world
  <1>4. CASE EngineFails
    <2>1. "failed" \in JobSteps
      BY DEF JobSteps
    <2>2. job'.step = "failed"
      BY <1>4, <2>1, GoesTo DEF EngineFails, RepositoryTyped
    <2> QED
      BY <1>4, <2>2 DEF EngineFails, world
  <1>5. CASE PlainArchive
    BY <1>5, PlainArchiveDoes DEF PlainArchive
  <1> QED
    BY <1>1, <1>2, <1>3, <1>4, <1>5 DEF MakesSnapshot

LEMMA HandSteps ==
    ASSUME TouchesByHand
    PROVE  /\ UNCHANGED <<manifest, identity, marker, lastName, job>>
           /\ \/ SourceChanges /\ UNCHANGED <<archive, damaged>>
              \/ \E n \in Names : /\ HandRemoves(n) \/ HandReplaces(n)
                                  /\ Exists(n) /\ source' = source
                                  /\ damaged' = damaged \cup {n}
                                  /\ n = job.name => HandRemoves(n)
  BY DEF TouchesByHand, SourceChanges, HandRemoves, HandReplaces, files

-----------------------------------------------------------------------------
(* The sidecars *)

RecordsAgree ==
  \A n \in Names : identity[n] # NoFile => identity[n].id.content = identity[n].content

\* The archive that is being published holds what its manifest will list.
Publishing ==
  /\ job.step \in {"manifest", "identity"} /\ Exists(job.name) =>
       archive[job.name].content = job.content
  /\ job.step = "identity" => manifest[job.name] = job.content

LEMMA PublishingStep == RepositoryTyped /\ Publishing /\ RepositoryStep => Publishing'
  <1> SUFFICES ASSUME RepositoryTyped, Publishing, RepositoryStep PROVE Publishing'
    OBVIOUS
  <1>1. CASE KeepsSnapshots
    BY <1>1 DEF KeepsSnapshots, Publishing
  <1>2. CASE DeletesSnapshots
    BY <1>2, DeletionSteps DEF Publishing
  <1>3. CASE MakesSnapshot
    <2>1. CASE EngineArchive
      <3>n. PICK n \in Names :
               /\ ~Exists(n) /\ (ClockGoesBack \/ n = lastName + 1)
               /\ job.parent # NoName => Exists(job.parent)
               /\ archive' = [archive EXCEPT ![n] = NewArchive]
               /\ lastName' = IF n > lastName THEN n ELSE lastName
               /\ job' \in Operations /\ job'.step = "manifest" /\ job'.name = n
               /\ job'.who = job.who /\ job'.filter = job.filter
               /\ job'.scanned = job.scanned /\ job'.parent = job.parent
               /\ job'.content = job.content /\ job'.doomed = job.doomed
        BY <2>1, EngineArchiveDoes
      <3>1. archive'[n] = NewArchive
        BY <3>n DEF RepositoryTyped, FilesTyped
      <3>2. NewArchive.content = job.content
        BY <2>1, <3>n, NewArchiveIs DEF EngineArchive
      <3> QED
        BY <3>n, <3>1, <3>2 DEF Publishing
    <2>2. CASE EngineManifest
      <3>1. "identity" \in JobSteps
        BY DEF JobSteps
      <3>2. job'.step = "identity" /\ SameJob(job, job')
        BY <2>2, <3>1, GoesTo DEF EngineManifest, RepositoryTyped
      <3>3. job.name \in Names /\ At("manifest")
        BY <2>2 DEF EngineManifest, RepositoryTyped, JobNamed, At
      <3>4. manifest'[job.name] = job.content /\ archive' = archive
        BY <2>2, <3>3 DEF EngineManifest, RepositoryTyped, FilesTyped
      <3> QED
        BY <3>2, <3>3, <3>4 DEF Publishing, SameJob, Exists, At
    <2>3. CASE ~EngineArchive /\ ~EngineManifest
      BY <1>3, <2>3, EngineSteps DEF Publishing
    <2> QED
      BY <2>1, <2>2, <2>3
  <1>4. CASE TouchesByHand
    <2>1. CASE UNCHANGED archive
      BY <1>4, <2>1, HandSteps DEF Publishing, Exists
    <2>2. CASE \E n \in Names : (HandRemoves(n) \/ HandReplaces(n)) /\ (n = job.name => HandRemoves(n))
      <3>n. PICK n \in Names : (HandRemoves(n) \/ HandReplaces(n)) /\ (n = job.name => HandRemoves(n))
        BY <2>2
      <3>1. CASE n = job.name
        <4>1. archive'[job.name] = NoFile
          BY <3>n, <3>1 DEF HandRemoves, RepositoryTyped, FilesTyped
        <4> QED
          BY <1>4, <4>1, HandSteps DEF Publishing, Exists
      <3>2. CASE n # job.name
        <4>1. job.step \in {"manifest", "identity"} => archive'[job.name] = archive[job.name]
          BY <3>n, <3>2 DEF HandRemoves, HandReplaces, RepositoryTyped, FilesTyped, JobNamed
        <4> QED
          BY <1>4, <4>1, HandSteps DEF Publishing, Exists
      <3> QED
        BY <3>1, <3>2
    <2> QED
      BY <1>4, <2>1, <2>2, HandSteps
  <1>5. CASE UNCHANGED repoVars
    BY <1>5 DEF repoVars, Publishing, Exists
  <1> QED
    BY <1>1, <1>2, <1>3, <1>4, <1>5 DEF RepositoryStep

LEMMA RecordsAgreeStep == RepositoryTyped /\ Publishing /\ RecordsAgree /\ RepositoryStep => RecordsAgree'
  <1> SUFFICES ASSUME RepositoryTyped, Publishing, RecordsAgree, RepositoryStep, NEW n \in Names,
                      identity'[n] # NoFile
               PROVE  identity'[n].id.content = identity'[n].content
    BY DEF RecordsAgree
  <1>1. CASE identity'[n] = identity[n]
    BY <1>1 DEF RecordsAgree
  <1>2. CASE identity'[n] = NoFile
    BY <1>2
  <1>3. CASE identity'[n] # identity[n] /\ identity'[n] # NoFile
    <2>1. ~KeepsSnapshots /\ ~(UNCHANGED repoVars)
      BY <1>3 DEF KeepsSnapshots, repoVars
    <2>2. ~TouchesByHand
      BY <1>3, HandSteps
    <2>3. ~DeletesSnapshots
      <3>1. ~Sweep
        BY <1>3 DEF Sweep, RepositoryTyped, FilesTyped
      <3>2. ~CleansOrphans
        BY <1>3 DEF CleansOrphans, WithoutOrphans
      <3>3. \A m \in Names : ~Unlink(m)
        BY <1>3 DEF Unlink
      <3> QED
        BY <3>1, <3>2, <3>3 DEF DeletesSnapshots
    <2>4. EngineIdentity
      BY <1>3, <2>1, <2>2, <2>3
         DEF RepositoryStep, MakesSnapshot, EngineArchive, EngineManifest, EngineFails, PlainArchive
    <2>5. job.name \in Names /\ job.step = "identity"
      BY <2>4 DEF EngineIdentity, RepositoryTyped, JobNamed, At
    <2>6. n = job.name
      BY <1>3, <2>4, <2>5 DEF EngineIdentity, RepositoryTyped, FilesTyped
    <2>7. identity'[n] = [id |-> IdOf(archive[job.name]), content |-> job.content,
                          filter |-> job.filter]
      BY <2>4, <2>6 DEF EngineIdentity, RepositoryTyped, FilesTyped
    <2>8. archive[job.name].content = job.content
      BY <2>4, <2>5 DEF EngineIdentity, Publishing
    <2> QED
      BY <2>7, <2>8 DEF IdOf
  <1> QED
    BY <1>1, <1>2, <1>3

LEMMA AgreeingMeansTrue == RecordsAgree => VerifiedManifestsTellTheTruth
  BY DEF RecordsAgree, VerifiedManifestsTellTheTruth, Verified, IdOf

-----------------------------------------------------------------------------
(* Chains whose archives the user has left alone *)

\* A delta on p can be resolved through p.
Based(n, p) ==
  /\ Exists(p) /\ Verified(p) /\ IdOf(archive[p]) = archive[n].parentId
  /\ IsDelta(p) => archive[p].base = archive[n].base
  /\ ~IsDelta(p) => archive[n].base = IdOf(archive[p])
Links ==
  \A n \in Names \ damaged :
    IsDelta(n) /\ archive[n].parent \notin damaged => Based(n, archive[n].parent)

Depth(a, n) == Cardinality(DeltasOf(a, ChainOf(a, n)))
Depths ==
  \A n \in Names :
    Exists(n) /\ ChainOf(archive, n) \cap damaged = {} => Depth(archive, n) <= MaxDepth

\* No delta the user has left alone is made on q.
Childless(q) == \A n \in Names \ damaged : IsDelta(n) => archive[n].parent # q

LEMMA DeltasAreDeltas ==
    /\ \A n : IsDelta(n) <=> IsDeltaOf(archive, n)
    /\ \A n \in Names : DeltaDepth(n) = Depth(archive, n)
  <1>1. \A n : IsDelta(n) <=> IsDeltaOf(archive, n)
    BY DEF IsDelta, IsDeltaOf, Exists
  <1>2. ASSUME NEW n \in Names PROVE DeltaDepth(n) = Depth(archive, n)
    <2>1. Chain(n) = ChainOf(archive, n)
      BY ChainIsChainOf
    <2>2. Deltas(ChainOf(archive, n)) = DeltasOf(archive, ChainOf(archive, n))
      BY <1>1 DEF Deltas, DeltasOf
    <2> QED
      BY <2>1, <2>2 DEF DeltaDepth, Depth
  <1> QED
    BY <1>1, <1>2

LEMMA DeltasAreDeltasNext == \A n : IsDelta(n)' <=> IsDeltaOf(archive', n)
  BY DEF IsDelta, IsDeltaOf, Exists

LEMMA DepthIsNatural ==
    ASSUME NEW a, ParentsIn(a), NEW n \in Names
    PROVE  /\ IsFiniteSet(DeltasOf(a, ChainOf(a, n))) /\ Depth(a, n) \in Nat
           /\ ChainOf(a, n) \subseteq Names
  <1>1. DeltasOf(a, ChainOf(a, n)) \subseteq Names
    BY ChainFinite DEF DeltasOf
  <1> QED
    BY <1>1, ChainFinite DEF Depth

LEMMA TypedParents ==
    /\ RepositoryTyped => ParentsIn(archive)
    /\ FilesTyped' => ParentsIn(archive')
  BY DEF RepositoryTyped, FilesTyped, Envelopes, ParentsIn

\* A name that stands for nothing has no children.
LEMMA NothingIsChildless ==
    ASSUME Links, NEW q, ~Exists(q), q \notin damaged
    PROVE  Childless(q)
  BY DEF Links, Childless, Based

\* What a step leaves alone, but for one name q that nothing is made on.
LeavesAlone(q) ==
  /\ damaged \subseteq damaged'
  /\ \A x \in Names : x # q /\ x \notin damaged' =>
       /\ archive'[x] = archive[x]
       /\ Exists(x) => manifest'[x] = manifest[x] /\ identity'[x] = identity[x]
  /\ q \notin damaged' =>
       \A n \in Names \ damaged' : n # q /\ IsDelta(n)' => archive'[n].parent # q

LEMMA LinksStay ==
    ASSUME RepositoryTyped, FilesTyped', Links, NEW CONSTANT q, LeavesAlone(q),
           q \in Names \ damaged' /\ IsDelta(q)' /\ archive'[q].parent \notin damaged'
             => Based(q, archive[q].parent)'
    PROVE  Links'
  <1> SUFFICES ASSUME NEW CONSTANT n \in Names, n \notin damaged', IsDelta(n)',
                      archive'[n].parent \notin damaged'
               PROVE  Based(n, archive[n].parent)'
    BY DEF Links
  <1>1. CASE n = q
    BY <1>1
  <1>2. CASE n # q
    <2>1. archive'[n] = archive[n] /\ n \notin damaged
      BY <1>2 DEF LeavesAlone
    <2>p. PICK p : p = archive[n].parent
      OBVIOUS
    <2>2. IsDelta(n) /\ p \notin damaged /\ p \notin damaged'
      BY <2>1, <2>p DEF IsDelta, Exists, LeavesAlone
    <2>3. Based(n, p)
      BY <2>1, <2>2, <2>p DEF Links
    <2>4. p \in Names
      BY <2>2, <2>p DEF RepositoryTyped, FilesTyped, Envelopes, IsDelta, IsDeltaOf, Exists
    <2>5. p # q
      BY <1>2, <2>1, <2>2, <2>p DEF LeavesAlone
    <2>6. /\ archive'[p] = archive[p] /\ manifest'[p] = manifest[p]
          /\ identity'[p] = identity[p]
      BY <2>2, <2>3, <2>4, <2>5 DEF LeavesAlone, Based
    <2>7. archive'[n].parent = p
      BY <2>1, <2>p
    <2> QED
      BY <2>1, <2>3, <2>6, <2>7 DEF Based, Verified, Exists, IsDelta, IdOf
  <1> QED
    BY <1>1, <1>2

LEMMA DepthsStay ==
    ASSUME RepositoryTyped, FilesTyped', Depths, NEW CONSTANT q, LeavesAlone(q),
           q \in Names \ damaged' /\ Exists(q)' => Depth(archive', q) <= MaxDepth
    PROVE  Depths'
  <1> SUFFICES ASSUME NEW CONSTANT n \in Names, Exists(n)',
                      ChainOf(archive', n) \cap damaged' = {}
               PROVE  Depth(archive', n) <= MaxDepth
    BY DEF Depths
  <1>0. n \in ChainOf(archive', n)
    BY ChainStarts
  <1>1. CASE n = q
    BY <1>0, <1>1
  <1>2. CASE n # q
    <2>1. q \notin ChainOf(archive', n)
      <3>1. CASE q \in damaged'
        BY <3>1
      <3>2. CASE q \notin damaged'
        <4>s. PICK S : S = Names \ {q}
          OBVIOUS
        <4>1. ASSUME NEW x \in S \cap ChainOf(archive', n), IsDeltaOf(archive', x),
                     archive'[x].parent \in ChainOf(archive', n)
              PROVE  archive'[x].parent \in S
          <5>1. x \in Names \ damaged' /\ x # q
            BY <4>s
          <5>2. archive'[x].parent # q
            BY <3>2, <4>1, <5>1, DeltasAreDeltasNext DEF LeavesAlone
          <5>3. archive'[x].parent \in Names
            BY <4>1, <5>1, TypedParents DEF ParentsIn
          <5> QED
            BY <4>s, <5>2, <5>3
        <4>2. ChainOf(archive', n) \subseteq S
          BY <1>2, <4>s, <4>1, ChainWithin
        <4> QED
          BY <4>2, <4>s
      <3> QED
        BY <3>1, <3>2
    <2>2. \A x \in ChainOf(archive', n) : archive'[x] = archive[x]
      BY <2>1, TypedParents, DepthIsNatural DEF LeavesAlone
    <2>3. ChainOf(archive, n) = ChainOf(archive', n)
      BY <2>2, ChainSame
    <2>4. DeltasOf(archive, ChainOf(archive, n)) = DeltasOf(archive', ChainOf(archive', n))
      BY <2>2, <2>3 DEF DeltasOf, IsDeltaOf
    <2>5. Exists(n) /\ ChainOf(archive, n) \cap damaged = {}
      BY <1>0, <2>2, <2>3 DEF Exists, LeavesAlone
    <2> QED
      BY <2>4, <2>5 DEF Depths, Depth
  <1> QED
    BY <1>1, <1>2

-----------------------------------------------------------------------------
(* What the operation in progress relies on *)

PublishingAlone == job.step \in {"manifest", "identity"} /\ job.name \notin damaged => Childless(job.name)

Basing == job.step = "archive" /\ job.parent # NoName =>
  /\ Depth(archive, job.parent) < MaxDepth
  /\ job.parent \in damaged \/ Verified(job.parent)

Dooming ==
  /\ job.step \in {"unlink", "sweep"} =>
       \A n \in job.doomed, m \in Names : IsDelta(m) /\ archive[m].parent = n => m \in job.doomed
  /\ job.step = "sweep" => ~Exists(job.name)

Chains == Links /\ Depths /\ PublishingAlone /\ Basing /\ Dooming

\* The user's hand leaves no new delta.
LEMMA HandShrinks ==
    ASSUME RepositoryTyped, TouchesByHand
    PROVE  /\ damaged \subseteq damaged'
           /\ \A x \in Names : x \notin damaged' => archive'[x] = archive[x]
           /\ \A x \in Names : IsDeltaOf(archive', x) =>
                IsDeltaOf(archive, x) /\ archive'[x].parent = archive[x].parent
           /\ \A x \in Names : Exists(x)' => Exists(x)
  <1>1. CASE UNCHANGED <<archive, damaged>>
    BY <1>1 DEF IsDeltaOf, Exists
  <1>2. ASSUME NEW n \in Names, HandRemoves(n) \/ HandReplaces(n),
               damaged' = damaged \cup {n}
        PROVE  /\ damaged \subseteq damaged'
               /\ \A x \in Names : x \notin damaged' => archive'[x] = archive[x]
               /\ \A x \in Names : IsDeltaOf(archive', x) =>
                    IsDeltaOf(archive, x) /\ archive'[x].parent = archive[x].parent
               /\ \A x \in Names : Exists(x)' => Exists(x)
    <2>x. PICK y : archive' = [archive EXCEPT ![n] = y] /\ (y # NoFile => ~(y.kind = "delta"))
      <3>1. CASE HandRemoves(n)
        BY <3>1 DEF HandRemoves
      <3>2. CASE HandReplaces(n)
        <4>c. PICK c \in Contents : archive' = [archive EXCEPT ![n] = Full(c)]
          BY <3>2 DEF HandReplaces
        <4>f. PICK y : y = Full(c)
          OBVIOUS
        <4> QED
          BY <4>c, <4>f, FullIsArchive
      <3> QED
        BY <1>2, <3>1, <3>2
    <2>1. \A x \in Names : x # n => archive'[x] = archive[x]
      BY <2>x DEF RepositoryTyped, FilesTyped
    <2>2. archive'[n] = y /\ Exists(n)
      BY <1>2, <2>x DEF RepositoryTyped, FilesTyped, HandRemoves, HandReplaces
    <2> QED
      BY <1>2, <2>x, <2>1, <2>2 DEF IsDeltaOf, Exists
  <1> QED
    BY <1>1, <1>2, HandSteps

LEMMA PublishingAloneStep ==
    ASSUME RepositoryTyped, RepositoryTyped', Links, PublishingAlone, RepositoryStep
    PROVE  PublishingAlone'
  <1>1. CASE KeepsSnapshots
    BY <1>1 DEF KeepsSnapshots, PublishingAlone
  <1>2. CASE DeletesSnapshots
    BY <1>2, DeletionSteps DEF PublishingAlone
  <1>3. CASE MakesSnapshot
    <2>1. CASE EngineArchive
      <3>n. PICK n \in Names :
               /\ ~Exists(n)
               /\ job.parent # NoName => Exists(job.parent)
               /\ archive' = [archive EXCEPT ![n] = NewArchive]
               /\ job'.name = n
        BY <2>1, EngineArchiveDoes DEF RepositoryTyped
      <3> SUFFICES ASSUME n \notin damaged, NEW m \in Names \ damaged, IsDelta(m)'
                   PROVE  archive'[m].parent # n
        BY <3>n, <1>3, EngineSteps DEF PublishingAlone, Childless
      <3>1. CASE m = n
        <4>1. archive'[m] = NewArchive
          BY <3>n, <3>1 DEF RepositoryTyped, FilesTyped
        <4>2. NewArchive.kind = "delta"
          BY <4>1 DEF IsDelta
        <4>3. NewArchive.parent = job.parent /\ Exists(job.parent)
          BY <2>1, <3>n, <4>2, NewArchiveIs DEF EngineArchive
        <4> QED
          BY <3>n, <4>1, <4>3
      <3>2. CASE m # n
        <4>1. archive'[m] = archive[m]
          BY <3>n, <3>2 DEF RepositoryTyped, FilesTyped
        <4> QED
          BY <3>n, <4>1, NothingIsChildless DEF Childless, IsDelta, Exists
      <3> QED
        BY <3>1, <3>2
    <2>2. CASE EngineManifest
      <3>1. "identity" \in JobSteps
        BY DEF JobSteps
      <3>2. job'.step = "identity" /\ SameJob(job, job')
        BY <2>2, <3>1, GoesTo DEF EngineManifest, RepositoryTyped
      <3> QED
        BY <2>2, <3>2 DEF EngineManifest, At, PublishingAlone, SameJob, Childless, IsDelta,
                           Exists, world
    <2>3. CASE ~EngineArchive /\ ~EngineManifest
      BY <1>3, <2>3, EngineSteps DEF PublishingAlone
    <2> QED
      BY <2>1, <2>2, <2>3
  <1>4. CASE TouchesByHand
    <2>1. /\ damaged \subseteq damaged'
          /\ \A x \in Names : x \notin damaged' => archive'[x] = archive[x]
      BY <1>4, HandShrinks
    <2>2. job' = job
      BY <1>4, HandSteps
    <2> QED
      BY <2>1, <2>2 DEF PublishingAlone, Childless, IsDelta, Exists
  <1>5. CASE UNCHANGED repoVars
    BY <1>5 DEF repoVars, PublishingAlone, Childless, IsDelta, Exists
  <1> QED
    BY <1>1, <1>2, <1>3, <1>4, <1>5 DEF RepositoryStep

LEMMA HandDepths ==
    ASSUME RepositoryTyped, RepositoryTyped', TouchesByHand, NEW CONSTANT n \in Names
    PROVE  /\ ChainOf(archive', n) \subseteq ChainOf(archive, n)
           /\ Depth(archive', n) <= Depth(archive, n)
           /\ Depth(archive', n) \in Nat /\ Depth(archive, n) \in Nat
  <1>0. ParentsIn(archive) /\ ParentsIn(archive')
    BY TypedParents DEF RepositoryTyped
  <1>1. ChainOf(archive', n) \subseteq Names
    BY <1>0, DepthIsNatural
  <1>2. ChainOf(archive', n) \subseteq ChainOf(archive, n)
    BY <1>1, HandShrinks, ChainShrinks
  <1>3. DeltasOf(archive', ChainOf(archive', n)) \subseteq DeltasOf(archive, ChainOf(archive, n))
    BY <1>1, <1>2, HandShrinks DEF DeltasOf
  <1> QED
    BY <1>0, <1>2, <1>3, DepthIsNatural, FS_Subset DEF Depth

LEMMA BaselineIsGood ==
    ASSUME RepositoryTyped, NEW f, Baseline(f) # NoName
    PROVE  /\ Baseline(f) \in Names /\ Verified(Baseline(f))
           /\ Depth(archive, Baseline(f)) < MaxDepth
           /\ Baseline(f) = Newest(Candidates(f))
  <1>1. Candidates(f) # {} /\ Candidates(f) \in SUBSET Names
    BY DEF Baseline, Candidates
  <1>2. Newest(Candidates(f)) \in Candidates(f)
    BY <1>1, NewestExists
  <1>3. Baseline(f) = Newest(Candidates(f)) /\ DeltaDepth(Baseline(f)) < MaxDepth
    BY <1>1 DEF Baseline
  <1> QED
    BY <1>2, <1>3, DeltasAreDeltas DEF Candidates

LEMMA BasingStep ==
    ASSUME RepositoryTyped, RepositoryTyped', Basing, RepositoryStep
    PROVE  Basing'
  <1>1. CASE KeepsSnapshots
    <2>1. CASE job'.step = "archive"
      <3>1. EngineDecide /\ UNCHANGED files
        BY <1>1, <2>1 DEF KeepsSnapshots, EngineDecide
      <3>2. job'.parent = Baseline(job.filter)
        BY <3>1, EngineDecideDoes
      <3> QED
        BY <3>1, <3>2, BaselineIsGood DEF Basing, files, Verified, Exists
    <2>2. CASE job'.step # "archive"
      BY <2>2 DEF Basing
    <2> QED
      BY <2>1, <2>2
  <1>2. CASE DeletesSnapshots
    BY <1>2, DeletionSteps DEF Basing
  <1>3. CASE MakesSnapshot
    BY <1>3, EngineSteps DEF Basing
  <1>4. CASE TouchesByHand
    <2> SUFFICES ASSUME job'.step = "archive", job'.parent # NoName
                 PROVE  /\ Depth(archive', job'.parent) < MaxDepth
                        /\ job'.parent \in damaged' \/ Verified(job.parent)'
      BY DEF Basing
    <2>1. job' = job /\ manifest' = manifest /\ identity' = identity
      BY <1>4, HandSteps
    <2>p. PICK p : p = job.parent
      OBVIOUS
    <2>2. p \in Names
      BY <2>1, <2>p DEF RepositoryTyped, Operations
    <2>3. Depth(archive, p) < MaxDepth /\ (p \in damaged \/ Verified(p))
      BY <2>1, <2>p DEF Basing
    <2>4. Depth(archive', p) < MaxDepth
      <3>1. /\ Depth(archive', p) <= Depth(archive, p)
            /\ Depth(archive', p) \in Nat /\ Depth(archive, p) \in Nat
        BY <1>4, <2>2, HandDepths
      <3> QED
        BY <3>1, <2>3
    <2>5. p \in damaged' \/ (archive'[p] = archive[p] /\ p \notin damaged)
      BY <1>4, <2>2, HandShrinks
    <2>6. p \in damaged' \/ (Verified(p) /\ archive'[p] = archive[p])
      BY <2>3, <2>5
    <2> QED
      BY <2>1, <2>p, <2>4, <2>6 DEF Verified, Exists
  <1>5. CASE UNCHANGED repoVars
    BY <1>5 DEF repoVars, Basing, Verified, Exists
  <1> QED
    BY <1>1, <1>2, <1>3, <1>4, <1>5 DEF RepositoryStep

LEMMA DoomingStep ==
    ASSUME RepositoryTyped, RepositoryTyped', Dooming, RepositoryStep
    PROVE  Dooming'
  <1>a. ASSUME DeletionAccepted(job'.doomed), archive' = archive, job'.step = "unlink",
               job'.doomed \subseteq Names
        PROVE  Dooming'
    <2> SUFFICES ASSUME NEW n \in job'.doomed, NEW m \in Names, IsDelta(m),
                        archive[m].parent = n
                 PROVE  m \in job'.doomed
      BY <1>a DEF Dooming, IsDelta, Exists
    <2>1. n \in ChainOf(archive, m)
      BY ChainStarts, DeltasAreDeltas
    <2>2. n \in Chain(m) /\ Exists(m)
      BY <2>1, ChainIsChainOf DEF IsDelta
    <2> QED
      BY <1>a, <2>2 DEF DeletionAccepted, Descendants
  <1>1. CASE KeepsSnapshots
    <2>1. CASE job'.step = "unlink"
      <3>1. DeletionAccepted(job'.doomed)
        BY <1>1, <2>1 DEF KeepsSnapshots
      <3> QED
        BY <1>a, <1>1, <2>1, <3>1 DEF KeepsSnapshots, Operations
    <2>2. CASE job'.step # "unlink"
      BY <1>1, <2>2 DEF KeepsSnapshots, Dooming
    <2> QED
      BY <2>1, <2>2
  <1>2. CASE DeletesSnapshots
    <2>1. CASE Sweep
      <3>1. PICK s \in {"deleted", "unlink"} : Goto(s)
        BY <2>1 DEF Sweep
      <3>2. s \in JobSteps
        BY DEF JobSteps
      <3>3. job'.step = s /\ SameJob(job, job')
        BY <3>1, <3>2, GoesTo DEF RepositoryTyped
      <3> QED
        BY <2>1, <3>3 DEF Sweep, At, Dooming, SameJob, IsDelta, Exists
    <2>2. CASE \E n \in Names : Unlink(n)
      <3>n. PICK n \in Names : Unlink(n)
        BY <2>2
      <3>1. job'.step = "sweep" /\ job'.name = n /\ job'.doomed = job.doomed \ {n}
        BY <3>n, UnlinkDoes
      <3>2. archive'[n] = NoFile /\ \A m \in Names : m # n => archive'[m] = archive[m]
        BY <3>n DEF Unlink, RepositoryTyped, FilesTyped
      <3>3. job.step = "unlink"
        BY <3>n DEF Unlink, At
      <3> QED
        BY <3>1, <3>2, <3>3 DEF Dooming, IsDelta, Exists
    <2>3. CASE CleansOrphans
      BY <2>3 DEF CleansOrphans, Dooming
    <2> QED
      BY <1>2, <2>1, <2>2, <2>3 DEF DeletesSnapshots
  <1>3. CASE MakesSnapshot
    BY <1>3, EngineSteps DEF Dooming
  <1>4. CASE TouchesByHand
    <2>1. job' = job
      BY <1>4, HandSteps
    <2>2. \A x \in Names : IsDelta(x)' => IsDelta(x) /\ archive'[x].parent = archive[x].parent
      BY <1>4, HandShrinks, DeltasAreDeltas, DeltasAreDeltasNext
    <2>3. job.step = "sweep" => job.name \in Names
      BY DEF RepositoryTyped, JobNamed
    <2>4. \A x \in Names : Exists(x)' => Exists(x)
      BY <1>4, HandShrinks
    <2> QED
      BY <2>1, <2>2, <2>3, <2>4 DEF Dooming
  <1>5. CASE UNCHANGED repoVars
    BY <1>5 DEF repoVars, Dooming, IsDelta, Exists
  <1> QED
    BY <1>1, <1>2, <1>3, <1>4, <1>5 DEF RepositoryStep

\* The archive of a new snapshot: what it is made on is not too deep.
LEMMA NewDepth ==
    ASSUME RepositoryTyped, RepositoryTyped', NEW CONSTANT n \in Names, ~Exists(n),
           NEW x, archive' = [archive EXCEPT ![n] = x],
           x.kind = "delta" => /\ x.parent \in Names /\ Exists(x.parent)
                               /\ Depth(archive, x.parent) < MaxDepth
    PROVE  Depth(archive', n) <= MaxDepth
  <1>a. PICK a : a = archive
    OBVIOUS
  <1>b. PICK b : b = archive'
    OBVIOUS
  <1>0. ParentsIn(a) /\ ParentsIn(b)
    BY <1>a, <1>b, TypedParents DEF RepositoryTyped
  <1>1. b[n] = x /\ \A m \in Names : m # n => b[m] = a[m]
    BY <1>a, <1>b DEF RepositoryTyped, FilesTyped
  <1>2. CASE x.kind # "delta"
    <2>1. ~IsDeltaOf(b, n)
      BY <1>1, <1>2 DEF IsDeltaOf
    <2>s. PICK S : S = {n}
      OBVIOUS
    <2>2. ChainOf(b, n) \subseteq S
      BY <2>1, <2>s, ChainWithin
    <2>3. DeltasOf(b, ChainOf(b, n)) = {}
      BY <2>1, <2>2, <2>s DEF DeltasOf
    <2>4. Depth(b, n) = 0
      BY <2>3, FS_EmptySet DEF Depth
    <2> QED
      BY <2>4, <1>b
  <1>3. CASE x.kind = "delta"
    <2>p. PICK p : p = x.parent
      OBVIOUS
    <2>1. p \in Names /\ Depth(a, p) < MaxDepth /\ p # n
      BY <1>3, <1>a, <2>p
    <2>c. PICK c : c = ChainOf(a, p)
      OBVIOUS
    <2>2. c \subseteq Names /\ p \in c
      BY <1>0, <2>1, <2>c, DepthIsNatural, ChainStarts
    <2>3. \A y \in c : IsDeltaOf(a, y) => a[y].parent \in c
      <3>1. Cardinality(DeltasOf(a, ChainOf(a, p))) <= MaxDepth
        BY <1>0, <2>1, DepthIsNatural DEF Depth
      <3> QED
        BY <1>0, <2>1, <2>c, <3>1, ChainClosed
    <2>s. PICK S : S = {n} \cup c
      OBVIOUS
    <2>4. \A y \in S : IsDeltaOf(b, y) => b[y].parent \in S
      BY <1>1, <2>2, <2>3, <2>s, <2>p DEF IsDeltaOf
    <2>5. ChainOf(b, n) \subseteq S
      BY <2>4, <2>s, ChainWithin
    <2>d. PICK d : d = DeltasOf(a, c)
      OBVIOUS
    <2>6. DeltasOf(b, ChainOf(b, n)) \subseteq {n} \cup d
      BY <1>1, <2>2, <2>5, <2>s, <2>d DEF DeltasOf, IsDeltaOf
    <2>7. IsFiniteSet(d) /\ Cardinality(d) \in Nat /\ Cardinality(d) < MaxDepth
      BY <1>0, <2>1, <2>c, <2>d, DepthIsNatural DEF Depth
    <2>8. IsFiniteSet(d \cup {n}) /\ Cardinality(d \cup {n}) <= Cardinality(d) + 1
      <3>1. /\ IsFiniteSet(d \cup {n})
            /\ Cardinality(d \cup {n}) = IF n \in d THEN Cardinality(d) ELSE Cardinality(d) + 1
        BY <2>7, FS_AddElement
      <3> QED
        BY <2>7, <3>1
    <2>9. Cardinality(DeltasOf(b, ChainOf(b, n))) <= Cardinality(d \cup {n})
      BY <2>6, <2>8, FS_Subset
    <2>10. Depth(b, n) \in Nat /\ Cardinality(d \cup {n}) \in Nat
      BY <1>0, <2>8, DepthIsNatural, FS_CardinalityType
    <2> QED
      BY <2>7, <2>8, <2>9, <2>10, <1>b DEF Depth
  <1> QED
    BY <1>2, <1>3

\* A name that was free, and is now an archive.
LEMMA NewLeavesAlone ==
    ASSUME RepositoryTyped, Links, NEW CONSTANT n \in Names, ~Exists(n),
           NEW x, archive' = [archive EXCEPT ![n] = x],
           UNCHANGED <<manifest, identity, damaged>>
    PROVE  LeavesAlone(n)
  <1>1. \A m \in Names : m # n => archive'[m] = archive[m]
    BY DEF RepositoryTyped, FilesTyped
  <1>2. n \notin damaged => Childless(n)
    BY NothingIsChildless
  <1> QED
    BY <1>1, <1>2 DEF LeavesAlone, Childless, IsDelta, Exists

LEMMA ChainsQuiet ==
    ASSUME RepositoryTyped, RepositoryTyped', Links, Depths, LeavesAlone(NoName)
    PROVE  Links' /\ Depths'
  <1>1. NoName \notin Names
    BY DEF NoName, Names
  <1> QED
    BY <1>1, LinksStay, DepthsStay DEF RepositoryTyped

\* Steps that leave every archive and the sidecars of all there is.
LEMMA FilesAlone ==
    ASSUME RepositoryTyped, RepositoryTyped', damaged \subseteq damaged',
           \A x \in Names : x \notin damaged' =>
             /\ archive'[x] = archive[x]
             /\ Exists(x) => manifest'[x] = manifest[x] /\ identity'[x] = identity[x]
    PROVE  LeavesAlone(NoName)
  <1>1. NoName \notin Names
    BY DEF NoName, Names
  <1>2. \A n \in Names : IsDelta(n)' => archive'[n].parent \in Names
    BY TypedParents, DeltasAreDeltasNext DEF RepositoryTyped, ParentsIn
  <1> QED
    BY <1>1, <1>2 DEF LeavesAlone

LEMMA ArchiveKeepsChains ==
    ASSUME RepositoryTyped, RepositoryTyped', Links, Depths, Basing, EngineArchive
    PROVE  Links' /\ Depths'
  <1>n. PICK n \in Names :
           /\ ~Exists(n)
           /\ job.parent # NoName => Exists(job.parent)
           /\ archive' = [archive EXCEPT ![n] = NewArchive]
    BY EngineArchiveDoes
  <1>p. PICK p : p = job.parent
    OBVIOUS
  <1>x. PICK x : x = NewArchive
    OBVIOUS
  <1>1. /\ x \in Archives /\ x # NoFile
        /\ x.kind = "delta" => p \in Names /\ x.parent = p
        /\ x.kind = "delta" => /\ Exists(p) /\ x.parentId = IdOf(archive[p])
                               /\ x.base = IF IsDelta(p) THEN archive[p].base
                                           ELSE IdOf(archive[p])
    BY <1>n, <1>x, <1>p, NewArchiveIs DEF EngineArchive
  <1>2. UNCHANGED <<manifest, identity, damaged>> /\ job.step = "archive"
    BY DEF EngineArchive, At
  <1>3. x.kind = "delta" => Depth(archive, p) < MaxDepth /\ (p \in damaged \/ Verified(p))
    <2>1. NoName \notin Names
      BY DEF NoName, Names
    <2> QED
      BY <1>1, <1>2, <1>p, <2>1 DEF Basing
  <1>4. LeavesAlone(n)
    BY <1>n, <1>x, <1>2, NewLeavesAlone
  <1>5. Depth(archive', n) <= MaxDepth
    BY <1>n, <1>x, <1>1, <1>3, NewDepth
  <1>6. Depths'
    BY <1>4, <1>5, DepthsStay DEF RepositoryTyped
  <1>7. ASSUME IsDelta(n)', archive'[n].parent \notin damaged'
        PROVE  Based(n, archive[n].parent)'
    <2>1. archive'[n] = x /\ \A m \in Names : m # n => archive'[m] = archive[m]
      BY <1>n, <1>x DEF RepositoryTyped, FilesTyped
    <2>2. x.kind = "delta" /\ archive'[n].parent = p
      BY <1>1, <1>7, <2>1 DEF IsDelta
    <2>3. p \in Names /\ p # n /\ Exists(p)
      BY <1>n, <1>1, <2>2
    <2>4. archive'[p] = archive[p] /\ Verified(p)
      BY <1>2, <1>3, <1>7, <2>1, <2>2, <2>3
    <2> QED
      BY <1>1, <1>2, <2>1, <2>2, <2>3, <2>4 DEF Based, Verified, Exists, IsDelta, IdOf
  <1>8. Links'
    BY <1>4, <1>7, LinksStay DEF RepositoryTyped
  <1> QED
    BY <1>6, <1>8

LEMMA PlainKeepsChains ==
    ASSUME RepositoryTyped, RepositoryTyped', Links, Depths, PlainArchive
    PROVE  Links' /\ Depths'
  <1>n. PICK n \in Names :
           /\ ~Exists(n)
           /\ archive' = [archive EXCEPT ![n] = Full(Scan(job.filter))]
    BY PlainArchiveDoes
  <1>x. PICK x : x = Full(Scan(job.filter))
    OBVIOUS
  <1>1. ~(x.kind = "delta")
    BY <1>x, FullIsArchive, ScanIsContent DEF RepositoryTyped, WorldTyped, Operations
  <1>2. UNCHANGED <<manifest, identity, damaged>>
    BY DEF PlainArchive
  <1>4. LeavesAlone(n)
    BY <1>n, <1>x, <1>2, NewLeavesAlone
  <1>5. Depth(archive', n) <= MaxDepth
    BY <1>n, <1>x, <1>1, NewDepth
  <1>6. ~IsDelta(n)'
    BY <1>n, <1>x, <1>1 DEF IsDelta, RepositoryTyped, FilesTyped
  <1> QED
    BY <1>4, <1>5, <1>6, LinksStay, DepthsStay DEF RepositoryTyped

\* The sidecars of the snapshot that is being published are nobody's yet.
LEMMA PublishingKeepsChains ==
    ASSUME RepositoryTyped, RepositoryTyped', Links, Depths, PublishingAlone,
           job.step \in {"manifest", "identity"},
           EngineManifest \/ EngineIdentity \/ EngineFails
    PROVE  Links' /\ Depths'
  <1>q. PICK q : q = job.name
    OBVIOUS
  <1>1. q \in Names /\ (q \notin damaged => Childless(q)) /\ damaged' = damaged
    BY <1>q DEF RepositoryTyped, JobNamed, PublishingAlone, EngineManifest, EngineIdentity, EngineFails, world
  <1>2. /\ \A m \in Names : m # q => /\ archive'[m] = archive[m]
                                     /\ manifest'[m] = manifest[m]
                                     /\ identity'[m] = identity[m]
        /\ archive'[q] \in {archive[q], NoFile}
    BY <1>1, <1>q DEF EngineManifest, EngineIdentity, EngineFails, RepositoryTyped, FilesTyped, At
  <1>3. LeavesAlone(q)
    BY <1>1, <1>2 DEF LeavesAlone, Childless, IsDelta, Exists
  <1>4. ASSUME q \notin damaged', IsDelta(q)', archive'[q].parent \notin damaged'
        PROVE  Based(q, archive[q].parent)'
    <2>1. archive'[q] = archive[q] /\ IsDelta(q)
      BY <1>2, <1>4 DEF IsDelta, Exists
    <2>p. PICK p : p = archive[q].parent
      OBVIOUS
    <2>2. p \in Names /\ p # q /\ Based(q, p)
      <3>1. p \in Names
        BY <1>1, <2>1, <2>p, TypedParents, DeltasAreDeltas DEF ParentsIn
      <3> QED
        BY <1>1, <1>4, <2>1, <2>p, <3>1 DEF Childless, Links
    <2>3. archive'[p] = archive[p] /\ manifest'[p] = manifest[p] /\ identity'[p] = identity[p]
      BY <1>2, <2>2
    <2> QED
      BY <2>1, <2>2, <2>3, <2>p DEF Based, Verified, Exists, IsDelta, IdOf
  <1>5. Links'
    BY <1>3, <1>4, LinksStay DEF RepositoryTyped
  <1>6. CASE archive'[q] = NoFile
    BY <1>3, <1>5, <1>6, DepthsStay DEF RepositoryTyped, Exists
  <1>7. CASE archive'[q] = archive[q]
    <2>1. archive' = archive
      BY <1>2, <1>7 DEF RepositoryTyped, FilesTyped
    <2> QED
      BY <1>1, <1>5, <2>1 DEF Depths, Exists
  <1> QED
    BY <1>2, <1>5, <1>6, <1>7

LEMMA UnlinkKeepsChains ==
    ASSUME RepositoryTyped, RepositoryTyped', Links, Depths, Dooming, NEW CONSTANT n \in Names, Unlink(n)
    PROVE  Links' /\ Depths'
  <1>1. /\ archive'[n] = NoFile /\ \A m \in Names : m # n => archive'[m] = archive[m]
        /\ UNCHANGED <<manifest, identity, damaged>>
    BY DEF Unlink, RepositoryTyped, FilesTyped, world
  <1>2. /\ n \in job.doomed /\ job.step = "unlink"
        /\ \A m \in job.doomed \ {n} : IsDelta(m) => archive[m].parent # n
    BY DEF Unlink, NextToDelete, At
  <1>3. \A m \in Names : m # n /\ IsDelta(m) => archive[m].parent # n
    BY <1>2 DEF Dooming
  <1>4. LeavesAlone(n)
    BY <1>1, <1>3 DEF LeavesAlone, IsDelta, Exists
  <1> QED
    BY <1>1, <1>4, LinksStay, DepthsStay DEF RepositoryTyped, IsDelta, Exists

LEMMA ChainsStep ==
    ASSUME RepositoryTyped, RepositoryTyped', Chains, RepositoryStep
    PROVE  Chains'
  <1> USE DEF Chains
  <1>1. CASE KeepsSnapshots
    <2>1. UNCHANGED <<archive, manifest, identity, damaged>>
      BY <1>1 DEF KeepsSnapshots
    <2> QED
      BY <2>1, FilesAlone, ChainsQuiet, PublishingAloneStep, BasingStep, DoomingStep
  <1>2. CASE DeletesSnapshots
    <2>1. CASE Sweep \/ CleansOrphans
      <3>1. UNCHANGED <<archive, damaged>>
        BY <2>1 DEF Sweep, CleansOrphans, world
      <3>2. \A x \in Names : Exists(x) => manifest'[x] = manifest[x] /\ identity'[x] = identity[x]
        <4>1. CASE Sweep
          <5>1. job.name \in Names /\ ~Exists(job.name)
            BY <4>1 DEF Sweep, At, Dooming, RepositoryTyped, JobNamed
          <5> QED
            BY <4>1, <5>1 DEF Sweep, RepositoryTyped, FilesTyped
        <4>2. CASE CleansOrphans
          BY <4>2 DEF CleansOrphans, WithoutOrphans
        <4> QED
          BY <2>1, <4>1, <4>2
      <3> QED
        BY <3>1, <3>2, FilesAlone, ChainsQuiet, PublishingAloneStep, BasingStep, DoomingStep
    <2>2. CASE \E n \in Names : Unlink(n)
      BY <2>2, UnlinkKeepsChains, PublishingAloneStep, BasingStep, DoomingStep
    <2> QED
      BY <1>2, <2>1, <2>2 DEF DeletesSnapshots
  <1>3. CASE MakesSnapshot
    <2>1. CASE EngineArchive
      BY <2>1, ArchiveKeepsChains, PublishingAloneStep, BasingStep, DoomingStep
    <2>2. CASE PlainArchive
      BY <2>2, PlainKeepsChains, PublishingAloneStep, BasingStep, DoomingStep
    <2>3. CASE (EngineManifest \/ EngineIdentity \/ EngineFails) /\ job.step \in {"manifest", "identity"}
      BY <2>3, PublishingKeepsChains, PublishingAloneStep, BasingStep, DoomingStep
    <2>4. CASE EngineFails /\ job.step \notin {"manifest", "identity"}
      <3>1. UNCHANGED <<archive, manifest, identity, damaged>>
        BY <2>4 DEF EngineFails, At, world
      <3> QED
        BY <3>1, FilesAlone, ChainsQuiet, PublishingAloneStep, BasingStep, DoomingStep
    <2> QED
      BY <1>3, <2>1, <2>2, <2>3, <2>4 DEF MakesSnapshot, EngineManifest, EngineIdentity, At
  <1>4. CASE TouchesByHand
    <2>1. UNCHANGED <<manifest, identity>>
      BY <1>4, HandSteps
    <2> QED
      BY <1>4, <2>1, HandShrinks, FilesAlone, ChainsQuiet, PublishingAloneStep, BasingStep, DoomingStep
  <1>5. CASE UNCHANGED repoVars
    <2>1. UNCHANGED <<archive, manifest, identity, damaged>>
      BY <1>5 DEF repoVars
    <2> QED
      BY <2>1, FilesAlone, ChainsQuiet, PublishingAloneStep, BasingStep, DoomingStep
  <1> QED
    BY <1>1, <1>2, <1>3, <1>4, <1>5 DEF RepositoryStep

-----------------------------------------------------------------------------
(* The invariant of the repository, and what follows from it *)

RepositoryInv == RepositoryTyped /\ Publishing /\ RecordsAgree /\ Chains

LEMMA RepositoryStarts == RepositoryInit => RepositoryInv
  <1> SUFFICES ASSUME RepositoryInit PROVE RepositoryInv
    OBVIOUS
  <1>1. RepositoryTyped
    <2>1. job \in Operations /\ job.step = "idle"
      BY NoJobIsAJob DEF RepositoryInit
    <2>2. JobNamed
      BY <2>1 DEF JobNamed
    <2>3. FilesTyped
      BY NoFileIsNoFile DEF RepositoryInit, FilesTyped, Envelopes, IsDeltaOf
    <2>4. WorldTyped
      BY DEF RepositoryInit, WorldTyped, Versions
    <2> QED
      BY <2>1, <2>2, <2>3, <2>4 DEF RepositoryTyped
  <1>2. /\ archive = [n \in Names |-> NoFile] /\ identity = [n \in Names |-> NoFile]
        /\ job.step = "idle"
    BY NoJobIsAJob DEF RepositoryInit
  <1> QED
    BY <1>1, <1>2
       DEF RepositoryInv, Publishing, RecordsAgree, Chains, Links, Depths,
           PublishingAlone, Basing, Dooming, IsDelta, Exists

LEMMA RepositoryInvStep == RepositoryInv /\ RepositoryStep => RepositoryInv'
  BY RepositoryTypedStep, PublishingStep, RecordsAgreeStep, ChainsStep DEF RepositoryInv

LEMMA InvMeansRestorable ==
    ASSUME RepositoryInv, NEW n \in Names, Exists(n), Chain(n) \cap damaged = {}
    PROVE  Restorable(n)
  <1>c. PICK c : c = Chain(n)
    OBVIOUS
  <1>0. c = ChainOf(archive, n) /\ RepositoryTyped /\ RecordsAgree /\ Links /\ Depths
    BY <1>c, ChainIsChainOf DEF RepositoryInv, Chains
  <1>p. ParentsIn(archive) /\ c \subseteq Names /\ n \in c
    BY <1>0, TypedParents, DepthIsNatural, ChainStarts
  <1>1. Cardinality(DeltasOf(archive, c)) <= MaxDepth
    BY <1>0, <1>c DEF Depths, Depth
  <1>2. ASSUME NEW m \in c, IsDelta(m)
        PROVE  archive[m].parent \in c /\ Based(m, archive[m].parent)
    <2>1. archive[m].parent \in c
      BY <1>0, <1>1, <1>2, <1>p, ChainClosed, DeltasAreDeltas
    <2> QED
      BY <2>1, <1>0, <1>2, <1>c, <1>p DEF Links
  <1>3. Complete(c)
    <2>s. PICK S : S = {x \in Names : Exists(x)}
      OBVIOUS
    <2>1. \A x \in S \cap c : IsDeltaOf(archive, x) => archive[x].parent \in S
      BY <1>2, <1>p, <2>s, DeltasAreDeltas DEF Based
    <2>2. n \in S
      BY <2>s
    <2>3. ChainOf(archive, n) \subseteq S
      BY <1>0, <2>1, <2>2, ChainWithin
    <2> QED
      BY <1>0, <2>3, <2>s DEF Complete
  <1>4. \A x \in c : /\ IsDelta(x) => archive[x].base = archive[n].base
                     /\ ~IsDelta(x) /\ IsDelta(n) => archive[n].base = IdOf(archive[x])
    <2>s. PICK S : S = {x \in Names :
                         /\ IsDelta(x) => archive[x].base = archive[n].base
                         /\ ~IsDelta(x) /\ IsDelta(n) => archive[n].base = IdOf(archive[x])}
      OBVIOUS
    <2>1. ASSUME NEW x \in S \cap c, IsDeltaOf(archive, x) PROVE archive[x].parent \in S
      <3>1. IsDelta(x) /\ x \in c /\ archive[x].base = archive[n].base
        BY <2>1, <2>s, DeltasAreDeltas
      <3>2. archive[x].parent \in Names /\ Based(x, archive[x].parent)
        BY <1>2, <1>p, <3>1
      <3> QED
        BY <2>s, <3>1, <3>2 DEF Based
    <2>2. n \in S
      BY <2>s
    <2>3. ChainOf(archive, n) \subseteq S
      BY <1>0, <2>1, <2>2, ChainWithin
    <2> QED
      BY <1>0, <2>3, <2>s
  <1>5. Deltas(c) = DeltasOf(archive, c)
    BY DeltasAreDeltas DEF Deltas, DeltasOf
  <1>6. ASSUME NEW m \in Deltas(c)
        PROVE  LET p == archive[m].parent
               IN  /\ Verified(p)
                   /\ IdOf(archive[p]) = archive[m].parentId
                   /\ manifest[p] = archive[m].parentId.content
                   /\ archive[m].base = archive[n].base
    <2>1. m \in c /\ IsDelta(m)
      BY DEF Deltas
    <2>p. PICK p : p = archive[m].parent
      OBVIOUS
    <2>2. p \in c /\ Based(m, p)
      BY <1>2, <2>1, <2>p
    <2>3. Verified(p) /\ IdOf(archive[p]) = archive[m].parentId
      BY <2>2 DEF Based
    <2>4. manifest[p] = archive[m].parentId.content
      BY <1>0, <1>p, <2>2, <2>3, AgreeingMeansTrue DEF VerifiedManifestsTellTheTruth, IdOf
    <2> QED
      BY <1>4, <2>1, <2>3, <2>4, <2>p
  <1>7. IsDelta(n) => \A m \in c \ Deltas(c) : archive[n].base = IdOf(archive[m])
    BY <1>4 DEF Deltas
  <1>8. RestorableAlong(n, c)
    BY <1>1, <1>3, <1>5, <1>6, <1>7 DEF RestorableAlong
  <1> QED
    BY <1>8, <1>c DEF Restorable

LEMMA InvMeansTrue == RepositoryInv => VerifiedManifestsTellTheTruth
  BY AgreeingMeansTrue DEF RepositoryInv

LEMMA InvMeansChains == RepositoryInv => ChainsStayRestorable
  BY InvMeansRestorable DEF ChainsStayRestorable

-----------------------------------------------------------------------------
(* Archives from one state to the next *)

\* The step writes the archive n.
Made(n) ==
  /\ EngineArchive \/ PlainArchive
  /\ job'.name = n /\ ~Exists(n) /\ (ClockGoesBack \/ n = lastName + 1)
  /\ archive'[n].content = IF EngineArchive THEN job.content ELSE Scan(job.filter)
  /\ archive'[n].kind = "delta" => /\ EngineArchive /\ job.parent \in Names
                                   /\ Exists(job.parent)
                                   /\ archive'[n].parent = job.parent
  /\ lastName' = IF n > lastName THEN n ELSE lastName

\* An archive is replaced by the user only, and never by a delta.
LEMMA ArchivesStay ==
    ASSUME RepositoryTyped, RepositoryStep
    PROVE  /\ damaged \subseteq damaged'
           /\ lastName' # lastName => EngineArchive \/ PlainArchive
           /\ \A n \in Names : \/ n \in damaged' /\ Exists(n) /\ ~IsDelta(n)'
                               \/ archive'[n] = archive[n]
                               \/ archive'[n] = NoFile
                               \/ Made(n)
  <1>1. CASE KeepsSnapshots
    BY <1>1 DEF KeepsSnapshots
  <1>2. CASE DeletesSnapshots
    BY <1>2 DEF DeletesSnapshots, Sweep, CleansOrphans, Unlink, RepositoryTyped, FilesTyped,
                world
  <1>3. CASE MakesSnapshot
    <2>1. CASE EngineArchive
      <3>n. PICK n \in Names :
               /\ ~Exists(n) /\ (ClockGoesBack \/ n = lastName + 1)
               /\ job.parent # NoName => Exists(job.parent)
               /\ archive' = [archive EXCEPT ![n] = NewArchive]
               /\ lastName' = IF n > lastName THEN n ELSE lastName
               /\ job'.name = n
        BY <2>1, EngineArchiveDoes
      <3>1. archive'[n] = NewArchive /\ \A m \in Names : m # n => archive'[m] = archive[m]
        BY <3>n DEF RepositoryTyped, FilesTyped
      <3>2. /\ NewArchive.content = job.content
            /\ NewArchive.kind = "delta" => /\ job.parent \in Names /\ Exists(job.parent)
                                            /\ NewArchive.parent = job.parent
        BY <2>1, <3>n, NewArchiveIs DEF EngineArchive
      <3>3. Made(n)
        BY <2>1, <3>n, <3>1, <3>2 DEF Made
      <3> QED
        BY <2>1, <3>1, <3>3 DEF EngineArchive
    <2>2. CASE PlainArchive /\ ~EngineArchive
      <3>n. PICK n \in Names :
               /\ ~Exists(n) /\ (ClockGoesBack \/ n = lastName + 1)
               /\ archive' = [archive EXCEPT ![n] = Full(Scan(job.filter))]
               /\ lastName' = IF n > lastName THEN n ELSE lastName
               /\ job'.name = n
        BY <2>2, PlainArchiveDoes
      <3>1. /\ archive'[n] = Full(Scan(job.filter))
            /\ \A m \in Names : m # n => archive'[m] = archive[m]
        BY <3>n DEF RepositoryTyped, FilesTyped
      <3>2. /\ Full(Scan(job.filter)).content = Scan(job.filter)
            /\ ~(Full(Scan(job.filter)).kind = "delta")
        BY FullIsArchive, ScanIsContent DEF RepositoryTyped, WorldTyped, Operations
      <3>3. Made(n)
        BY <2>2, <3>n, <3>1, <3>2 DEF Made
      <3> QED
        BY <2>2, <3>1, <3>3 DEF PlainArchive
    <2>3. CASE EngineManifest \/ EngineIdentity \/ EngineFails
      BY <2>3 DEF EngineManifest, EngineIdentity, EngineFails, RepositoryTyped, FilesTyped,
                  world
    <2> QED
      BY <1>3, <2>1, <2>2, <2>3 DEF MakesSnapshot
  <1>4. CASE TouchesByHand
    <2>1. CASE UNCHANGED <<archive, damaged>>
      BY <1>4, <2>1, HandSteps
    <2>2. ASSUME NEW q \in Names, HandRemoves(q) \/ HandReplaces(q)
          PROVE  /\ damaged' = damaged \cup {q} /\ lastName' = lastName
                 /\ \A n \in Names \ {q} : archive'[n] = archive[n]
                 /\ archive'[q] = NoFile \/ (Exists(q) /\ ~IsDelta(q)')
      <3>1. CASE HandRemoves(q)
        BY <3>1 DEF HandRemoves, RepositoryTyped, FilesTyped
      <3>2. CASE HandReplaces(q)
        <4>c. PICK c \in Contents : archive' = [archive EXCEPT ![q] = Full(c)]
          BY <3>2 DEF HandReplaces
        <4>1. /\ archive'[q] = Full(c)
              /\ \A n \in Names \ {q} : archive'[n] = archive[n]
          BY <4>c DEF RepositoryTyped, FilesTyped
        <4>2. ~IsDelta(q)'
          BY <4>1, FullIsArchive DEF IsDelta
        <4> QED
          BY <3>2, <4>1, <4>2 DEF HandReplaces
      <3> QED
        BY <2>2, <3>1, <3>2
    <2> QED
      BY <1>4, <2>1, <2>2, HandSteps
  <1>5. CASE UNCHANGED repoVars
    BY <1>5 DEF repoVars
  <1> QED
    BY <1>1, <1>2, <1>3, <1>4, <1>5 DEF RepositoryStep

LEMMA NamesMoveOn ==
    ASSUME RepositoryTyped, RepositoryTyped', ~ClockGoesBack, RepositoryStep
    PROVE  /\ lastName' >= lastName /\ lastName \in Int /\ lastName' \in Int
           /\ \A n \in Names : Made(n) => lastName' = n /\ n > lastName
  <1>0. lastName \in Int /\ lastName' \in Int /\ Names \subseteq Int
    BY DEF RepositoryTyped, WorldTyped, Names, NoName
  <1>1. CASE EngineArchive
    BY <1>0, <1>1, EngineArchiveDoes DEF Made
  <1>2. CASE PlainArchive
    BY <1>0, <1>2, PlainArchiveDoes DEF Made
  <1>3. CASE ~EngineArchive /\ ~PlainArchive
    BY <1>0, <1>3, ArchivesStay DEF Made
  <1> QED
    BY <1>1, <1>2, <1>3

\* While the clock moves on, no name is given out twice: every archive is of a
\* name that has been used, and a delta is made on an earlier one.
Dated ==
  \A n \in Names :
    /\ Exists(n) => n <= lastName
    /\ IsDelta(n) => archive[n].parent < n

\* Nothing is made on q, ...
Unused(q) == \A n \in Names : IsDelta(n) => archive[n].parent # q
\* ... which is so of the snapshot that is being published.
PublishingUnused == job.step \in {"manifest", "identity"} => Unused(job.name)

LEMMA DatedStep ==
    ASSUME ~ClockGoesBack, RepositoryTyped, RepositoryTyped', Dated, RepositoryStep
    PROVE  Dated'
  <1> SUFFICES ASSUME NEW n \in Names
               PROVE  /\ Exists(n)' => n <= lastName'
                      /\ IsDelta(n)' => archive'[n].parent < n
    BY DEF Dated
  <1>0. /\ lastName' >= lastName /\ lastName \in Int /\ lastName' \in Int
        /\ Made(n) => lastName' = n /\ n > lastName
        /\ Names \subseteq Int
    BY NamesMoveOn DEF Names
  <1>1. CASE n \in damaged' /\ Exists(n) /\ ~IsDelta(n)'
    <2>1. n <= lastName
      BY <1>1 DEF Dated
    <2> QED
      BY <1>0, <1>1, <2>1
  <1>2. CASE archive'[n] = archive[n]
    <2>1. Exists(n)' => n <= lastName
      BY <1>2 DEF Dated, Exists
    <2>2. IsDelta(n)' => archive'[n].parent < n
      BY <1>2 DEF Dated, Exists, IsDelta
    <2> QED
      BY <1>0, <2>1, <2>2
  <1>3. CASE archive'[n] = NoFile
    BY <1>3 DEF Exists, IsDelta
  <1>4. CASE Made(n)
    <2>1. n <= lastName'
      BY <1>0, <1>4
    <2>2. ASSUME IsDelta(n)' PROVE archive'[n].parent < n
      <3>1. job.parent \in Names /\ Exists(job.parent) /\ archive'[n].parent = job.parent
        BY <1>4, <2>2 DEF Made, IsDelta
      <3>p. PICK p : p = job.parent
        OBVIOUS
      <3>2. p \in Int /\ p <= lastName
        BY <1>0, <3>1, <3>p DEF Dated
      <3> QED
        BY <1>0, <1>4, <3>1, <3>2, <3>p
    <2> QED
      BY <2>1, <2>2
  <1> QED
    BY <1>1, <1>2, <1>3, <1>4, ArchivesStay

LEMMA NewIsUnused ==
    ASSUME RepositoryTyped, Dated, NEW q, q = lastName + 1
    PROVE  Unused(q)
  <1> SUFFICES ASSUME NEW n \in Names, IsDelta(n) PROVE archive[n].parent # q
    BY DEF Unused
  <1>p. PICK p : p = archive[n].parent
    OBVIOUS
  <1>1. p \in Names
    BY <1>p, TypedParents, DeltasAreDeltas DEF ParentsIn
  <1>2. p < n /\ n <= lastName
    BY <1>p DEF Dated, IsDelta
  <1>3. lastName \in Int /\ n \in Int /\ p \in Int
    BY <1>1 DEF RepositoryTyped, WorldTyped, Names, NoName
  <1> QED
    BY <1>2, <1>3, <1>p

LEMMA PublishingUnusedStep ==
    ASSUME ~ClockGoesBack, RepositoryTyped, RepositoryTyped', Dated, PublishingUnused,
           RepositoryStep
    PROVE  PublishingUnused'
  <1>1. CASE KeepsSnapshots
    BY <1>1 DEF KeepsSnapshots, PublishingUnused
  <1>2. CASE DeletesSnapshots
    BY <1>2, DeletionSteps DEF PublishingUnused
  <1>3. CASE MakesSnapshot
    <2>1. CASE EngineArchive
      <3>n. PICK n \in Names :
               /\ n = lastName + 1 /\ ~Exists(n)
               /\ job.parent # NoName => Exists(job.parent)
               /\ archive' = [archive EXCEPT ![n] = NewArchive]
               /\ job'.name = n
        BY <2>1, EngineArchiveDoes
      <3>1. Unused(n)
        BY <3>n, NewIsUnused
      <3>2. \A m \in Names : m # n => archive'[m] = archive[m]
        BY <3>n DEF RepositoryTyped, FilesTyped
      <3>3. archive'[n] = NewArchive
        BY <3>n DEF RepositoryTyped, FilesTyped
      <3>4. NewArchive.kind = "delta" => NewArchive.parent # n
        BY <2>1, <3>n, NewArchiveIs DEF EngineArchive
      <3>5. Unused(n)'
        BY <3>1, <3>2, <3>3, <3>4 DEF Unused, IsDelta, Exists
      <3> QED
        BY <3>n, <3>5 DEF PublishingUnused, Unused
    <2>2. CASE EngineManifest
      <3>1. "identity" \in JobSteps
        BY DEF JobSteps
      <3>2. SameJob(job, job')
        BY <2>2, <3>1, GoesTo DEF EngineManifest, RepositoryTyped
      <3> QED
        BY <2>2, <3>2 DEF EngineManifest, At, PublishingUnused, Unused, SameJob, IsDelta, Exists
    <2>3. CASE ~EngineArchive /\ ~EngineManifest
      BY <1>3, <2>3, EngineSteps DEF PublishingUnused
    <2> QED
      BY <2>1, <2>2, <2>3
  <1>4. CASE TouchesByHand
    <2>1. job' = job
      BY <1>4, HandSteps
    <2>2. \A x \in Names : IsDelta(x)' => IsDelta(x) /\ archive'[x].parent = archive[x].parent
      BY <1>4, HandShrinks, DeltasAreDeltas, DeltasAreDeltasNext
    <2> QED
      BY <2>1, <2>2 DEF PublishingUnused, Unused
  <1>5. CASE UNCHANGED repoVars
    BY <1>5 DEF repoVars, PublishingUnused, Unused, IsDelta, Exists
  <1> QED
    BY <1>1, <1>2, <1>3, <1>4, <1>5 DEF RepositoryStep

-----------------------------------------------------------------------------
(* The repository implements the set of snapshots *)

Held == [n \in Names |-> IF Restorable(n) THEN archive[n].content ELSE NoFile]

\* The step touches nothing but q, and nothing is made on q.
TouchesOnly(q) ==
  /\ \A x \in Names \ {q} :
       /\ archive'[x] = archive[x]
       /\ Exists(x) => manifest'[x] = manifest[x] /\ identity'[x] = identity[x]
  /\ Unused(q)

\* Then every archive that stays can be restored as before.
LEMMA OthersHold ==
    ASSUME RepositoryTyped, NEW CONSTANT q, TouchesOnly(q),
           NEW CONSTANT m \in Names, archive'[m] = archive[m]
    PROVE  Restorable(m)' <=> Restorable(m)
  <1>c. PICK c : c = ChainOf(archive, m)
    OBVIOUS
  <1>s. PICK S : S = {x \in Names : archive'[x] = archive[x]}
    OBVIOUS
  <1>1. ASSUME NEW x \in Names, IsDelta(x)
        PROVE  /\ archive[x].parent \in Names \ {q}
               /\ archive[x].parent \in S
    <2>1. archive[x].parent \in Names \ {q}
      BY <1>1, TypedParents, DeltasAreDeltas DEF ParentsIn, TouchesOnly, Unused
    <2> QED
      BY <1>s, <2>1 DEF TouchesOnly
  <1>2. c \subseteq S
    <2>1. \A x \in S \cap ChainOf(archive, m) :
            IsDeltaOf(archive, x) => archive[x].parent \in S
      BY <1>1, <1>s, DeltasAreDeltas
    <2> QED
      BY <1>c, <1>s, <2>1, ChainWithin
  <1>3. c = ChainOf(archive', m)
    <2>1. \A x \in ChainOf(archive, m) : archive[x] = archive'[x]
      BY <1>2, <1>c, <1>s
    <2> QED
      BY <2>1, <1>c, ChainSame
  <1>4. c = Chain(m) /\ c = Chain(m)'
    BY <1>c, <1>3, ChainIsChainOf, ChainIsChainOfNext
  <1>5. \A x \in c : /\ archive'[x] = archive[x] /\ (Exists(x)' <=> Exists(x))
                     /\ (IsDelta(x)' <=> IsDelta(x)) /\ IdOf(archive'[x]) = IdOf(archive[x])
    BY <1>2, <1>s DEF Exists, IsDelta
  <1>6. Deltas(c)' = Deltas(c) /\ (Complete(c)' <=> Complete(c))
    BY <1>5 DEF Deltas, Complete
  <1>7. ASSUME NEW CONSTANT x \in c, IsDelta(x)
        PROVE  LET p == archive[x].parent
               IN  /\ Verified(p)' <=> Verified(p)
                   /\ archive'[p] = archive[p]
                   /\ Verified(p) => manifest'[p] = manifest[p]
    <2>p. PICK p : p = archive[x].parent
      OBVIOUS
    <2>1. p \in Names \ {q}
      BY <1>1, <1>2, <1>7, <1>s, <2>p
    <2>2. /\ archive'[p] = archive[p]
          /\ Exists(p) => manifest'[p] = manifest[p] /\ identity'[p] = identity[p]
      BY <2>1 DEF TouchesOnly
    <2>3. (Verified(p)' <=> Verified(p)) /\ (Verified(p) => manifest'[p] = manifest[p])
      BY <2>2 DEF Verified, Exists
    <2>4. archive'[x] = archive[x]
      BY <1>5, <1>7
    <2> QED
      BY <2>2, <2>3, <2>4, <2>p
  <1>8. RestorableAlong(m, c)' <=> RestorableAlong(m, c)
    <2>a. PICK D : D = Deltas(c)
      OBVIOUS
    <2>1. D \subseteq c /\ D = Deltas(c)' /\ (\A x \in D : IsDelta(x)) /\ m \in c
      BY <1>6, <1>c, <2>a, ChainStarts DEF Deltas
    <2>2. (\A x \in D :
             LET p == archive[x].parent
             IN  /\ Verified(p)
                 /\ IdOf(archive[p]) = archive[x].parentId
                 /\ manifest[p] = archive[x].parentId.content
                 /\ archive[x].base = archive[m].base)'
          <=> (\A x \in D :
             LET p == archive[x].parent
             IN  /\ Verified(p)
                 /\ IdOf(archive[p]) = archive[x].parentId
                 /\ manifest[p] = archive[x].parentId.content
                 /\ archive[x].base = archive[m].base)
      BY <1>5, <1>7, <2>1
    <2>3. (IsDelta(m) => \A x \in c \ D : archive[m].base = IdOf(archive[x]))'
          <=> (IsDelta(m) => \A x \in c \ D : archive[m].base = IdOf(archive[x]))
      BY <1>5, <2>1
    <2> QED
      BY <1>6, <2>a, <2>1, <2>2, <2>3 DEF RestorableAlong
  <1>9. (Exists(m)' <=> Exists(m)) /\ m \in c
    BY <1>5, <1>c, ChainStarts
  <1> QED
    BY <1>4, <1>8, <1>9 DEF Restorable

LEMMA HeldIsTyped ==
    ASSUME RepositoryTyped, NEW n \in Names
    PROVE  Held[n] \in Contents \cup {NoFile}
  BY DEF Held, Restorable, Exists, RepositoryTyped, FilesTyped, Archives

\* A step that touches one name publishes or withdraws one snapshot.
LEMMA OneAtATime ==
    ASSUME RepositoryTyped, NEW CONSTANT q, TouchesOnly(q), manual' = manual,
           q \in Names /\ archive'[q] # archive[q] => ~Exists(q) \/ ~Exists(q)'
    PROVE  Abstract!PublishOrWithdraw \/ UNCHANGED <<Held, manual>>
  <1>1. \A m \in Names : archive'[m] = archive[m] => Held'[m] = Held[m]
    BY OthersHold DEF Held
  <1>2. \A m \in Names \ {q} : Held'[m] = Held[m]
    BY <1>1 DEF TouchesOnly
  <1>3. /\ Held = [n \in Names |-> Held[n]] /\ Held' = [n \in Names |-> Held'[n]]
    BY DEF Held
  <1>4. CASE q \in Names /\ Held'[q] # Held[q]
    <2>1. ~Exists(q) \/ ~Exists(q)'
      BY <1>1, <1>4
    <2>2. Held[q] = NoFile \/ Held'[q] = NoFile
      BY <1>4, <2>1 DEF Held, Restorable
    <2>3. Abstract!PublishOrWithdraw
      <3> DEFINE h == Held
      <3>1. /\ \E n \in Names : /\ h[n] # h'[n]
                                /\ h[n] = NoFile \/ h'[n] = NoFile
                                /\ \A m \in Names \ {n} : h'[m] = h[m]
            /\ UNCHANGED manual
        BY <1>2, <1>4, <2>2
      <3> QED
        BY <3>1 DEF Held, Abstract!PublishOrWithdraw
    <2> QED
      BY <2>3
  <1>5. CASE ~(q \in Names /\ Held'[q] # Held[q])
    <2>1. \A m \in Names : Held'[m] = Held[m]
      BY <1>2, <1>5
    <2>2. Held' = Held
      BY <1>3, <2>1
    <2> QED
      BY <2>2
  <1> QED
    BY <1>4, <1>5

LEMMA OnlyTheUser ==
    ASSUME RepositoryTyped', manual' = manual + 1
    PROVE  Abstract!UserInterferes
  <1>1. \A n \in Names : Held'[n] \in Contents \cup {NoFile}
    BY DEF Held, Restorable, Exists, RepositoryTyped, FilesTyped, Archives
  <1> QED
    BY <1>1 DEF Held, Abstract!UserInterferes

LEMMA NothingIsUnused == RepositoryTyped => Unused(NoName)
  <1>1. NoName \notin Names
    BY DEF NoName, Names
  <1> QED
    BY <1>1, TypedParents, DeltasAreDeltas DEF Unused, ParentsIn

AtomicInv == RepositoryInv /\ Dated /\ PublishingUnused

LEMMA AtomicStep ==
    ASSUME ~ClockGoesBack, AtomicInv, RepositoryTyped', RepositoryStep
    PROVE  Abstract!SetNext \/ UNCHANGED <<Held, manual>>
  <1>i. RepositoryTyped /\ Dooming /\ Dated /\ PublishingUnused
    BY DEF AtomicInv, RepositoryInv, Chains
  <1>n. NoName \notin Names
    BY DEF NoName, Names
  <1> SUFFICES \/ manual' = manual + 1
               \/ \E q \in Names \cup {NoName} :
                    /\ TouchesOnly(q) /\ manual' = manual
                    /\ q \in Names /\ archive'[q] # archive[q] => ~Exists(q) \/ ~Exists(q)'
    BY <1>i, OneAtATime, OnlyTheUser DEF Abstract!SetNext
  <1>z. ASSUME manual' = manual,
               \A x \in Names :
                 /\ archive'[x] = archive[x]
                 /\ Exists(x) => manifest'[x] = manifest[x] /\ identity'[x] = identity[x]
        PROVE  TouchesOnly(NoName)
    BY <1>i, <1>z, NothingIsUnused DEF TouchesOnly
  <1>1. CASE KeepsSnapshots
    BY <1>1, <1>n, <1>z DEF KeepsSnapshots
  <1>2. CASE DeletesSnapshots
    <2>1. CASE Sweep
      <3>1. ~Exists(job.name) /\ job.name \in Names
        BY <1>i, <2>1 DEF Sweep, At, Dooming, RepositoryTyped, JobNamed
      <3>2. \A x \in Names : Exists(x) => manifest'[x] = manifest[x] /\ identity'[x] = identity[x]
        BY <1>i, <2>1, <3>1 DEF Sweep, RepositoryTyped, FilesTyped
      <3> QED
        BY <1>n, <1>z, <2>1, <3>2 DEF Sweep, world
    <2>2. CASE CleansOrphans
      BY <1>n, <1>z, <2>2 DEF CleansOrphans, WithoutOrphans, world
    <2>3. ASSUME NEW n \in Names, Unlink(n)
          PROVE  TouchesOnly(n) /\ manual' = manual /\ ~Exists(n)'
      <3>1. /\ archive'[n] = NoFile /\ \A m \in Names : m # n => archive'[m] = archive[m]
            /\ UNCHANGED <<manifest, identity, manual>>
        BY <1>i, <2>3 DEF Unlink, RepositoryTyped, FilesTyped, world
      <3>2. /\ n \in job.doomed /\ job.step = "unlink" /\ Exists(n)
            /\ \A m \in job.doomed \ {n} : IsDelta(m) => archive[m].parent # n
        BY <2>3 DEF Unlink, NextToDelete, At
      <3>3. IsDelta(n) => archive[n].parent # n
        BY <1>i DEF Dated, Names
      <3>4. Unused(n)
        BY <1>i, <3>2, <3>3 DEF Dooming, Unused
      <3> QED
        BY <3>1, <3>4 DEF TouchesOnly, Exists
    <2> QED
      BY <1>2, <2>1, <2>2, <2>3 DEF DeletesSnapshots
  <1>3. CASE MakesSnapshot
    <2>1. CASE EngineArchive \/ PlainArchive
      <3>n. PICK n \in Names : /\ ~Exists(n) /\ n = lastName + 1
                               /\ \E x : archive' = [archive EXCEPT ![n] = x]
        BY <1>i, <2>1, EngineArchiveDoes, PlainArchiveDoes
      <3>1. Unused(n)
        BY <1>i, <3>n, NewIsUnused
      <3>2. \A m \in Names : m # n => archive'[m] = archive[m]
        BY <1>i, <3>n DEF RepositoryTyped, FilesTyped
      <3>3. UNCHANGED <<manifest, identity, manual>>
        BY <2>1 DEF EngineArchive, PlainArchive
      <3> QED
        BY <3>n, <3>1, <3>2, <3>3 DEF TouchesOnly
    <2>2. CASE (EngineManifest \/ EngineIdentity \/ EngineFails) /\ job.step \in {"manifest", "identity"}
      <3>q. PICK q : q = job.name
        OBVIOUS
      <3>1. q \in Names /\ Unused(q)
        BY <1>i, <2>2, <3>q DEF RepositoryTyped, JobNamed, PublishingUnused
      <3>2. /\ \A m \in Names : m # q => /\ archive'[m] = archive[m]
                                         /\ manifest'[m] = manifest[m]
                                         /\ identity'[m] = identity[m]
            /\ archive'[q] \in {archive[q], NoFile} /\ manual' = manual
        BY <1>i, <2>2, <3>1, <3>q
           DEF EngineManifest, EngineIdentity, EngineFails, RepositoryTyped, FilesTyped, At, world
      <3> QED
        BY <3>1, <3>2 DEF TouchesOnly, Exists
    <2>3. CASE EngineFails /\ job.step \notin {"manifest", "identity"}
      <3>1. UNCHANGED <<archive, manifest, identity, manual>>
        BY <2>3 DEF EngineFails, At, world
      <3> QED
        BY <1>n, <1>z, <3>1
    <2> QED
      BY <1>3, <2>1, <2>2, <2>3 DEF MakesSnapshot, EngineManifest, EngineIdentity, At
  <1>4. CASE TouchesByHand
    <2>1. CASE SourceChanges
      BY <1>n, <1>z, <2>1 DEF SourceChanges, files, repoVars
    <2>2. CASE ~SourceChanges
      BY <1>4, <2>2 DEF TouchesByHand, HandRemoves, HandReplaces
    <2> QED
      BY <2>1, <2>2
  <1>5. CASE UNCHANGED repoVars
    BY <1>5, <1>n, <1>z DEF repoVars
  <1> QED
    BY <1>1, <1>2, <1>3, <1>4, <1>5 DEF RepositoryStep

LEMMA AtomicStarts == RepositoryInit => AtomicInv /\ Abstract!SetInit
  <1> SUFFICES ASSUME RepositoryInit PROVE AtomicInv /\ Abstract!SetInit
    OBVIOUS
  <1>1. archive = [n \in Names |-> NoFile] /\ manual = 0 /\ job.step = "idle"
    BY NoJobIsAJob DEF RepositoryInit
  <1>2. Held = [n \in Names |-> NoFile]
    BY <1>1 DEF Held, Restorable, Exists
  <1>3. Abstract!SetInit
    BY <1>1, <1>2 DEF Held, Abstract!SetInit
  <1>4. Dated /\ PublishingUnused
    BY <1>1 DEF Dated, PublishingUnused, Exists, IsDelta
  <1> QED
    BY <1>3, <1>4, RepositoryStarts DEF AtomicInv

LEMMA AtomicInvStep ==
    ASSUME ~ClockGoesBack, AtomicInv, RepositoryStep
    PROVE  AtomicInv'
  <1>1. RepositoryInv'
    BY RepositoryInvStep DEF AtomicInv
  <1> QED
    BY <1>1, DatedStep, PublishingUnusedStep DEF AtomicInv, RepositoryInv

-----------------------------------------------------------------------------
(* Retention *)

\* Without an older one the newest are the same.
LEMMA NewestWithout ==
    ASSUME NEW S \in SUBSET Names, NEW k \in Nat, NEW n \in S, n \notin NewestOf(S, k)
    PROVE  NewestOf(S \ {n}, k) \subseteq NewestOf(S, k)
  <1> SUFFICES ASSUME NEW x \in NewestOf(S \ {n}, k) PROVE x \in NewestOf(S, k)
    OBVIOUS
  <1>a. PICK A : A = {m \in S : m > n}
    OBVIOUS
  <1>b. PICK B : B = {m \in S \ {n} : m > x}
    OBVIOUS
  <1>0. IsFiniteSet(Names)
    BY FS_Interval DEF Names
  <1>1. A \subseteq Names /\ B \subseteq Names
    BY <1>a, <1>b
  <1>2. /\ IsFiniteSet(A) /\ Cardinality(A) \in Nat
        /\ IsFiniteSet(B) /\ Cardinality(B) \in Nat
    BY <1>0, <1>1, FS_Subset, FS_CardinalityType
  <1>3. ~(Cardinality(A) < k)
    BY <1>a DEF NewestOf
  <1>4. x \in S /\ x # n /\ Cardinality(B) < k
    BY <1>b DEF NewestOf
  <1>5. x \in Int /\ n \in Int /\ \A m \in S : m \in Int
    BY <1>4 DEF Names
  <1>6. CASE n > x
    <2>1. ASSUME NEW m \in A PROVE m \in B
      <3>1. m \in S /\ m > n /\ m \in Int
        BY <1>5, <1>a
      <3>2. m # n /\ m > x
        BY <1>5, <1>6, <3>1
      <3> QED
        BY <3>1, <3>2, <1>b
    <2>2. Cardinality(A) <= Cardinality(B)
      BY <1>2, <2>1, FS_Subset
    <2> QED
      BY <1>2, <1>3, <1>4, <2>2
  <1>7. CASE ~(n > x)
    <2>1. {m \in S : m > x} = B
      BY <1>5, <1>7, <1>b
    <2> QED
      BY <1>4, <2>1 DEF NewestOf
  <1> QED
    BY <1>6, <1>7

\* What goes while an operation deletes, and not by the user's hand, is what
\* that operation has doomed.
LEMMA UnlinkedIsDoomed ==
    ASSUME RepositoryTyped, RepositoryStep, job.step = "unlink", manual' = manual,
           NEW n \in Names, Exists(n), archive'[n] = NoFile
    PROVE  n \in job.doomed
  <1>1. ~KeepsSnapshots /\ ~(UNCHANGED repoVars)
    BY DEF KeepsSnapshots, repoVars, Exists
  <1>2. ~TouchesByHand
    <2>1. manual \in Int
      BY DEF RepositoryTyped, WorldTyped
    <2> QED
      BY <2>1 DEF TouchesByHand, SourceChanges, HandRemoves, HandReplaces, files, Exists
  <1>3. ~MakesSnapshot
    BY DEF MakesSnapshot, EngineArchive, EngineManifest, EngineIdentity, EngineFails,
           PlainArchive, At
  <1>4. DeletesSnapshots
    BY <1>1, <1>2, <1>3 DEF RepositoryStep
  <1>5. PICK m \in Names : Unlink(m)
    BY <1>4 DEF DeletesSnapshots, Sweep, CleansOrphans, Exists
  <1>6. m = n
    BY <1>5 DEF Unlink, RepositoryTyped, FilesTyped, Exists
  <1> QED
    BY <1>5, <1>6 DEF Unlink, NextToDelete

\* When one snapshot is deleted no chain gets longer.
LEMMA UnlinkShrinks ==
    ASSUME RepositoryTyped, NEW n \in Names, Unlink(n)
    PROVE  \A m \in Names : ChainOf(archive', m) \subseteq ChainOf(archive, m)
  <1> SUFFICES ASSUME NEW m \in Names
               PROVE  ChainOf(archive', m) \subseteq ChainOf(archive, m)
    OBVIOUS
  <1>1. archive'[n] = NoFile /\ \A x \in Names : x # n => archive'[x] = archive[x]
    BY DEF Unlink, RepositoryTyped, FilesTyped
  <1>2. ChainOf(archive', m) \subseteq Names
    <2>1. RepositoryTyped'
      BY RepositoryTypedStep DEF RepositoryStep, DeletesSnapshots
    <2> QED
      BY <2>1, TypedParents, DepthIsNatural DEF RepositoryTyped
  <1>3. \A x \in Names : IsDeltaOf(archive', x) =>
          IsDeltaOf(archive, x) /\ archive'[x].parent = archive[x].parent
    BY <1>1 DEF IsDeltaOf
  <1> QED
    BY <1>2, <1>3, ChainShrinks
=============================================================================
