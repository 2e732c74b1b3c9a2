------------------------ MODULE PersistentStore_proof ------------------------
(***************************************************************************)
(* The safety of the store for any number of processes and records, every  *)
(* size of record and store and every scenario: the directory stays well   *)
(* formed, a held record is safe, and an undisturbed persist keeps the     *)
(* directory within its limit.                                             *)
(*                                                                         *)
(* The argument is about paths.  What a lane remembers of the directory    *)
(* can only go out of date: a path that is gone never comes back, since    *)
(* every new path differs from all that are remembered.  So a claimer that *)
(* finds its lease still there has the only claim, and the names that a    *)
(* persist listed cover all files until the directory changes under it.    *)
(***************************************************************************)
EXTENDS PersistentStore, FiniteSetTheorems, WellFoundedInduction, TLAPS

File == [kind: Kinds, version: Versions]

Persister == [pc: {"idle", "list", "stat", "expire", "evict", "write", "publish", "fail"},
              rec: Records \cup {0}, incoming: Nat, round: 0 .. 3, names: SUBSET Name,
              used: Nat, own: Versions, moved: BOOLEAN]

Lane == [pc: {"idle", "recover", "list", "scan", "rename", "reread", "claimed"},
         names: SUBSET Name]

Mishaps == [crashes: Nat, faults: Nat, abandoned: SUBSET Records]

Types ==
  /\ file \in [Records -> File]
  /\ old \subseteq Records /\ stale \subseteq Records /\ bad \subseteq Records
  /\ persister \in [Processes -> Persister]
  /\ claimer \in [Processes -> Lane]
  /\ mishaps \in Mishaps
  /\ offered \subseteq Records
  /\ scenario \in Scenarios

\* Names of different records, as one listing has them.
OneEach(names) == \A m, n \in names : m.rec = n.rec => m = n

Writing(p) == persister[p].pc # "idle"

\* A record at work has no file, or the temporary file that p wrote, or, when only the sync
\* after its publication failed, one that is no temporary any more.
OwnFile(p) ==
  \/ file[persister[p].rec].kind = "none"
  \/ persister[p].incoming = 0 /\ Exists(Temporary(p))
  \/ persister[p].pc = "fail" /\ file[persister[p].rec].kind # "tmp"

RecsOf(names) == {n.rec : n \in names}

\* The names p listed cover all files, each under the path it has.
Covered(p) == \A r \in Stored : \E n \in persister[p].names : n.rec = r /\ Exists(n)

PersisterOK(p) ==
  /\ OneEach(persister[p].names)
  /\ Writing(p) => persister[p].rec \in offered /\ OwnFile(p)
  /\ persister[p].pc = "write" => persister[p].incoming > 0
  /\ persister[p].pc = "publish" => persister[p].incoming = 0
  /\ persister[p].pc \in {"list", "stat", "expire", "evict"} => persister[p].round # 0
  /\ persister[p].pc = "expire" => Expired(persister[p].names) # {}
  /\ persister[p].pc = "evict" => CanEvict(persister[p].names) # {}
  /\ persister[p].pc \in {"expire", "evict"}
       => persister[p].used = SumBytes(persister[p].names)

\* What an undisturbed persist knows of the directory.
Current(p) ==
  ~persister[p].moved =>
    /\ persister[p].pc \in {"stat", "expire", "evict"} => Covered(p)
    /\ persister[p].pc = "publish" => TotalBytes <= MaxBytes

OneWriter ==
  \A p, q \in Processes :
    Writing(p) /\ Writing(q) /\ persister[p].rec = persister[q].rec => p = q

Claiming(p) == claimer[p].pc \in {"reread", "claimed"}

LeasesOf(p) == {n \in claimer[p].names : n.kind = "lease"}

ClaimerOK(p) ==
  /\ OneEach(claimer[p].names)
  /\ claimer[p].pc \in {"idle", "list"} => claimer[p].names = {}
  /\ claimer[p].pc \in {"recover", "scan", "rename"} => claimer[p].names # {}
  /\ claimer[p].pc = "recover" => \A n \in claimer[p].names : n.kind \in Active
  /\ claimer[p].pc \in {"scan", "rename"} => \A n \in claimer[p].names : n.kind = "pending"
  /\ Claiming(p) => /\ \E n \in claimer[p].names : LeasesOf(p) = {n}
                    /\ \A n \in claimer[p].names : n.kind \in {"lease", "pending"}
  /\ claimer[p].pc = "claimed" => claimer[p].names = LeasesOf(p)

\* A lease about to be recovered has run out, if it is still there.
RecoversStale(p) ==
  claimer[p].pc = "recover" =>
    \A n \in LeasesOf(p) : Exists(n) => n.rec \in stale

\* No two processes claim one path.
OneClaimer ==
  \A p, q \in Processes : \A m \in LeasesOf(p), n \in LeasesOf(q) :
    (Claiming(p) /\ Claiming(q) /\ m.rec = n.rec /\ m.version = n.version) => p = q

Unoffered == \A r \in scenario.new \ offered : file[r].kind = "none"

IInv ==
  /\ Types
  /\ \A p \in Processes : PersisterOK(p) /\ Current(p) /\ ClaimerOK(p) /\ RecoversStale(p)
  /\ OneWriter /\ OneClaimer /\ Unoffered /\ NoAbandonedTemporary

-----------------------------------------------------------------------------
(* Least elements and sums *)

\* A nonempty set of naturals has a least element.
LEMMA LeastExists ==
  ASSUME NEW S \in SUBSET Nat, S # {}
  PROVE  \E x \in S : \A y \in S : x <= y
<1> DEFINE R == OpToRel(<, Nat)
<1>1. IsWellFoundedOn(R, Nat)
  BY NatLessThanWellFounded
<1>2. \A x, y \in Nat : <<y, x>> \in R <=> y < x
  BY DEF OpToRel
<1> HIDE DEF R
<1>3. PICK x \in S : \A y \in S : ~ (<<y, x>> \in R)
  BY <1>1, WFMin
<1>4. \A y \in S : x <= y
  <2>1. TAKE y \in S
  <2>2. x \in Nat /\ y \in Nat
    BY <1>3
  <2>3. ~ (y < x)
    BY <1>2, <1>3, <2>2
  <2> QED
    BY <2>2, <2>3
<1> QED
  BY <1>3, <1>4

\* A nonempty set of subsets of a finite set has a minimal member.
LEMMA MinimalExists ==
  ASSUME NEW U, IsFiniteSet(U), NEW Sets \in SUBSET (SUBSET U), Sets # {}
  PROVE  \E s \in Sets : \A t \in Sets : t \subseteq s => t = s
<1>1. IsWellFoundedOn(StrictSubsetOrdering(U), FiniteSubsetsOf(U))
  BY FS_StrictSubsetOrderingWellFounded
<1>2. FiniteSubsetsOf(U) = SUBSET U
  BY FS_FiniteSubsetsOfFinite
<1>3. PICK s \in Sets : \A t \in Sets : ~ (<<t, s>> \in StrictSubsetOrdering(U))
  BY <1>1, <1>2, WFMin
<1>4. \A t \in Sets : t \subseteq s => t = s
  BY <1>3 DEF StrictSubsetOrdering
<1> QED
  BY <1>3, <1>4

\* The recursion behind BytesOf, on the sets of D.
Pick(s) == CHOOSE x \in s : TRUE

FoldsOn(f, D) ==
  f = [s \in D |-> IF s = {} THEN 0 ELSE Size[Pick(s)] + f[s \ {Pick(s)}]]

\* The recursion has a solution on the subsets of a finite set.
LEMMA FoldExists ==
  ASSUME NEW S, IsFiniteSet(S)
  PROVE  \E f : FoldsOn(f, SUBSET S)
<1> DEFINE UpTo(n) == {s \in SUBSET S : Cardinality(s) <= n}
           Bad     == {n \in Nat : ~ \E f : FoldsOn(f, UpTo(n))}
<1>1. \A s \in SUBSET S : IsFiniteSet(s) /\ Cardinality(s) \in Nat
                            /\ Cardinality(s) <= Cardinality(S)
  BY FS_Subset, FS_CardinalityType
<1>2. SUFFICES ASSUME Bad # {} PROVE FALSE
  <2>1. Cardinality(S) \in Nat
    BY FS_CardinalityType
  <2>2. UpTo(Cardinality(S)) = SUBSET S
    BY <1>1
  <2> QED
    BY <2>1, <2>2
<1>3. PICK m \in Bad : \A n \in Bad : m <= n
  BY <1>2, LeastExists
<1>4. CASE m = 0
  <2>1. \A s \in UpTo(0) : s = {}
    BY <1>1, FS_EmptySet
  <2>2. FoldsOn([s \in UpTo(0) |-> 0], UpTo(0))
    BY <2>1 DEF FoldsOn
  <2> QED
    BY <1>3, <1>4, <2>2
<1>5. CASE m # 0
  <2>1. m - 1 \in Nat /\ m - 1 \notin Bad
    <3>1. m \in Nat
      OBVIOUS
    <3> HIDE DEF Bad
    <3> QED
      BY <1>3, <1>5, <3>1
  <2>2. PICK g : FoldsOn(g, UpTo(m - 1))
    BY <2>1
  <2> DEFINE f == [s \in UpTo(m) |-> IF s = {} THEN 0
                                     ELSE Size[Pick(s)] + g[s \ {Pick(s)}]]
  <2>3. \A s \in UpTo(m) : s # {} => s \ {Pick(s)} \in UpTo(m - 1)
    <3>1. SUFFICES ASSUME NEW s \in UpTo(m), s # {} PROVE s \ {Pick(s)} \in UpTo(m - 1)
      OBVIOUS
    <3>2. Pick(s) \in s
      BY <3>1 DEF Pick
    <3>3. Cardinality(s \ {Pick(s)}) = Cardinality(s) - 1
      BY <1>1, <3>2, FS_RemoveElement
    <3> QED
      BY <1>1, <1>3, <3>3
  <2>4. \A s \in UpTo(m - 1) : f[s] = g[s]
    <3>1. \A s \in UpTo(m - 1) : s \in UpTo(m)
      BY <1>1, <1>3
    <3> QED
      BY <2>2, <3>1 DEF FoldsOn
  <2>5. FoldsOn(f, UpTo(m))
    <3> HIDE DEF UpTo
    <3> QED
      BY <2>3, <2>4 DEF FoldsOn
  <2> QED
    BY <1>3, <2>5
<1> QED
  BY <1>4, <1>5

LEMMA BytesFold ==
  ASSUME NEW S, IsFiniteSet(S)
  PROVE  \E f : FoldsOn(f, SUBSET S) /\ BytesOf(S) = f[S]
<1>1. BytesOf(S) = (CHOOSE f : FoldsOn(f, SUBSET S))[S]
  BY DEF BytesOf, MapThenSumSet, MapThenFoldSet, FoldsOn, Pick
<1> QED
  BY <1>1, FoldExists

\* A solution on the subsets of S gives the bytes of each of them.
LEMMA FoldsAgree ==
  ASSUME NEW S, IsFiniteSet(S), NEW f, FoldsOn(f, SUBSET S), NEW T \in SUBSET S
  PROVE  f[T] = BytesOf(T)
<1>1. IsFiniteSet(T)
  BY FS_Subset
<1>2. PICK g : FoldsOn(g, SUBSET T) /\ BytesOf(T) = g[T]
  BY <1>1, BytesFold
<1> DEFINE Bad == {s \in SUBSET T : f[s] # g[s]}
<1>3. SUFFICES ASSUME Bad # {} PROVE FALSE
  BY <1>2
<1>4. PICK s \in Bad : \A t \in Bad : t \subseteq s => t = s
  <2>1. Bad \in SUBSET (SUBSET T)
    OBVIOUS
  <2> HIDE DEF Bad
  <2> QED
    BY <2>1, <1>1, <1>3, MinimalExists
<1>5. s \in SUBSET T /\ s \in SUBSET S /\ f[s] # g[s]
  BY <1>4
<1>6. s # {}
  BY <1>2, <1>5 DEF FoldsOn
<1>7. Pick(s) \in s
  BY <1>6 DEF Pick
<1>8. f[s \ {Pick(s)}] = g[s \ {Pick(s)}]
  BY <1>4, <1>7
<1>9. f[s] = Size[Pick(s)] + f[s \ {Pick(s)}] /\ g[s] = Size[Pick(s)] + g[s \ {Pick(s)}]
  BY <1>2, <1>5, <1>6 DEF FoldsOn
<1> QED
  BY <1>5, <1>8, <1>9

LEMMA BytesStep ==
  ASSUME NEW S, IsFiniteSet(S)
  PROVE  BytesOf(S) = IF S = {} THEN 0 ELSE Size[Pick(S)] + BytesOf(S \ {Pick(S)})
<1>1. PICK f : FoldsOn(f, SUBSET S) /\ BytesOf(S) = f[S]
  BY BytesFold
<1>2. f[S \ {Pick(S)}] = BytesOf(S \ {Pick(S)})
  BY <1>1, FoldsAgree
<1>3. f[S] = IF S = {} THEN 0 ELSE Size[Pick(S)] + f[S \ {Pick(S)}]
  BY <1>1 DEF FoldsOn
<1> QED
  BY <1>1, <1>2, <1>3

\* The bytes of records are a number.
LEMMA BytesNat ==
  ASSUME NEW S \in SUBSET Records
  PROVE  BytesOf(S) \in Nat
<1> DEFINE Bad == {s \in SUBSET Records : BytesOf(s) \notin Nat}
<1>1. SUFFICES ASSUME Bad # {} PROVE FALSE
  OBVIOUS
<1>2. IsFiniteSet(Records)
  BY StoreAssumption
<1>3. PICK s \in Bad : \A t \in Bad : t \subseteq s => t = s
  <2>1. Bad \in SUBSET (SUBSET Records)
    OBVIOUS
  <2> HIDE DEF Bad
  <2> QED
    BY <2>1, <1>1, <1>2, MinimalExists
<1>4. IsFiniteSet(s)
  BY <1>2, <1>3, FS_Subset
<1>5. BytesOf(s) = IF s = {} THEN 0 ELSE Size[Pick(s)] + BytesOf(s \ {Pick(s)})
  BY <1>4, BytesStep
<1>6. s # {} /\ Pick(s) \in s
  BY <1>3, <1>5 DEF Pick
<1>7. BytesOf(s \ {Pick(s)}) \in Nat
  BY <1>3, <1>6
<1>8. Size[Pick(s)] \in Nat
  BY <1>3, <1>6, StoreAssumption
<1> QED
  BY <1>3, <1>5, <1>6, <1>7, <1>8

\* Whatever record is taken away first, the bytes of the others are left.
LEMMA BytesRemove ==
  ASSUME NEW S \in SUBSET Records, NEW r \in S
  PROVE  BytesOf(S) = Size[r] + BytesOf(S \ {r})
<1> DEFINE Bad == {s \in SUBSET Records :
                     \E x \in s : BytesOf(s) # Size[x] + BytesOf(s \ {x})}
<1>1. SUFFICES ASSUME Bad # {} PROVE FALSE
  OBVIOUS
<1>2. IsFiniteSet(Records)
  BY StoreAssumption
<1>3. PICK s \in Bad : \A t \in Bad : t \subseteq s => t = s
  <2>1. Bad \in SUBSET (SUBSET Records)
    OBVIOUS
  <2> HIDE DEF Bad
  <2> QED
    BY <2>1, <1>1, <1>2, MinimalExists
<1>4. PICK x \in s : BytesOf(s) # Size[x] + BytesOf(s \ {x})
  BY <1>3
<1>5. s \in SUBSET Records /\ IsFiniteSet(s)
  BY <1>2, <1>3, FS_Subset
<1> DEFINE y == Pick(s)
<1>6. y \in s
  BY <1>4 DEF Pick
<1>7. BytesOf(s) = Size[y] + BytesOf(s \ {y})
  BY <1>4, <1>5, BytesStep
<1> HIDE DEF y
<1>8. x # y
  BY <1>4, <1>7
<1>9. s \ {y} \notin Bad /\ s \ {x} \notin Bad
  BY <1>3, <1>4, <1>6
<1>10. BytesOf(s \ {y}) = Size[x] + BytesOf((s \ {y}) \ {x})
  BY <1>4, <1>5, <1>8, <1>9
<1>11. BytesOf(s \ {x}) = Size[y] + BytesOf((s \ {x}) \ {y})
  BY <1>5, <1>6, <1>8, <1>9
<1>12. (s \ {y}) \ {x} = (s \ {x}) \ {y}
  OBVIOUS
<1>13. Size[x] \in Nat /\ Size[y] \in Nat
  BY <1>4, <1>5, <1>6, StoreAssumption
<1>14. BytesOf((s \ {x}) \ {y}) \in Nat
  <2>1. (s \ {x}) \ {y} \in SUBSET Records
    BY <1>5
  <2> QED
    BY <2>1, BytesNat
<1> HIDE DEF Bad
<1> QED
  BY <1>4, <1>7, <1>10, <1>11, <1>12, <1>13, <1>14

\* Fewer records have no more bytes.
LEMMA BytesMonotone ==
  ASSUME NEW S \in SUBSET Records, NEW T \in SUBSET S
  PROVE  BytesOf(T) <= BytesOf(S)
<1> DEFINE Bad == {s \in SUBSET Records : \E t \in SUBSET s : ~ (BytesOf(t) <= BytesOf(s))}
<1>1. SUFFICES ASSUME Bad # {} PROVE FALSE
  OBVIOUS
<1>2. IsFiniteSet(Records)
  BY StoreAssumption
<1>3. PICK s \in Bad : \A t \in Bad : t \subseteq s => t = s
  <2>1. Bad \in SUBSET (SUBSET Records)
    OBVIOUS
  <2> HIDE DEF Bad
  <2> QED
    BY <2>1, <1>1, <1>2, MinimalExists
<1>4. PICK t \in SUBSET s : ~ (BytesOf(t) <= BytesOf(s))
  BY <1>3
<1>5. BytesOf(t) \in Nat /\ BytesOf(s) \in Nat
  BY <1>3, <1>4, BytesNat
<1>6. PICK x \in s : x \notin t
  BY <1>4, <1>5
<1>7. s \ {x} \notin Bad /\ s \ {x} \in SUBSET Records /\ t \in SUBSET (s \ {x})
  BY <1>3, <1>6
<1>8. BytesOf(t) <= BytesOf(s \ {x})
  BY <1>7
<1>9. BytesOf(s) = Size[x] + BytesOf(s \ {x})
  BY <1>3, BytesRemove
<1>10. Size[x] \in Nat /\ BytesOf(s \ {x}) \in Nat
  BY <1>3, <1>7, BytesNat, StoreAssumption
<1> HIDE DEF Bad
<1> QED
  BY <1>4, <1>5, <1>8, <1>9, <1>10

-----------------------------------------------------------------------------
(* Paths *)

\* The values of a function are no more than its arguments.
LEMMA FewValues ==
  ASSUME NEW S, IsFiniteSet(S), NEW f, DOMAIN f = S
  PROVE  LET T == {f[x] : x \in S} IN
         /\ IsFiniteSet(T) /\ Cardinality(T) \in Nat /\ Cardinality(T) <= Cardinality(S)
<1> DEFINE T == {f[x] : x \in S}
           g == [x \in S |-> f[x]]
<1>1. g \in Surjection(S, T)
  BY DEF Surjection
<1> HIDE DEF T, g
<1>2. IsFiniteSet(T) /\ Cardinality(T) <= Cardinality(S)
  BY <1>1, FS_Surjection
<1>3. Cardinality(T) \in Nat
  BY <1>2, FS_CardinalityType
<1> USE DEF T
<1> QED
  BY <1>2, <1>3

\* Four sets of versions, of P members each but the last, which has one, leave one out.
LEMMA VersionLeft ==
  ASSUME NEW A, NEW B, NEW C, NEW v, NEW P \in Nat, MaxVersion \in Nat, MaxVersion > 3 * P,
         IsFiniteSet(A), Cardinality(A) \in Nat, Cardinality(A) <= P,
         IsFiniteSet(B), Cardinality(B) \in Nat, Cardinality(B) <= P,
         IsFiniteSet(C), Cardinality(C) \in Nat, Cardinality(C) <= P
  PROVE  Versions \ (A \cup B \cup C \cup {v}) # {}
<1>1. IsFiniteSet(A \cup B) /\ Cardinality(A \cup B) \in Nat /\ Cardinality(A \cup B) <= 2 * P
  <2>1. /\ IsFiniteSet(A \cup B) /\ IsFiniteSet(A \cap B)
        /\ Cardinality(A \cup B) = Cardinality(A) + Cardinality(B) - Cardinality(A \cap B)
    BY FS_Union, FS_Subset
  <2>2. Cardinality(A \cap B) \in Nat /\ Cardinality(A \cup B) \in Nat
    BY <2>1, FS_CardinalityType
  <2> QED
    BY <2>1, <2>2
<1> DEFINE AB == A \cup B
           D == AB \cup C
<1>2. IsFiniteSet(AB) /\ Cardinality(AB) \in Nat /\ Cardinality(AB) <= 2 * P
  BY <1>1
<1> HIDE DEF AB
<1>3. IsFiniteSet(D) /\ Cardinality(D) \in Nat /\ Cardinality(D) <= 3 * P
  <2>1. /\ IsFiniteSet(AB \cup C) /\ IsFiniteSet(AB \cap C)
        /\ Cardinality(AB \cup C) = Cardinality(AB) + Cardinality(C) - Cardinality(AB \cap C)
    BY <1>2, FS_Union, FS_Subset
  <2>2. Cardinality(AB \cap C) \in Nat /\ Cardinality(AB \cup C) \in Nat
    BY <2>1, FS_CardinalityType
  <2> QED
    BY <1>2, <2>1, <2>2
<1> HIDE DEF D
<1>4. IsFiniteSet(D \cup {v}) /\ Cardinality(D \cup {v}) <= 3 * P + 1
  <2>1. /\ IsFiniteSet(D \cup {v})
        /\ Cardinality(D \cup {v}) = IF v \in D THEN Cardinality(D) ELSE Cardinality(D) + 1
    BY <1>3, FS_AddElement
  <2>2. Cardinality(D \cup {v}) = Cardinality(D) \/ Cardinality(D \cup {v}) = Cardinality(D) + 1
    BY <2>1
  <2> QED
    BY <1>3, <2>1, <2>2
<1>5. IsFiniteSet(Versions) /\ Cardinality(Versions) = MaxVersion + 1
  <2>1. 0 \in Int /\ MaxVersion \in Int
    OBVIOUS
  <2>2. /\ IsFiniteSet(0 .. MaxVersion)
        /\ Cardinality(0 .. MaxVersion) = IF 0 > MaxVersion THEN 0 ELSE MaxVersion - 0 + 1
    BY <2>1, FS_Interval, Zenon
  <2> QED
    BY <2>2 DEF Versions
<1>6. SUFFICES ASSUME Versions \subseteq D \cup {v} PROVE FALSE
  BY DEF D, AB
<1>7. Cardinality(Versions) <= Cardinality(D \cup {v})
  BY <1>4, <1>6, FS_Subset
<1>8. Cardinality(D \cup {v}) \in Nat
  BY <1>4, FS_CardinalityType
<1> QED
  BY <1>4, <1>5, <1>7, <1>8

\* There is a version that nobody remembers: each process remembers at most three.
LEMMA FreshVersion ==
  ASSUME Types, \A p \in Processes : OneEach(persister[p].names) /\ OneEach(claimer[p].names),
         NEW r \in Records
  PROVE  NewVersion(r) \in Versions \ (Remembered(r) \cup {file[r].version})
<1> DEFINE V(names) == CHOOSE v : \E n \in names : n.rec = r /\ n.version = v
           f == [p \in Processes |-> V(persister[p].names)]
           g == [p \in Processes |-> V(claimer[p].names)]
           h == [p \in Processes |-> persister[p].own]
           A == {f[p] : p \in Processes}
           B == {g[p] : p \in Processes}
           C == {h[p] : p \in Processes}
<1>1. \A names : OneEach(names) => \A n \in names : n.rec = r => n.version = V(names)
  <2>1. SUFFICES ASSUME NEW names, OneEach(names), NEW n \in names, n.rec = r
                 PROVE n.version = V(names)
    OBVIOUS
  <2>2. \E m \in names : m.rec = r /\ m.version = V(names)
    BY <2>1
  <2> QED
    BY <2>1, <2>2 DEF OneEach
<1>2. Remembered(r) \subseteq A \cup B \cup C
  <2>1. SUFFICES ASSUME NEW v \in Remembered(r) PROVE v \in A \cup B \cup C
    OBVIOUS
  <2>2. CASE \E p \in Processes : \E n \in persister[p].names : n.rec = r /\ v = n.version
    <3>1. PICK p \in Processes : \E n \in persister[p].names : n.rec = r /\ v = n.version
      BY <2>2
    <3>2. v = V(persister[p].names)
      BY <1>1, <3>1
    <3> HIDE DEF V
    <3> QED
      BY <3>2
  <2>3. CASE \E p \in Processes : \E n \in claimer[p].names : n.rec = r /\ v = n.version
    <3>1. PICK p \in Processes : \E n \in claimer[p].names : n.rec = r /\ v = n.version
      BY <2>3
    <3>2. v = V(claimer[p].names)
      BY <1>1, <3>1
    <3> HIDE DEF V
    <3> QED
      BY <3>2
  <2>4. CASE \E p \in Processes : v = persister[p].own
    BY <2>4
  <2> HIDE DEF A, B, C
  <2> QED
    BY <2>1, <2>2, <2>3, <2>4 DEF Remembered
<1>3. Cardinality(Processes) \in Nat
  BY StoreAssumption, FS_CardinalityType
<1>4. /\ IsFiniteSet(A) /\ Cardinality(A) \in Nat /\ Cardinality(A) <= Cardinality(Processes)
      /\ IsFiniteSet(B) /\ Cardinality(B) \in Nat /\ Cardinality(B) <= Cardinality(Processes)
      /\ IsFiniteSet(C) /\ Cardinality(C) \in Nat /\ Cardinality(C) <= Cardinality(Processes)
  <2>1. DOMAIN f = Processes /\ DOMAIN g = Processes /\ DOMAIN h = Processes
    OBVIOUS
  <2> HIDE DEF f, g, h
  <2> QED
    BY <2>1, StoreAssumption, FewValues
<1> DEFINE Free == Versions \ (Remembered(r) \cup {file[r].version})
<1>5. Free # {}
  <2> HIDE DEF A, B, C
  <2>1. Versions \ (A \cup B \cup C \cup {file[r].version}) # {}
    BY <1>3, <1>4, StoreAssumption, VersionLeft
  <2> QED
    BY <1>2, <2>1
<1>6. Free \in SUBSET Nat
  BY DEF Versions
<1>7. \E v \in Free : \A w \in Free : v <= w
  <2> HIDE DEF Free
  <2> QED
    BY <1>5, <1>6, LeastExists
<1> QED
  BY <1>7 DEF NewVersion

\* The oldest of some names is one of them.
LEMMA OldestIsOne ==
  ASSUME NEW names \in SUBSET Name, names # {}
  PROVE  Oldest(names) \in names
<1>1. RecsOf(names) \in SUBSET Nat /\ RecsOf(names) # {}
  <2>1. RecsOf(names) \subseteq Records
    BY DEF RecsOf, Name
  <2>2. Records \subseteq Nat
    BY StoreAssumption
  <2>3. RecsOf(names) # {}
    BY DEF RecsOf
  <2> QED
    BY <2>1, <2>2, <2>3
<1>2. PICK r \in RecsOf(names) : \A s \in RecsOf(names) : r <= s
  BY <1>1, LeastExists
<1>3. \E n \in names : \A m \in names : n.rec <= m.rec
  BY <1>2 DEF RecsOf
<1> QED
  BY <1>3 DEF Oldest

\* The bytes of the names are less one name's when it is taken away.
LEMMA BytesOfNames ==
  ASSUME NEW names \in SUBSET Name, OneEach(names)
  PROVE  /\ SumBytes(names) \in Nat
         /\ \A n \in names : SumBytes(names \ {n}) = SumBytes(names) - Size[n.rec]
<1>1. RecsOf(names) \in SUBSET Records
  BY DEF RecsOf, Name
<1>2. SumBytes(names) \in Nat
  BY <1>1, BytesNat DEF SumBytes, RecsOf
<1>3. ASSUME NEW n \in names
      PROVE  SumBytes(names \ {n}) = SumBytes(names) - Size[n.rec]
  <2>1. RecsOf(names \ {n}) = RecsOf(names) \ {n.rec}
    BY DEF RecsOf, OneEach
  <2>2. n.rec \in RecsOf(names) /\ RecsOf(names) \ {n.rec} \in SUBSET Records
    BY <1>1 DEF RecsOf
  <2>3. BytesOf(RecsOf(names)) = Size[n.rec] + BytesOf(RecsOf(names) \ {n.rec})
    BY <1>1, <2>2, BytesRemove
  <2>4. BytesOf(RecsOf(names) \ {n.rec}) \in Nat /\ Size[n.rec] \in Nat
    BY <1>1, <2>2, BytesNat, StoreAssumption
  <2>5. SumBytes(names) = BytesOf(RecsOf(names))
           /\ SumBytes(names \ {n}) = BytesOf(RecsOf(names) \ {n.rec})
    BY <2>1 DEF SumBytes, RecsOf
  <2> QED
    BY <1>2, <2>3, <2>4, <2>5
<1> QED
  BY <1>2, <1>3

-----------------------------------------------------------------------------
(* The initial states, and what the invariant says *)

LEMMA InitInvariant == Init => IInv
<1> SUFFICES ASSUME Init PROVE IInv
  OBVIOUS
<1>1. scenario \in Scenario /\ scenario.legacy \cap scenario.new = {}
        /\ scenario.legacy \subseteq Records
  BY StoreAssumption DEF Init, Scenario
<1>2. 0 \in Versions
  BY StoreAssumption DEF Versions
<1>3. file \in [Records -> File]
  <2>1. [kind |-> "legacy", version |-> 0] \in File /\ NoFile \in File
    BY <1>2 DEF File, NoFile, Kinds
  <2> QED
    BY <2>1 DEF Init
<1>4. \A r \in Records : file[r].kind \in {"none", "legacy"}
                           /\ (file[r].kind = "legacy" => r \in scenario.legacy)
  BY DEF Init, NoFile
<1>5. IdlePersister \in Persister /\ Idle \in Lane
  BY <1>2 DEF IdlePersister, Idle, Persister, Lane
<1>6. \A p \in Processes : persister[p] = IdlePersister /\ claimer[p] = Idle
  BY DEF Init
<1>7. Types
  <2>1. mishaps \in Mishaps
    BY DEF Init, Mishaps
  <2> QED
    BY <1>3, <1>5, <2>1 DEF Types, Init
<1>8. ASSUME NEW p \in Processes
      PROVE  PersisterOK(p) /\ Current(p) /\ ClaimerOK(p) /\ RecoversStale(p)
  BY <1>6 DEF PersisterOK, Current, ClaimerOK, RecoversStale, OneEach, Writing, Claiming,
              IdlePersister, Idle
<1>9. OneWriter /\ OneClaimer
  BY <1>6 DEF OneWriter, OneClaimer, Writing, Claiming, IdlePersister, Idle
<1>10. Unoffered
  BY <1>1, <1>4, Zenon DEF Unoffered, Scenario
<1>11. NoAbandonedTemporary
  BY <1>4 DEF NoAbandonedTemporary
<1> QED
  BY <1>7, <1>8, <1>9, <1>10, <1>11 DEF IInv

\* A claim is the one lease its claimer remembers.
LEMMA ClaimIsLease ==
  ASSUME IInv, NEW p \in Processes, claimer[p].pc = "claimed"
  PROVE  Claim(p) \in LeasesOf(p) /\ claimer[p].names = {Claim(p)}
<1>1. PICK n \in claimer[p].names : LeasesOf(p) = {n}
  BY DEF IInv, ClaimerOK, Claiming
<1>2. claimer[p].names = {n}
  BY <1>1 DEF IInv, ClaimerOK
<1> QED
  BY <1>1, <1>2 DEF Claim

LEMMA InvariantSays == IInv => StoreInv
<1> SUFFICES ASSUME IInv PROVE StoreInv
  OBVIOUS
<1>1. TypeOK
  <2>1. ASSUME NEW p \in Processes
        PROVE  /\ persister[p].names \subseteq Name
               /\ claimer[p].names \subseteq Name
               /\ persister[p].used \in Nat
               /\ claimer[p].pc \in {"reread", "claimed"}
                    => \E n \in claimer[p].names : n.kind = "lease"
    <3>1. persister[p] \in Persister /\ claimer[p] \in Lane
      BY DEF IInv, Types
    <3>2. claimer[p].pc \in {"reread", "claimed"}
                    => \E n \in claimer[p].names : n.kind = "lease"
      BY DEF IInv, ClaimerOK, Claiming, LeasesOf
    <3> QED
      BY <3>1, <3>2 DEF Persister, Lane
  <2>2. file \in [Records -> [kind: Kinds, version: Versions]]
    BY DEF IInv, Types, File
  <2> QED
    BY <2>1, <2>2 DEF TypeOK, IInv, Types, Mishaps
<1>2. OneValidClaim
  <2>1. SUFFICES ASSUME NEW p \in Processes, NEW q \in Processes, NEW r \in Records,
                        Holds(p, r), Holds(q, r), Exists(Claim(p)), Exists(Claim(q))
                 PROVE  p = q
    BY DEF OneValidClaim
  <2>2. Claim(p) \in LeasesOf(p) /\ Claim(q) \in LeasesOf(q)
    BY <2>1, ClaimIsLease DEF Holds
  <2>3. Claim(p).rec = Claim(q).rec /\ Claim(p).version = Claim(q).version
    BY <2>1 DEF Holds, Exists
  <2>4. Claiming(p) /\ Claiming(q)
    BY <2>1 DEF Holds, Claiming
  <2> QED
    BY <2>2, <2>3, <2>4 DEF IInv, OneClaimer
<1> QED
  BY <1>1, <1>2 DEF IInv, StoreInv

-----------------------------------------------------------------------------
(* What lanes know while others take steps *)

\* A step of the persisters in P, or of claimers, as every other persister sees it: a file
\* stays as it is, goes, or gets a path nobody remembers, and then they are disturbed.
FileStep(P) ==
  /\ \A r \in Records :
       \/ file'[r] = file[r]
       \/ file'[r].kind = "none"
       \/ /\ file'[r].version \notin Remembered(r)
          /\ file[r].kind = "none" => r \in offered
          /\ \A q \in Processes \ P : Writing(q) =>
               /\ persister'[q].moved
               /\ persister[q].rec = r => persister[q].pc = "fail" /\ file'[r].kind # "tmp"
  /\ \A r \in stale \ stale' : file'[r] # file[r]

KeptPersister(q) ==
  /\ persister'[q].pc = persister[q].pc
  /\ persister'[q].rec = persister[q].rec
  /\ persister'[q].incoming = persister[q].incoming
  /\ persister'[q].round = persister[q].round
  /\ persister'[q].names = persister[q].names
  /\ persister'[q].used = persister[q].used
  /\ persister'[q].own = persister[q].own
  /\ Writing(q) /\ persister[q].moved => persister'[q].moved

LEMMA OtherPersisters ==
  ASSUME IInv, Types', NEW P \in SUBSET Processes, FileStep(P), offered \subseteq offered',
         NEW q \in Processes \ P, KeptPersister(q)
  PROVE  PersisterOK(q)' /\ Current(q)'
<1> DEFINE s == persister[q].rec
<1>1. persister[q] \in Persister /\ PersisterOK(q) /\ Current(q)
  BY DEF IInv, Types
<1>2. Writing(q) => s \in Records /\ s \in offered
  BY <1>1 DEF PersisterOK, IInv, Types
<1>3. Writing(q) => OwnFile(q)'
  <2>1. SUFFICES ASSUME Writing(q) PROVE OwnFile(q)'
    OBVIOUS
  <2>2. \/ file'[s] = file[s] \/ file'[s].kind = "none"
        \/ persister[q].pc = "fail" /\ file'[s].kind # "tmp"
    BY <1>2, <2>1 DEF FileStep
  <2>3. persister'[q].rec = s /\ persister'[q].incoming = persister[q].incoming
           /\ persister'[q].own = persister[q].own /\ persister'[q].pc = persister[q].pc
    BY DEF KeptPersister
  <2>4. OwnFile(q)
    BY <1>1, <2>1 DEF PersisterOK
  <2> QED
    BY <2>2, <2>3, <2>4 DEF OwnFile, Exists, Temporary
<1>4. PersisterOK(q)'
  <2>1. OneEach(persister'[q].names)
    BY <1>1 DEF PersisterOK, KeptPersister
  <2>2. persister'[q].pc # "idle" => persister'[q].rec \in offered'
    BY <1>2 DEF KeptPersister, Writing
  <2>3. /\ persister'[q].pc = "write" => persister'[q].incoming > 0
        /\ persister'[q].pc = "publish" => persister'[q].incoming = 0
        /\ persister'[q].pc \in {"list", "stat", "expire", "evict"} => persister'[q].round # 0
        /\ persister'[q].pc = "expire" => Expired(persister'[q].names) # {}
        /\ persister'[q].pc = "evict" => CanEvict(persister'[q].names) # {}
        /\ persister'[q].pc \in {"expire", "evict"}
             => persister'[q].used = SumBytes(persister'[q].names)
    BY <1>1 DEF PersisterOK, KeptPersister
  <2>4. persister'[q].pc # "idle" => OwnFile(q)'
    BY <1>3 DEF KeptPersister, Writing
  <2> QED
    BY <2>1, <2>2, <2>3, <2>4 DEF PersisterOK, Writing
<1>5. Current(q)'
  <2>1. SUFFICES ASSUME ~persister'[q].moved,
                        persister[q].pc \in {"stat", "expire", "evict", "publish"}
                 PROVE  Current(q)'
    BY DEF Current, KeptPersister
  <2>2. Writing(q) /\ ~persister[q].moved
    BY <2>1 DEF Writing, KeptPersister
  <2>3. \A r \in Records : file'[r] = file[r] \/ file'[r].kind = "none"
    BY <2>1, <2>2 DEF FileStep
  <2>4. Stored' \in SUBSET Stored /\ Stored \in SUBSET Records
    BY <2>3 DEF Stored
  <2>5. ASSUME persister[q].pc # "publish" PROVE Covered(q)'
    <3>1. Covered(q)
      BY <1>1, <2>1, <2>2, <2>5 DEF Current
    <3>2. SUFFICES ASSUME NEW r \in Stored'
                   PROVE  \E n \in persister'[q].names : n.rec = r /\ Exists(n)'
      BY DEF Covered
    <3>3. PICK n \in persister[q].names : n.rec = r /\ Exists(n)
      BY <2>4, <3>1 DEF Covered
    <3>4. file'[r] = file[r]
      BY <2>3, <2>4 DEF Stored
    <3>5. Exists(n)'
      BY <3>3, <3>4 DEF Exists
    <3> QED
      BY <3>3, <3>5 DEF KeptPersister
  <2>6. ASSUME persister[q].pc = "publish" PROVE TotalBytes' <= MaxBytes
    <3>1. TotalBytes <= MaxBytes
      BY <1>1, <2>2, <2>6 DEF Current
    <3>2. BytesOf(Stored') <= BytesOf(Stored)
      BY <2>4, BytesMonotone
    <3>3. Stored' \in SUBSET Records
      BY <2>4
    <3>4. BytesOf(Stored') \in Nat /\ BytesOf(Stored) \in Nat
      BY <2>4, <3>3, BytesNat
    <3>5. TotalBytes' = BytesOf(Stored') /\ TotalBytes = BytesOf(Stored)
      BY DEF TotalBytes
    <3>6. MaxBytes \in Nat
      BY StoreAssumption
    <3> QED
      BY <3>1, <3>2, <3>4, <3>5, <3>6
  <2> QED
    BY <2>5, <2>6 DEF Current, KeptPersister
<1> QED
  BY <1>4, <1>5

LEMMA OtherClaimers ==
  ASSUME IInv, NEW P \in SUBSET Processes, FileStep(P),
         NEW q \in Processes, claimer'[q] = claimer[q]
  PROVE  ClaimerOK(q)' /\ RecoversStale(q)'
<1>1. ClaimerOK(q) /\ RecoversStale(q) /\ claimer[q] \in Lane
  BY DEF IInv, Types
<1>2. LeasesOf(q)' = LeasesOf(q)
  BY DEF LeasesOf
<1>3. ClaimerOK(q)'
  BY <1>1, <1>2 DEF ClaimerOK, Claiming
<1>4. RecoversStale(q)'
  <2>1. SUFFICES ASSUME claimer[q].pc = "recover", NEW n \in LeasesOf(q), Exists(n)'
                 PROVE  n.rec \in stale'
    BY <1>2 DEF RecoversStale
  <2>2. n \in claimer[q].names /\ n \in Name /\ n.kind = "lease"
    BY <1>1 DEF LeasesOf, Lane
  <2>3. n.rec \in Records /\ n.version \in Remembered(n.rec)
    BY <2>2 DEF Name, Remembered
  <2>4. file'[n.rec].kind = "lease" /\ file'[n.rec].version = n.version
    BY <2>1, <2>2 DEF Exists
  <2>5. file'[n.rec] = file[n.rec]
    BY <2>3, <2>4 DEF FileStep
  <2>6. n.rec \in stale
    BY <1>1, <2>1, <2>5 DEF RecoversStale, Exists
  <2> QED
    BY <2>5, <2>6 DEF FileStep
<1> QED
  BY <1>3, <1>4

\* A step preserves the invariant if it does for the lanes that take it.
LEMMA StepKeeps ==
  ASSUME IInv, Types', NEW P \in SUBSET Processes, NEW C \in SUBSET Processes, FileStep(P),
         offered \subseteq offered', scenario' = scenario,
         \A q \in Processes \ P : KeptPersister(q),
         \A q \in Processes \ C : claimer'[q] = claimer[q],
         \A p \in P : PersisterOK(p)' /\ Current(p)',
         \A p \in C : ClaimerOK(p)' /\ RecoversStale(p)',
         OneWriter', OneClaimer', NoAbandonedTemporary'
  PROVE  IInv'
<1>1. \A q \in Processes : PersisterOK(q)' /\ Current(q)'
  BY OtherPersisters
<1>2. \A q \in Processes : ClaimerOK(q)' /\ RecoversStale(q)'
  BY OtherClaimers
<1>3. Unoffered'
  <2>1. SUFFICES ASSUME NEW r \in scenario.new \ offered' PROVE file'[r].kind = "none"
    BY DEF Unoffered
  <2>2. r \in scenario.new \ offered
    BY <2>1
  <2>3. file[r].kind = "none"
    BY <2>2 DEF IInv, Unoffered
  <2>4. r \in Records
    <3>1. scenario \in Scenario
      BY StoreAssumption DEF IInv, Types
    <3> QED
      BY <2>1, <3>1 DEF Scenario
  <2> QED
    BY <2>2, <2>3, <2>4 DEF FileStep
<1> QED
  BY <1>1, <1>2, <1>3 DEF IInv

\* The invariant after a step of p that persists, and after one that claims.
LEMMA PersisterStep ==
  ASSUME IInv, Types', NEW p \in Processes, FileStep({p}), offered \subseteq offered',
         UNCHANGED <<claimer, scenario>>,
         \A q \in Processes \ {p} : KeptPersister(q),
         PersisterOK(p)', Current(p)', OneWriter', NoAbandonedTemporary'
  PROVE  IInv'
<1>1. {p} \in SUBSET Processes /\ {} \in SUBSET Processes /\ scenario' = scenario
  OBVIOUS
<1>2. \A q \in Processes \ {} : claimer'[q] = claimer[q]
  OBVIOUS
<1>3. \A q \in {p} : PersisterOK(q)' /\ Current(q)'
  OBVIOUS
<1>4. \A q \in {} : ClaimerOK(q)' /\ RecoversStale(q)'
  OBVIOUS
<1>5. OneClaimer'
  BY DEF IInv, OneClaimer, Claiming, LeasesOf
<1> QED
  BY <1>1, <1>2, <1>3, <1>4, <1>5, StepKeeps

LEMMA ClaimerStep ==
  ASSUME IInv, Types', NEW p \in Processes, FileStep({}), UNCHANGED <<offered, scenario>>,
         \A q \in Processes : KeptPersister(q),
         \A q \in Processes \ {p} : claimer'[q] = claimer[q],
         ClaimerOK(p)', RecoversStale(p)', OneWriter', OneClaimer', NoAbandonedTemporary'
  PROVE  IInv'
<1>1. {p} \in SUBSET Processes /\ {} \in SUBSET Processes
        /\ scenario' = scenario /\ offered \subseteq offered'
  OBVIOUS
<1>2. \A q \in Processes \ {} : KeptPersister(q)
  OBVIOUS
<1>3. \A q \in {p} : ClaimerOK(q)' /\ RecoversStale(q)'
  OBVIOUS
<1>4. \A q \in {} : PersisterOK(q)' /\ Current(q)'
  OBVIOUS
<1> QED
  BY <1>1, <1>2, <1>3, <1>4, StepKeeps

\* No lane begins to write, or none to claim.
LEMMA NoNewWriter ==
  ASSUME IInv, \A q \in Processes : persister'[q].pc # "idle" =>
                 Writing(q) /\ persister'[q].rec = persister[q].rec
  PROVE  OneWriter'
BY DEF IInv, OneWriter, Writing

LEMMA NoNewClaim ==
  ASSUME IInv, \A q \in Processes : Claiming(q)' =>
                 Claiming(q) /\ LeasesOf(q)' \subseteq LeasesOf(q)
  PROVE  OneClaimer'
<1>1. OneClaimer
  BY DEF IInv
<1> SUFFICES ASSUME NEW p \in Processes, NEW q \in Processes, NEW m \in LeasesOf(p)',
                    NEW n \in LeasesOf(q)', Claiming(p)', Claiming(q)', m.rec = n.rec,
                    m.version = n.version
             PROVE  p = q
  BY DEF OneClaimer
<1>2. m \in LeasesOf(p) /\ n \in LeasesOf(q) /\ Claiming(p) /\ Claiming(q)
  OBVIOUS
<1> QED
  BY <1>1, <1>2 DEF OneClaimer

\* No temporary file appears, and one whose writer ends is gone, or counted as abandoned.
LEMMA NoneAbandoned ==
  ASSUME IInv, mishaps.abandoned \subseteq mishaps'.abandoned,
         \A r \in Records : file'[r].kind = "tmp" => file[r].kind = "tmp",
         \A q \in Processes : Writing(q) =>
           \/ persister'[q].pc # "idle" /\ persister'[q].rec = persister[q].rec
           \/ file'[persister[q].rec].kind # "tmp"
           \/ persister[q].rec \in mishaps'.abandoned
  PROVE  NoAbandonedTemporary'
BY DEF IInv, NoAbandonedTemporary, Writing

\* The failed calls may be one more; nothing is abandoned.
KeepsMishaps == mishaps' \in Mishaps /\ mishaps'.abandoned = mishaps.abandoned

\* A failed call, or a crash, is counted.
LEMMA FaultCounts ==
  ASSUME Types, NEW S \in SUBSET Records, Fault(S)
  PROVE  /\ mishaps' \in Mishaps /\ mishaps' # mishaps
         /\ mishaps'.abandoned = mishaps.abandoned \cup S
<1> DEFINE m == mishaps
           n == m.faults + 1
           A == m.abandoned \cup S
           a == [m EXCEPT !.faults = n]
           x == [a EXCEPT !.abandoned = A]
<1>1. m \in Mishaps /\ n \in Nat /\ n # m.faults /\ A \in SUBSET Records
  BY DEF Types, Mishaps
<1>2. mishaps' = [m EXCEPT !.faults = n, !.abandoned = A]
  BY DEF Fault
<1> HIDE DEF m, n, A
<1>3. a \in Mishaps /\ a.faults = n
  BY <1>1 DEF Mishaps
<1>4. x \in Mishaps /\ x.faults = n /\ x.abandoned = A
  <2> HIDE DEF a
  <2> QED
    BY <1>1, <1>3 DEF Mishaps
<1>5. mishaps' = x
  BY <1>1, <1>2 DEF Mishaps
<1> QED
  BY <1>1, <1>4, <1>5 DEF m, A

LEMMA CrashCounts ==
  ASSUME Types, NEW S \in SUBSET Records, mishaps' = [mishaps EXCEPT !.crashes = @ + 1, !.abandoned = @ \cup S]
  PROVE  /\ mishaps' \in Mishaps /\ mishaps' # mishaps
         /\ mishaps'.abandoned = mishaps.abandoned \cup S
<1> DEFINE m == mishaps
           n == m.crashes + 1
           A == m.abandoned \cup S
           a == [m EXCEPT !.crashes = n]
           x == [a EXCEPT !.abandoned = A]
<1>1. m \in Mishaps /\ n \in Nat /\ n # m.crashes /\ A \in SUBSET Records
  BY DEF Types, Mishaps
<1>2. mishaps' = [m EXCEPT !.crashes = n, !.abandoned = A]
  BY DEF m
<1> HIDE DEF m, n, A
<1>3. a \in Mishaps /\ a.crashes = n
  BY <1>1 DEF Mishaps
<1>4. x \in Mishaps /\ x.crashes = n /\ x.abandoned = A
  <2> HIDE DEF a
  <2> QED
    BY <1>1, <1>3 DEF Mishaps
<1>5. mishaps' = x
  BY <1>1, <1>2 DEF Mishaps
<1> QED
  BY <1>1, <1>4, <1>5 DEF m, A

LEMMA SameMishaps ==
  ASSUME Types, mishaps' = mishaps \/ Fault({})
  PROVE  KeepsMishaps
<1>1. CASE mishaps' = mishaps
  BY <1>1 DEF KeepsMishaps, Types
<1>2. CASE Fault({})
  <2>1. {} \in SUBSET Records
    OBVIOUS
  <2> QED
    BY <1>2, <2>1, FaultCounts DEF KeepsMishaps
<1> QED
  BY <1>1, <1>2

\* What an unlink does to the files.
LEMMA UnlinkFiles ==
  ASSUME Types, NEW n, n.rec \in Records, file' = Unlinked(n)
  PROVE  /\ file' \in [Records -> File]
         /\ \A r \in Records : file'[r] = file[r] \/ (file'[r].kind = "none" /\ r = n.rec)
         /\ Exists(n) => file'[n.rec] = NoFile
<1>1. NoFile \in File
  BY StoreAssumption DEF NoFile, File, Kinds, Versions
<1>2. file \in [Records -> File]
  BY DEF Types
<1> QED
  BY <1>1, <1>2 DEF Unlinked, NoFile

\* What a rename does to the files.
LEMMA RenameFiles ==
  ASSUME IInv, NEW r \in Records, NEW kind \in Kinds, file' = RenamedTo(r, kind)
  PROVE  /\ file' \in [Records -> File]
         /\ \A s \in Records : s # r => file'[s] = file[s]
         /\ file'[r] = [kind |-> kind, version |-> NewVersion(r)]
         /\ NewVersion(r) \in Versions
         /\ file'[r] # file[r]
         /\ NewVersion(r) \notin Remembered(r)
<1>1. NewVersion(r) \in Versions \ (Remembered(r) \cup {file[r].version})
  BY FreshVersion DEF IInv, PersisterOK, ClaimerOK
<1>2. file \in [Records -> File]
  BY DEF IInv, Types
<1>3. [kind |-> kind, version |-> NewVersion(r)] \in File
  BY <1>1 DEF File
<1>4. file' = [file EXCEPT ![r] = [kind |-> kind, version |-> NewVersion(r)]]
  BY DEF RenamedTo
<1>5. file' \in [Records -> File]
  BY <1>2, <1>3, <1>4
<1>6. \A s \in Records : s # r => file'[s] = file[s]
  BY <1>2, <1>4
<1>7. file'[r] = [kind |-> kind, version |-> NewVersion(r)]
  BY <1>2, <1>4
<1> QED
  BY <1>1, <1>5, <1>6, <1>7

\* A disturbed persist goes on as before.
LEMMA DisturbKeeps ==
  ASSUME Types, Disturb
  PROVE  /\ persister' \in [Processes -> Persister]
         /\ \A q \in Processes : KeptPersister(q) /\ (Writing(q) => persister'[q].moved)
<1>1. ASSUME NEW q \in Processes
      PROVE  /\ persister'[q] \in Persister
             /\ KeptPersister(q) /\ (Writing(q) => persister'[q].moved)
  <2>1. persister[q] \in Persister
    BY DEF Types
  <2>2. PICK m \in BOOLEAN : /\ persister'[q] = [persister[q] EXCEPT !.moved = m]
                             /\ m = (persister[q].moved \/ persister[q].pc # "idle")
    BY <2>1 DEF Disturb, Persister
  <2> QED
    BY <2>1, <2>2 DEF Persister, KeptPersister, Writing
<1>2. DOMAIN persister' = Processes /\ persister' = [q \in Processes |-> persister'[q]]
  BY DEF Disturb
<1> QED
  BY <1>1, <1>2

\* A claimer's rename of a lease or a pending file leaves the persisters' facts alone.
LEMMA RenameStep ==
  ASSUME IInv, NEW r \in Records, NEW kind \in {"lease", "pending", "quarantine"},
         file[r].kind \notin {"none", "tmp"}, file' = RenamedTo(r, kind), Disturb,
         stale \ {r} \subseteq stale', KeepsMishaps
  PROVE  /\ file' \in [Records -> File] /\ persister' \in [Processes -> Persister]
         /\ FileStep({}) /\ \A q \in Processes : KeptPersister(q)
         /\ OneWriter' /\ NoAbandonedTemporary'
<1>1. /\ file' \in [Records -> File]
      /\ \A s \in Records : s # r => file'[s] = file[s]
      /\ file'[r] = [kind |-> kind, version |-> NewVersion(r)]
      /\ file'[r] # file[r]
      /\ NewVersion(r) \notin Remembered(r)
  <2>1. kind \in Kinds
    BY DEF Kinds
  <2> QED
    BY <2>1, RenameFiles
<1>2. /\ persister' \in [Processes -> Persister]
      /\ \A q \in Processes : KeptPersister(q) /\ (Writing(q) => persister'[q].moved)
  BY DisturbKeeps DEF IInv
<1>3. \A q \in Processes : Writing(q) /\ persister[q].rec = r => persister[q].pc = "fail"
  <2>1. SUFFICES ASSUME NEW q \in Processes, Writing(q), persister[q].rec = r
                 PROVE  persister[q].pc = "fail"
    OBVIOUS
  <2>2. OwnFile(q)
    BY <2>1 DEF IInv, PersisterOK
  <2> QED
    BY <2>1, <2>2 DEF OwnFile, Exists, Temporary
<1>4. FileStep({})
  BY <1>1, <1>2, <1>3 DEF FileStep
<1>5. OneWriter'
  BY <1>2, NoNewWriter DEF KeptPersister, Writing
<1>6. NoAbandonedTemporary'
  BY <1>1, <1>2, NoneAbandoned DEF KeptPersister, Writing, KeepsMishaps
<1> QED
  BY <1>1, <1>2, <1>4, <1>5, <1>6

-----------------------------------------------------------------------------
(* Steps of persist *)

\* A listing names files of different records, each under the path it has.
LEMMA ListedNames ==
  ASSUME Types, NEW kinds
  PROVE  /\ Listed(kinds) \subseteq Name /\ OneEach(Listed(kinds))
         /\ \A n \in Listed(kinds) : Exists(n) /\ n.kind \in kinds
         /\ \A r \in Stored : file[r].kind \in kinds =>
              \E n \in Listed(kinds) : n.rec = r /\ Exists(n)
<1>1. ASSUME NEW r \in Stored
      PROVE  /\ NameOf(r) \in Name /\ NameOf(r).rec = r /\ Exists(NameOf(r))
             /\ NameOf(r).kind = file[r].kind
  <2>1. r \in Records /\ file[r] \in File /\ file[r].kind # "none"
    BY DEF Stored, Types
  <2> QED
    BY <2>1 DEF NameOf, Name, Exists, File
<1>2. Listed(kinds) = {NameOf(r) : r \in {x \in Stored : file[x].kind \in kinds}}
  BY DEF Listed
<1>3. \A n \in Listed(kinds) : \E r \in Stored : n = NameOf(r) /\ file[r].kind \in kinds
  BY <1>2
<1>4. \A r \in Stored : file[r].kind \in kinds => NameOf(r) \in Listed(kinds)
  BY <1>2
<1>5. OneEach(Listed(kinds))
  BY <1>1, <1>3 DEF OneEach
<1> QED
  BY <1>1, <1>3, <1>4, <1>5

\* What a step that changes only p's lane does to the others.
LEMMA OwnStep ==
  ASSUME Types, NEW p \in Processes, NEW x \in Persister,
         persister' = [persister EXCEPT ![p] = x]
  PROVE  /\ persister' \in [Processes -> Persister] /\ persister'[p] = x
         /\ \A q \in Processes \ {p} : persister'[q] = persister[q] /\ KeptPersister(q)
<1>1. persister \in [Processes -> Persister]
  BY DEF Types
<1>2. persister' \in [Processes -> Persister] /\ persister'[p] = x
         /\ \A q \in Processes \ {p} : persister'[q] = persister[q]
  BY <1>1
<1> QED
  BY <1>2 DEF KeptPersister

\* x is p's lane where pruning stands: a file to remove next, no room yet, or room.
Pruned(x, p, round, names, used) ==
  /\ x.rec = persister[p].rec /\ x.incoming = persister[p].incoming
  /\ x.own = persister[p].own /\ x.moved = persister[p].moved
  /\ \/ /\ x.names = names /\ x.used = used /\ x.round = round
        /\ \/ x.pc = "expire" /\ Expired(names) # {}
           \/ x.pc = "evict" /\ CanEvict(names) # {}
     \/ x.pc \in {"list", "fail"} /\ x.names = {} /\ (x.pc = "list" => x.round # 0)
     \/ x.pc = Room(p) /\ x.names = {} /\ used + persister[p].incoming <= MaxBytes

LEMMA PruneOutcome ==
  ASSUME Types, NEW p \in Processes, NEW names \in SUBSET Name, NEW used \in Nat,
         NEW round \in 1 .. 3
  PROVE  LET x == Pruning(p, round, names, used) IN
         x \in Persister /\ Pruned(x, p, round, names, used)
<1> DEFINE y == persister[p]
           at(pc) == [y EXCEPT !.pc = pc, !.round = round, !.names = names, !.used = used]
           on(pc, r) == [y EXCEPT !.pc = pc, !.round = r, !.names = {}, !.used = 0]
           fits == used + y.incoming <= MaxBytes
<1>1. y \in Persister
  BY DEF Types
<1>2. ASSUME NEW pc \in {"expire", "evict"}
      PROVE  /\ at(pc) \in Persister
             /\ at(pc).pc = pc /\ at(pc).names = names /\ at(pc).used = used
             /\ at(pc).round = round /\ at(pc).rec = y.rec /\ at(pc).incoming = y.incoming
             /\ at(pc).own = y.own /\ at(pc).moved = y.moved
  <2>1. round \in 0 .. 3
    OBVIOUS
  <2>2. at(pc) \in Persister
    BY <1>1, <2>1 DEF Persister
  <2> QED
    BY <1>1, <2>2 DEF Persister
<1>3. ASSUME NEW pc \in {"list", "fail", "write", "publish"}, NEW r \in 0 .. 3
      PROVE  /\ on(pc, r) \in Persister
             /\ on(pc, r).pc = pc /\ on(pc, r).names = {} /\ on(pc, r).round = r
             /\ on(pc, r).rec = y.rec /\ on(pc, r).incoming = y.incoming
             /\ on(pc, r).own = y.own /\ on(pc, r).moved = y.moved
  BY <1>1 DEF Persister
<1>4. Pruning(p, round, names, used) =
        CASE round = 1 /\ Expired(names) # {}          -> at("expire")
          [] round = 1 /\ Expired(names) = {} /\ ~fits -> on("list", 2)
          [] round = 2 /\ ~fits /\ CanEvict(names) # {} -> at("evict")
          [] round = 2 /\ ~fits /\ CanEvict(names) = {} -> on("list", 3)
          [] round = 3 /\ ~fits                        -> on("fail", 0)
          [] OTHER                                     -> on(Room(p), 1)
  BY DEF Pruning
<1>5. Room(p) \in {"write", "publish"}
  BY DEF Room
<1> DEFINE x == Pruning(p, round, names, used)
<1>6. \/ x = at("expire") /\ Expired(names) # {}
      \/ x = at("evict") /\ CanEvict(names) # {}
      \/ x = on("list", 2) \/ x = on("list", 3) \/ x = on("fail", 0)
      \/ x = on(Room(p), 1) /\ fits
  <2> HIDE DEF at, on, fits
  <2> QED
    BY <1>4
<1> HIDE DEF at, on, x, y
<1> SUFFICES
      /\ x \in Persister
      /\ x.rec = y.rec /\ x.incoming = y.incoming /\ x.own = y.own /\ x.moved = y.moved
      /\ \/ /\ x.names = names /\ x.used = used /\ x.round = round
            /\ \/ x.pc = "expire" /\ Expired(names) # {}
               \/ x.pc = "evict" /\ CanEvict(names) # {}
         \/ x.pc \in {"list", "fail"} /\ x.names = {} /\ (x.pc = "list" => x.round # 0)
         \/ x.pc = Room(p) /\ x.names = {} /\ fits
  BY DEF x, y, Pruned
<1>7. CASE x = at("expire") /\ Expired(names) # {}
  BY <1>2, <1>7
<1>8. CASE x = at("evict") /\ CanEvict(names) # {}
  BY <1>2, <1>8
<1>9. CASE x = on("list", 2) \/ x = on("list", 3) \/ x = on("fail", 0)
  BY <1>3, <1>9
<1>10. CASE x = on(Room(p), 1) /\ fits
  <2> HIDE DEF fits
  <2> QED
    BY <1>3, <1>5, <1>10
<1> QED
  BY <1>6, <1>7, <1>8, <1>9, <1>10

\* A file goes, or stays; nothing else.
LEMMA FilesGo ==
  ASSUME Types, NEW P, \A r \in Records : file'[r] = file[r] \/ file'[r].kind = "none",
         stale' = stale
  PROVE  FileStep(P)
BY DEF FileStep

\* p takes a step of pruning, which leaves it the given names.
LEMMA PruneStep ==
  ASSUME IInv, NEW p \in Processes, persister[p].pc \in {"stat", "expire", "evict"},
         NEW names \in SUBSET persister[p].names,
         persister' = [persister EXCEPT
                         ![p] = Pruning(p, persister[p].round, names, SumBytes(names))],
         file' \in [Records -> File],
         \A r \in Records : file'[r] = file[r] \/ file'[r].kind = "none",
         \A r \in Stored' : Covered(p) => \E n \in names : n.rec = r /\ Exists(n)',
         UNCHANGED <<old, stale, bad, claimer, mishaps, offered, scenario>>
  PROVE  IInv'
<1> DEFINE y == persister[p]
           used == SumBytes(names)
<1>1. y \in Persister /\ PersisterOK(p) /\ Current(p) /\ Writing(p)
  BY DEF IInv, Types, Writing
<1>2. names \in SUBSET Name /\ OneEach(names) /\ used \in Nat /\ y.round \in 1 .. 3
  <2>1. names \in SUBSET Name /\ OneEach(names)
    BY <1>1 DEF Persister, PersisterOK, OneEach
  <2>2. y.round \in 1 .. 3
    BY <1>1 DEF Persister, PersisterOK
  <2> QED
    BY <2>1, <2>2, BytesOfNames
<1> DEFINE x == Pruning(p, y.round, names, used)
<1>3. x \in Persister /\ Pruned(x, p, y.round, names, used)
  <2>1. Types
    BY DEF IInv
  <2> HIDE DEF used
  <2> QED
    BY <1>2, <2>1, PruneOutcome
<1>4. /\ persister' \in [Processes -> Persister] /\ persister'[p] = x
      /\ \A q \in Processes \ {p} : persister'[q] = persister[q] /\ KeptPersister(q)
  <2>1. Types /\ persister' = [persister EXCEPT ![p] = x]
    BY DEF IInv
  <2> HIDE DEF x
  <2> QED
    BY <1>3, <2>1, OwnStep
<1> HIDE DEF x
<1> USE DEF Pruned
<1>5. Types'
  BY <1>4 DEF IInv, Types
<1>6. FileStep({p})
  BY FilesGo DEF IInv
<1>7. x.pc # "idle" /\ (x.pc = Room(p) => x.pc \in {"write", "publish"})
  BY <1>3 DEF Room
<1>8. PersisterOK(p)'
  <2>1. OneEach(x.names)
    BY <1>2, <1>3 DEF OneEach
  <2>2. x.rec \in offered'
    BY <1>1, <1>3 DEF PersisterOK
  <2>3. OwnFile(p)'
    <3>1. OwnFile(p) /\ y.rec \in Records
      BY <1>1 DEF PersisterOK, IInv, Types
    <3>2. file'[y.rec] = file[y.rec] \/ file'[y.rec].kind = "none"
      BY <3>1
    <3> QED
      BY <1>3, <1>4, <3>1, <3>2 DEF OwnFile, Exists, Temporary
  <2>4. /\ x.pc = "write" => x.incoming > 0
        /\ x.pc = "publish" => x.incoming = 0
    BY <1>1, <1>3 DEF Room, Persister
  <2>5. x.pc \in {"list", "stat", "expire", "evict"} => x.round # 0
    BY <1>2, <1>3, <1>7
  <2>6. /\ x.pc = "expire" => Expired(x.names) # {}
        /\ x.pc = "evict" => CanEvict(x.names) # {}
        /\ x.pc \in {"expire", "evict"} => x.used = SumBytes(x.names)
    BY <1>3, <1>7
  <2> QED
    BY <1>4, <2>1, <2>2, <2>3, <2>4, <2>5, <2>6 DEF PersisterOK, Writing
<1>9. Current(p)'
  <2>1. SUFFICES ASSUME ~x.moved, x.pc \in {"stat", "expire", "evict", "publish"}
                 PROVE  Current(p)'
    BY <1>4 DEF Current
  <2>2. Covered(p)
    BY <1>1, <1>3, <2>1 DEF Current
  <2>3. \A r \in Stored' : \E n \in names : n.rec = r /\ Exists(n)'
    BY <2>2
  <2>4. x.pc # "publish" => Covered(p)'
    BY <1>3, <1>4, <1>7, <2>1, <2>3 DEF Covered
  <2>5. ASSUME x.pc = "publish" PROVE TotalBytes' <= MaxBytes
    <3>1. used + y.incoming <= MaxBytes
      BY <1>3, <2>5
    <3>2. Stored' \in SUBSET RecsOf(names) /\ RecsOf(names) \in SUBSET Records
      BY <1>2, <2>3 DEF RecsOf, Name
    <3>3. BytesOf(Stored') <= BytesOf(RecsOf(names))
      BY <3>2, BytesMonotone
    <3>4. Stored' \in SUBSET Records
      BY <3>2
    <3>5. BytesOf(Stored') \in Nat
      BY <3>4, BytesNat
    <3>6. TotalBytes' = BytesOf(Stored')
      BY DEF TotalBytes
    <3>7. used = BytesOf(RecsOf(names))
      BY DEF SumBytes, RecsOf
    <3>8. MaxBytes \in Nat /\ y.incoming \in Nat
      BY <1>1, StoreAssumption DEF Persister
    <3> HIDE DEF used
    <3> QED
      BY <1>2, <3>1, <3>3, <3>5, <3>6, <3>7, <3>8
  <2> QED
    BY <1>4, <2>4, <2>5 DEF Current
<1>10. OneWriter'
  BY <1>1, <1>3, <1>4, NoNewWriter DEF Writing
<1>11. NoAbandonedTemporary'
  BY <1>3, <1>4, <1>7, NoneAbandoned DEF Writing
<1> QED
  BY <1>4, <1>5, <1>6, <1>8, <1>9, <1>10, <1>11, PersisterStep

LEMMA StatFilesKeeps ==
  ASSUME IInv, NEW p \in Processes, StatFiles(p)
  PROVE  IInv'
<1> DEFINE seen == {n \in persister[p].names : Exists(n)}
<1>1. seen \in SUBSET persister[p].names
  OBVIOUS
<1>2. persister' = [persister EXCEPT
                      ![p] = Pruning(p, persister[p].round, seen, SumBytes(seen))]
  BY DEF StatFiles
<1>3. \A r \in Stored' : Covered(p) => \E n \in seen : n.rec = r /\ Exists(n)'
  BY DEF Covered, StatFiles, Stored, Exists
<1>4. /\ file' = file /\ persister[p].pc \in {"stat", "expire", "evict"}
      /\ UNCHANGED <<old, stale, bad, claimer, mishaps, offered, scenario>>
  BY DEF StatFiles
<1>5. file' \in [Records -> File]
  BY <1>4 DEF IInv, Types
<1> HIDE DEF seen
<1> QED
  BY <1>1, <1>2, <1>3, <1>4, <1>5, PruneStep

LEMMA UnlinkNextKeeps ==
  ASSUME IInv, NEW p \in Processes, persister[p].pc \in {"expire", "evict"},
         NEW n \in persister[p].names, UnlinkNext(p, n)
  PROVE  IInv'
<1> DEFINE left == persister[p].names \ {n}
<1>1. /\ persister[p] \in Persister /\ OneEach(persister[p].names)
      /\ persister[p].used = SumBytes(persister[p].names)
  BY DEF IInv, Types, PersisterOK
<1>2. n.rec \in Records /\ persister[p].names \in SUBSET Name
  BY <1>1 DEF Persister, Name
<1>3. persister[p].used - Size[n.rec] = SumBytes(left)
  BY <1>1, <1>2, BytesOfNames
<1>4. left \in SUBSET persister[p].names
  OBVIOUS
<1>5. persister' = [persister EXCEPT
                      ![p] = Pruning(p, persister[p].round, left, SumBytes(left))]
  BY <1>3 DEF UnlinkNext
<1>6. /\ file' \in [Records -> File]
      /\ \A r \in Records : file'[r] = file[r] \/ (file'[r].kind = "none" /\ r = n.rec)
      /\ Exists(n) => file'[n.rec] = NoFile
  BY <1>2, UnlinkFiles DEF UnlinkNext, IInv
<1>7. \A r \in Stored' : Covered(p) => \E m \in left : m.rec = r /\ Exists(m)'
  <2>1. SUFFICES ASSUME NEW r \in Stored', Covered(p)
                 PROVE  \E m \in left : m.rec = r /\ Exists(m)'
    OBVIOUS
  <2>2. r \in Records /\ file'[r].kind # "none"
    BY DEF Stored
  <2>3. file'[r] = file[r] /\ r \in Stored
    BY <1>6, <2>2 DEF Stored
  <2>4. PICK m \in persister[p].names : m.rec = r /\ Exists(m)
    BY <2>1, <2>3 DEF Covered
  <2>5. m # n
    BY <1>6, <2>2, <2>4 DEF NoFile
  <2> QED
    BY <2>3, <2>4, <2>5 DEF Exists
<1>8. UNCHANGED <<old, stale, bad, claimer, mishaps, offered, scenario>>
  BY DEF UnlinkNext
<1> HIDE DEF left
<1> QED
  BY <1>4, <1>5, <1>6, <1>7, <1>8, PruneStep

LEMMA ExpireFileKeeps ==
  ASSUME IInv, NEW p \in Processes, ExpireFile(p)
  PROVE  IInv'
<1>1. Expired(persister[p].names) \in SUBSET Name /\ Expired(persister[p].names) # {}
  BY DEF IInv, Types, Persister, PersisterOK, ExpireFile, Expired
<1>2. Oldest(Expired(persister[p].names)) \in persister[p].names
  BY <1>1, OldestIsOne DEF Expired
<1> QED
  BY <1>2, UnlinkNextKeeps DEF ExpireFile

LEMMA EvictFileKeeps ==
  ASSUME IInv, NEW p \in Processes, EvictFile(p)
  PROVE  IInv'
<1>1. CanEvict(persister[p].names) \in SUBSET Name /\ CanEvict(persister[p].names) # {}
  BY DEF IInv, Types, Persister, PersisterOK, EvictFile, CanEvict
<1>2. Oldest(CanEvict(persister[p].names)) \in persister[p].names
  BY <1>1, OldestIsOne DEF CanEvict
<1> QED
  BY <1>2, UnlinkNextKeeps DEF EvictFile

LEMMA PrunerLane ==
  ASSUME NEW r \in Records, NEW incoming \in Nat, NEW own \in Versions, NEW moved \in BOOLEAN
  PROVE  LET x == Pruner(r, incoming, own, moved)
         IN  /\ x \in Persister
             /\ x.pc = "list" /\ x.rec = r /\ x.round = 1 /\ x.incoming = incoming
             /\ x.own = own /\ x.names = {}
BY DEF Pruner, Persister

LEMMA StartPersistKeeps ==
  ASSUME IInv, NEW p \in Processes, NEW r \in Records, StartPersist(p, r)
  PROVE  IInv'
<1>1. /\ UNCHANGED <<file, old, stale, bad, claimer, mishaps, scenario>>
      /\ offered' = offered \cup {r} /\ r \in scenario.new \ offered
      /\ persister[p].pc = "idle" /\ Types
  BY DEF StartPersist, IInv
<1>2. \A r1 \in Records : file'[r1] = file[r1]
  BY <1>1
<1>3. \A P : FileStep(P)
  BY <1>1, <1>2, FilesGo
<1>4. CASE persister' = persister
  <2>1. \A q \in Processes : KeptPersister(q)
    BY <1>4 DEF KeptPersister
  <2>2. Types'
    BY <1>1, <1>4 DEF Types
  <2>3. PersisterOK(p)' /\ Current(p)'
    <3>1. {} \in SUBSET Processes /\ p \in Processes \ {} /\ offered \subseteq offered'
      BY <1>1
    <3> QED
      BY <1>3, <2>1, <2>2, <3>1, OtherPersisters
  <2>4. OneWriter' /\ NoAbandonedTemporary'
    BY <1>1, <1>4 DEF IInv, OneWriter, NoAbandonedTemporary, Writing
  <2> QED
    BY <1>1, <1>3, <2>1, <2>2, <2>3, <2>4, PersisterStep
<1>5. CASE persister' # persister
  <2> DEFINE x == Pruner(r, Size[r], 0, FALSE)
  <2>1. persister' = [persister EXCEPT ![p] = x]
    BY <1>5 DEF StartPersist
  <2>2. /\ x \in Persister
        /\ x.pc = "list" /\ x.rec = r /\ x.round = 1 /\ x.incoming = Size[r] /\ x.names = {}
    <3>1. Size[r] \in Nat /\ 0 \in Versions
      BY StoreAssumption DEF Versions
    <3> QED
        BY <3>1 DEF Pruner, Persister
  <2> HIDE DEF x
  <2>3. /\ persister' \in [Processes -> Persister] /\ persister'[p] = x
        /\ \A q \in Processes \ {p} : persister'[q] = persister[q] /\ KeptPersister(q)
    BY <1>1, <2>1, <2>2, OwnStep
  <2>4. Types'
    BY <1>1, <2>3 DEF Types
  <2>5. file[r].kind = "none"
    BY <1>1 DEF IInv, Unoffered
  <2>6. PersisterOK(p)' /\ Current(p)'
    BY <1>1, <2>2, <2>3, <2>5 DEF PersisterOK, Current, OneEach, Writing, OwnFile
  <2>7. OneWriter'
    <3>1. \A q \in Processes : Writing(q) => persister[q].rec # r
      BY <1>1 DEF IInv, PersisterOK
    <3>2. SUFFICES ASSUME NEW q \in Processes, NEW q1 \in Processes, Writing(q)', Writing(q1)',
                          persister'[q].rec = persister'[q1].rec
                   PROVE  q = q1
      BY DEF OneWriter
    <3>3. \A q2 \in Processes \ {p} : Writing(q2)' => persister'[q2].rec # r
      BY <2>3, <3>1 DEF Writing
    <3> QED
      BY <2>2, <2>3, <3>2, <3>3 DEF IInv, OneWriter, Writing
  <2>8. NoAbandonedTemporary'
    BY <1>1, <2>3, NoneAbandoned DEF Writing
  <2> QED
    BY <1>1, <1>3, <2>3, <2>4, <2>6, <2>7, <2>8, PersisterStep
<1> QED
  BY <1>4, <1>5

LEMMA ListFilesKeeps ==
  ASSUME IInv, NEW p \in Processes, ListFiles(p)
  PROVE  IInv'
<1> DEFINE y == persister[p]
           a == [y EXCEPT !.names = Listed(Kinds)]
           x == [a EXCEPT !.pc = "stat"]
<1>1. /\ UNCHANGED <<file, old, stale, bad, claimer, mishaps, offered, scenario>>
      /\ y.pc = "list" /\ Types /\ y \in Persister /\ PersisterOK(p)
  BY DEF ListFiles, IInv, Types
<1>2. persister' = [persister EXCEPT ![p] = x]
  BY <1>1 DEF ListFiles, Types
<1>3. /\ Listed(Kinds) \subseteq Name /\ OneEach(Listed(Kinds))
      /\ \A r \in Stored : \E n \in Listed(Kinds) : n.rec = r /\ Exists(n)
  <2>1. \A r \in Stored : file[r].kind \in Kinds
    BY <1>1 DEF Types, Stored, File
  <2> QED
    BY <1>1, <2>1, ListedNames
<1>4. /\ x \in Persister
      /\ x.pc = "stat" /\ x.names = Listed(Kinds) /\ x.rec = y.rec /\ x.round = y.round
      /\ x.incoming = y.incoming /\ x.own = y.own
  <2>1. /\ a \in Persister
        /\ a.pc = y.pc /\ a.names = Listed(Kinds) /\ a.rec = y.rec /\ a.round = y.round
        /\ a.incoming = y.incoming /\ a.own = y.own
    BY <1>1, <1>3 DEF Persister
  <2> HIDE DEF a
  <2> QED
    BY <2>1 DEF Persister
<1> HIDE DEF x
<1>5. /\ persister' \in [Processes -> Persister] /\ persister'[p] = x
      /\ \A q \in Processes \ {p} : persister'[q] = persister[q] /\ KeptPersister(q)
  BY <1>1, <1>2, <1>4, OwnStep
<1>6. Types'
  BY <1>1, <1>5 DEF Types
<1>7. FileStep({p})
  BY <1>1, FilesGo
<1>8. PersisterOK(p)'
  <2>1. y.rec \in offered /\ OwnFile(p)
    BY <1>1 DEF PersisterOK, Writing
  <2>2. OwnFile(p)'
    BY <1>1, <1>4, <1>5, <2>1 DEF OwnFile, Exists, Temporary
  <2> QED
    BY <1>1, <1>3, <1>4, <1>5, <2>1, <2>2 DEF PersisterOK, Writing
<1>9. Current(p)'
  <2>1. Covered(p)'
    BY <1>1, <1>3, <1>4, <1>5 DEF Covered, Stored, Exists
  <2> QED
    BY <1>4, <1>5, <2>1 DEF Current
<1>10. OneWriter'
  BY <1>1, <1>4, <1>5, NoNewWriter DEF Writing
<1>11. NoAbandonedTemporary'
  BY <1>1, <1>4, <1>5, NoneAbandoned DEF Writing
<1> QED
  BY <1>1, <1>5, <1>6, <1>7, <1>8, <1>9, <1>10, <1>11, PersisterStep

\* The others, when p renames the file it works at.
LEMMA OthersMoved ==
  ASSUME Types, NEW p \in Processes, NEW x \in Persister,
         persister' = [q \in Processes |-> persister'[q]], persister'[p] = x,
         \A q \in Processes \ {p} :
           persister'[q] = [persister[q] EXCEPT !.moved = persister[q].pc # "idle"]
  PROVE  /\ persister' \in [Processes -> Persister] /\ persister'[p] = x
         /\ \A q \in Processes \ {p} : KeptPersister(q) /\ (Writing(q) => persister'[q].moved)
<1>1. ASSUME NEW q \in Processes \ {p}
      PROVE  /\ persister'[q] \in Persister
             /\ KeptPersister(q) /\ (Writing(q) => persister'[q].moved)
  <2>1. persister[q] \in Persister
    BY DEF Types
  <2>2. PICK m \in BOOLEAN : /\ persister'[q] = [persister[q] EXCEPT !.moved = m]
                             /\ m = (persister[q].pc # "idle")
    OBVIOUS
  <2> QED
    BY <2>1, <2>2 DEF Persister, KeptPersister, Writing
<1> QED
  BY <1>1

\* p's lane, when one of its calls fails.
LEMMA FailingLane ==
  ASSUME Types, NEW p \in Processes
  PROVE  LET x == Failing(p)
             y == persister[p]
         IN  /\ x \in Persister /\ x.pc = "fail" /\ x.names = y.names /\ x.rec = y.rec
             /\ x.incoming = y.incoming /\ x.own = y.own
<1> DEFINE y == persister[p]
           a == [y EXCEPT !.pc = "fail"]
           x == [a EXCEPT !.round = 0]
<1>1. y \in Persister /\ Failing(p) = x
  BY DEF Types, Failing, Persister
<1>2. /\ a \in Persister
      /\ a.pc = "fail" /\ a.names = y.names /\ a.rec = y.rec
      /\ a.incoming = y.incoming /\ a.own = y.own
  BY <1>1 DEF Persister
<1>3. /\ x \in Persister /\ x.pc = "fail" /\ x.names = y.names /\ x.rec = y.rec
      /\ x.incoming = y.incoming /\ x.own = y.own
  <2> HIDE DEF a
  <2> QED
    BY <1>2 DEF Persister
<1> QED
  BY <1>1, <1>3

\* The temporary file is there; x is what p goes on with.
LEMMA WrittenKeeps ==
  ASSUME IInv, NEW p \in Processes, persister[p].pc = "write", NEW x \in Persister,
         x.pc \in {"list", "fail"}, x.pc = "list" => x.round # 0,
         x.rec = persister[p].rec, x.incoming = 0, x.own = NewVersion(persister[p].rec),
         OneEach(x.names),
         file' = RenamedTo(persister[p].rec, "tmp"), old' = old \ {persister[p].rec},
         persister' = [q \in Processes |-> persister'[q]], persister'[p] = x,
         \A q \in Processes \ {p} :
           persister'[q] = [persister[q] EXCEPT !.moved = persister[q].pc # "idle"],
         UNCHANGED <<stale, bad, claimer, offered, scenario>>, KeepsMishaps
  PROVE  IInv'
<1> DEFINE r == persister[p].rec
           v == NewVersion(r)
<1>1. Types /\ Writing(p) /\ persister[p] \in Persister /\ PersisterOK(p)
  BY DEF IInv, Types, Writing
<1>2. r \in Records /\ r \in offered
  BY <1>1 DEF PersisterOK, Types
<1>3. /\ file' \in [Records -> File]
      /\ \A s \in Records : s # r => file'[s] = file[s]
      /\ file'[r] = [kind |-> "tmp", version |-> v]
      /\ v \notin Remembered(r)
  <2>1. "tmp" \in Kinds
    BY DEF Kinds
  <2> HIDE DEF r
  <2> QED
    BY <1>1, <1>2, <2>1, RenameFiles DEF r
<1> HIDE DEF v
<1>4. x.rec = r /\ x.own = v
  BY DEF v
<1>5. /\ persister' \in [Processes -> Persister] /\ persister'[p] = x
      /\ \A q \in Processes \ {p} : KeptPersister(q) /\ (Writing(q) => persister'[q].moved)
  BY <1>1, OthersMoved
<1>6. Types'
  BY <1>1, <1>3, <1>5 DEF Types, KeepsMishaps
<1>7. \A q \in Processes \ {p} : Writing(q) => persister[q].rec # r
  BY <1>1 DEF IInv, OneWriter
<1>8. FileStep({p})
  BY <1>1, <1>2, <1>3, <1>5, <1>7 DEF FileStep
<1>9. PersisterOK(p)' /\ Current(p)'
  <2>1. OwnFile(p)'
    BY <1>3, <1>4, <1>5 DEF OwnFile, Exists, Temporary
  <2> QED
    BY <1>2, <1>4, <1>5, <2>1 DEF PersisterOK, Current, Writing
<1>10. OneWriter'
  BY <1>1, <1>4, <1>5, NoNewWriter DEF KeptPersister, Writing
<1>11. NoAbandonedTemporary'
  <2>1. SUFFICES ASSUME NEW s \in Records \ mishaps.abandoned, file'[s].kind = "tmp"
                 PROVE  \E q \in Processes : persister'[q].pc # "idle" /\ persister'[q].rec = s
    BY DEF NoAbandonedTemporary, KeepsMishaps
  <2>2. CASE s = r
    BY <1>4, <1>5, <2>2
  <2>3. CASE s # r
    <3>1. PICK q \in Processes : Writing(q) /\ persister[q].rec = s
      BY <1>3, <2>1, <2>3 DEF IInv, NoAbandonedTemporary, Writing
    <3>2. KeptPersister(q)
      BY <1>5, <2>3, <3>1
    <3> QED
      BY <3>1, <3>2 DEF KeptPersister, Writing
  <2> QED
    BY <2>2, <2>3
<1> QED
  BY <1>1, <1>5, <1>6, <1>8, <1>9, <1>10, <1>11, PersisterStep

LEMMA WriteTemporaryKeeps ==
  ASSUME IInv, NEW p \in Processes, WriteTemporary(p)
  PROVE  IInv'
<1> DEFINE r == persister[p].rec
           x == Pruner(r, 0, NewVersion(r), persister[p].moved)
<1>1. /\ UNCHANGED <<stale, bad, claimer, mishaps, offered, scenario>>
      /\ old' = old \ {r} /\ file' = RenamedTo(r, "tmp") /\ persister[p].pc = "write"
      /\ persister' = [q \in Processes |-> persister'[q]] /\ persister'[p] = x
      /\ \A q \in Processes \ {p} :
           persister'[q] = [persister[q] EXCEPT !.moved = persister[q].pc # "idle"]
  BY DEF WriteTemporary
<1>2. Types /\ persister[p] \in Persister /\ r \in Records
  BY <1>1 DEF IInv, Types, PersisterOK, Writing
<1>3. NewVersion(r) \in Versions
  BY <1>2, FreshVersion DEF IInv, PersisterOK, ClaimerOK
<1>4. /\ x \in Persister
      /\ x.pc = "list" /\ x.rec = r /\ x.round = 1 /\ x.incoming = 0 /\ x.own = NewVersion(r)
      /\ OneEach(x.names)
  <2>1. persister[p].moved \in BOOLEAN
    BY <1>2 DEF Persister
  <2> QED
    BY <1>2, <1>3, <2>1, PrunerLane DEF OneEach
<1>5. KeepsMishaps
  BY <1>1, <1>2, SameMishaps
<1> HIDE DEF x
<1>6. x.pc \in {"list", "fail"} /\ (x.pc = "list" => x.round # 0)
  BY <1>4
<1> QED
  BY <1>1, <1>4, <1>5, <1>6, WrittenKeeps

LEMMA WriteFailsKeeps ==
  ASSUME IInv, NEW p \in Processes, WriteFails(p)
  PROVE  IInv'
<1> DEFINE r == persister[p].rec
           f == Failing(p)
           a == [f EXCEPT !.own = NewVersion(r)]
           x == [a EXCEPT !.incoming = 0]
<1>1. Types /\ persister[p].pc = "write" /\ persister[p] \in Persister /\ PersisterOK(p)
        /\ r \in Records
  BY DEF WriteFails, IInv, Types, PersisterOK, Writing
<1>2. /\ f \in Persister /\ f.pc = "fail" /\ f.names = persister[p].names /\ f.rec = r
  BY <1>1, FailingLane
<1> HIDE DEF f
<1>3. NewVersion(r) \in Versions
  BY <1>1, FreshVersion DEF IInv, PersisterOK, ClaimerOK
<1>4. /\ x \in Persister /\ x.pc = "fail" /\ OneEach(x.names) /\ x.rec = r
      /\ x.incoming = 0 /\ x.own = NewVersion(r)
  <2>1. /\ a \in Persister /\ a.pc = "fail" /\ a.names = f.names /\ a.rec = r
        /\ a.own = NewVersion(r)
    BY <1>2, <1>3 DEF Persister
  <2> HIDE DEF a
  <2>2. /\ x \in Persister /\ x.pc = "fail" /\ x.names = f.names /\ x.rec = r
        /\ x.incoming = 0 /\ x.own = NewVersion(r)
    BY <2>1 DEF Persister
  <2> QED
    BY <1>1, <1>2, <2>2 DEF PersisterOK
<1>5. /\ UNCHANGED <<stale, bad, claimer, offered, scenario>> /\ Fault({})
      /\ old' = old \ {r} /\ file' = RenamedTo(r, "tmp")
      /\ persister' = [q \in Processes |-> persister'[q]]
      /\ \A q \in Processes \ {p} :
           persister'[q] = [persister[q] EXCEPT !.moved = persister[q].pc # "idle"]
  BY DEF WriteFails
<1>6. persister'[p] = [f EXCEPT !.own = NewVersion(r), !.incoming = 0]
  BY DEF WriteFails, f
<1>7. persister'[p] = x
  BY <1>2, <1>6 DEF Persister
<1>8. KeepsMishaps
  BY <1>1, <1>5, SameMishaps
<1> HIDE DEF x
<1>9. x.pc \in {"list", "fail"} /\ (x.pc = "list" => x.round # 0)
  BY <1>4
<1> QED
  BY <1>1, <1>4, <1>5, <1>7, <1>8, <1>9, WrittenKeeps

LEMMA IdleLaneOf == IdlePersister \in Persister /\ IdlePersister.pc = "idle"
                      /\ IdlePersister.names = {}
<1>1. 0 \in Versions
  BY StoreAssumption DEF Versions
<1> QED
  BY <1>1 DEF IdlePersister, Persister

\* The record is published; x is what p goes on with.
LEMMA PublishedKeeps ==
  ASSUME IInv, NEW p \in Processes, persister[p].pc = "publish", Exists(Temporary(p)),
         NEW x \in Persister, x.pc \in {"idle", "fail"},
         x.pc = "fail" => x.rec = persister[p].rec, OneEach(x.names),
         file' = RenamedTo(persister[p].rec, "pending"),
         persister' = [q \in Processes |-> persister'[q]], persister'[p] = x,
         \A q \in Processes \ {p} :
           persister'[q] = [persister[q] EXCEPT !.moved = persister[q].pc # "idle"],
         UNCHANGED <<old, stale, bad, claimer, offered, scenario>>, KeepsMishaps
  PROVE  IInv'
<1> DEFINE r == persister[p].rec
<1>1. Types /\ Writing(p) /\ persister[p] \in Persister /\ PersisterOK(p)
  BY DEF IInv, Types, Writing
<1>2. r \in Records /\ r \in offered
  BY <1>1 DEF PersisterOK, Types
<1>3. file[r].kind = "tmp"
  BY DEF Exists, Temporary
<1>4. /\ file' \in [Records -> File]
      /\ \A s \in Records : s # r => file'[s] = file[s]
      /\ file'[r] = [kind |-> "pending", version |-> NewVersion(r)]
      /\ NewVersion(r) \notin Remembered(r)
  <2>1. "pending" \in Kinds
    BY DEF Kinds
  <2> HIDE DEF r
  <2> QED
    BY <1>2, <2>1, RenameFiles DEF r
<1>5. /\ persister' \in [Processes -> Persister]
      /\ \A q \in Processes \ {p} : KeptPersister(q) /\ (Writing(q) => persister'[q].moved)
  BY <1>1, OthersMoved
<1>6. Types'
  BY <1>1, <1>4, <1>5 DEF Types, KeepsMishaps
<1>7. \A q \in Processes \ {p} : Writing(q) => persister[q].rec # r
  BY <1>1 DEF IInv, OneWriter
<1>8. FileStep({p})
  BY <1>1, <1>2, <1>4, <1>5, <1>7 DEF FileStep
<1>9. PersisterOK(p)' /\ Current(p)'
  <2>1. x.pc = "fail" => OwnFile(p)'
    BY <1>4 DEF OwnFile
  <2> QED
    BY <1>2, <1>5, <2>1 DEF PersisterOK, Current, Writing
<1>10. OneWriter'
  BY <1>1, <1>5, NoNewWriter DEF KeptPersister, Writing
<1>11. NoAbandonedTemporary'
  BY <1>1, <1>3, <1>4, <1>5, NoneAbandoned DEF KeptPersister, Writing, KeepsMishaps
<1> QED
  BY <1>1, <1>5, <1>6, <1>8, <1>9, <1>10, <1>11, PersisterStep

\* A step of p into the error path that leaves the files as they are.
LEMMA FailingKeeps ==
  ASSUME IInv, NEW p \in Processes, Writing(p), persister[p].pc # "fail",
         persister' = [persister EXCEPT ![p] = Failing(p)],
         UNCHANGED <<file, old, stale, bad, claimer, offered, scenario>>, KeepsMishaps
  PROVE  IInv'
<1> DEFINE x == Failing(p)
<1>1. Types /\ PersisterOK(p)
  BY DEF IInv
<1>2. /\ x \in Persister /\ x.pc = "fail" /\ x.names = persister[p].names
      /\ x.rec = persister[p].rec /\ x.incoming = persister[p].incoming
      /\ x.own = persister[p].own
  BY <1>1, FailingLane
<1> HIDE DEF x
<1>3. /\ persister' \in [Processes -> Persister] /\ persister'[p] = x
      /\ \A q \in Processes \ {p} : persister'[q] = persister[q] /\ KeptPersister(q)
  BY <1>1, <1>2, OwnStep DEF x
<1>4. Types'
  BY <1>1, <1>3 DEF Types, KeepsMishaps
<1>5. FileStep({p})
  BY <1>1, FilesGo
<1>6. PersisterOK(p)' /\ Current(p)'
  <2>1. OwnFile(p)'
    BY <1>1, <1>2, <1>3 DEF PersisterOK, OwnFile, Exists, Temporary
  <2> QED
    BY <1>1, <1>2, <1>3, <2>1 DEF PersisterOK, Current, Writing
<1>7. OneWriter'
  BY <1>2, <1>3, NoNewWriter DEF Writing
<1>8. NoAbandonedTemporary'
  BY <1>1, <1>2, <1>3, NoneAbandoned DEF Writing, KeepsMishaps
<1> QED
  BY <1>1, <1>3, <1>4, <1>5, <1>6, <1>7, <1>8, PersisterStep

LEMMA PublishKeeps ==
  ASSUME IInv, NEW p \in Processes, Publish(p)
  PROVE  IInv'
<1>1. /\ UNCHANGED <<old, stale, bad, claimer, mishaps, offered, scenario>>
      /\ persister[p].pc = "publish" /\ Types /\ Writing(p)
  BY DEF Publish, IInv, Writing
<1>2. KeepsMishaps
  BY <1>1, SameMishaps
<1>3. CASE Exists(Temporary(p))
  <2>1. /\ file' = RenamedTo(persister[p].rec, "pending")
        /\ persister' = [q \in Processes |-> persister'[q]] /\ persister'[p] = IdlePersister
        /\ \A q \in Processes \ {p} :
             persister'[q] = [persister[q] EXCEPT !.moved = persister[q].pc # "idle"]
    BY <1>3 DEF Publish
  <2>2. /\ IdlePersister \in Persister /\ IdlePersister.pc \in {"idle", "fail"}
        /\ IdlePersister.pc = "fail" => IdlePersister.rec = persister[p].rec
        /\ OneEach(IdlePersister.names)
    BY IdleLaneOf DEF OneEach
  <2> QED
    BY <1>1, <1>2, <1>3, <2>1, <2>2, PublishedKeeps
<1>4. CASE ~Exists(Temporary(p))
  <2>1. persister' = [persister EXCEPT ![p] = Failing(p)] /\ file' = file
    BY <1>4 DEF Publish
  <2> QED
    BY <1>1, <1>2, <2>1, FailingKeeps
<1> QED
  BY <1>3, <1>4

LEMMA PublishSyncFailsKeeps ==
  ASSUME IInv, NEW p \in Processes, PublishSyncFails(p)
  PROVE  IInv'
<1> DEFINE x == Failing(p)
<1>1. /\ Types /\ persister[p].pc = "publish" /\ Exists(Temporary(p)) /\ Fault({})
      /\ file' = RenamedTo(persister[p].rec, "pending")
      /\ persister' = [q \in Processes |-> persister'[q]] /\ persister'[p] = x
      /\ \A q \in Processes \ {p} :
           persister'[q] = [persister[q] EXCEPT !.moved = persister[q].pc # "idle"]
      /\ UNCHANGED <<old, stale, bad, claimer, offered, scenario>>
  BY DEF PublishSyncFails, IInv
<1>2. /\ x \in Persister /\ x.pc = "fail" /\ x.rec = persister[p].rec
      /\ x.names = persister[p].names
  BY <1>1, FailingLane
<1> HIDE DEF x
<1>3. OneEach(x.names) /\ KeepsMishaps /\ x.pc \in {"idle", "fail"}
  BY <1>1, <1>2, SameMishaps DEF IInv, PersisterOK
<1> QED
  BY <1>1, <1>2, <1>3, PublishedKeeps

LEMMA PersistFailsKeeps ==
  ASSUME IInv, NEW p \in Processes, PersistFails(p)
  PROVE  IInv'
<1>1. Types /\ Fault({}) /\ Writing(p) /\ persister[p].pc # "fail"
        /\ persister' = [persister EXCEPT ![p] = Failing(p)]
        /\ UNCHANGED <<file, old, stale, bad, claimer, offered, scenario>>
  BY DEF PersistFails, IInv, Writing
<1> QED
  BY <1>1, SameMishaps, FailingKeeps

\* The error path ends; what is left of the temporary file counts as abandoned.
LEMMA FailedKeeps ==
  ASSUME IInv, NEW p \in Processes, Writing(p),
         file' \in [Records -> File],
         \A s \in Records : file'[s] = file[s] \/ file'[s].kind = "none",
         file'[persister[p].rec].kind # "tmp" \/ persister[p].rec \in mishaps'.abandoned,
         persister' = [persister EXCEPT ![p] = IdlePersister],
         mishaps' \in Mishaps, mishaps.abandoned \subseteq mishaps'.abandoned,
         UNCHANGED <<old, stale, bad, claimer, offered, scenario>>
  PROVE  IInv'
<1>1. Types
  BY DEF IInv
<1>2. /\ persister' \in [Processes -> Persister] /\ persister'[p] = IdlePersister
      /\ \A q \in Processes \ {p} : persister'[q] = persister[q] /\ KeptPersister(q)
  BY <1>1, IdleLaneOf, OwnStep
<1>3. Types'
  BY <1>1, <1>2 DEF Types
<1>4. FileStep({p})
  BY <1>1, FilesGo
<1>5. PersisterOK(p)' /\ Current(p)'
  BY <1>2, IdleLaneOf DEF PersisterOK, Current, OneEach, Writing
<1>6. OneWriter'
  BY <1>2, IdleLaneOf, NoNewWriter DEF Writing
<1>7. NoAbandonedTemporary'
  <2>1. \A r \in Records : file'[r].kind = "tmp" => file[r].kind = "tmp"
    OBVIOUS
  <2> QED
    BY <1>2, <2>1, NoneAbandoned DEF Writing
<1> QED
  BY <1>2, <1>3, <1>4, <1>5, <1>6, <1>7, PersisterStep

LEMMA RemovalFailsKeeps ==
  ASSUME IInv, NEW p \in Processes, RemovalFails(p)
  PROVE  IInv'
<1>1. /\ Types /\ persister[p].pc = "fail" /\ Fault({persister[p].rec})
      /\ persister' = [persister EXCEPT ![p] = IdlePersister]
      /\ UNCHANGED <<file, old, stale, bad, claimer, offered, scenario>>
  BY DEF RemovalFails, IInv
<1>2. persister[p].rec \in Records /\ file' \in [Records -> File] /\ Writing(p)
  BY <1>1 DEF IInv, Types, PersisterOK, Writing
<1>3. /\ mishaps' \in Mishaps /\ mishaps.abandoned \subseteq mishaps'.abandoned
      /\ persister[p].rec \in mishaps'.abandoned
  <2>1. {persister[p].rec} \in SUBSET Records
    BY <1>2
  <2> QED
    BY <1>1, <2>1, FaultCounts
<1>4. \A s \in Records : file'[s] = file[s] \/ file'[s].kind = "none"
  BY <1>1
<1> QED
  BY <1>1, <1>2, <1>3, <1>4, FailedKeeps

LEMMA FailPersistKeeps ==
  ASSUME IInv, NEW p \in Processes, FailPersist(p)
  PROVE  IInv'
<1> DEFINE r == persister[p].rec
<1>1. /\ UNCHANGED <<old, stale, bad, claimer, mishaps, offered, scenario>>
      /\ file' = Unlinked(Temporary(p)) /\ persister' = [persister EXCEPT ![p] = IdlePersister]
      /\ persister[p].pc = "fail" /\ Types /\ Writing(p) /\ PersisterOK(p)
  BY DEF FailPersist, IInv, Writing
<1>2. r \in Records /\ Temporary(p).rec = r
  BY <1>1 DEF PersisterOK, Types, Temporary
<1>3. /\ file' \in [Records -> File]
      /\ \A s \in Records : file'[s] = file[s] \/ (file'[s].kind = "none" /\ s = r)
      /\ Exists(Temporary(p)) => file'[r] = NoFile
  BY <1>1, <1>2, UnlinkFiles
<1>4. file'[r].kind # "tmp"
  BY <1>1, <1>2, <1>3 DEF PersisterOK, OwnFile, NoFile
<1>5. mishaps' \in Mishaps /\ mishaps.abandoned \subseteq mishaps'.abandoned
  BY <1>1 DEF Types
<1> QED
  BY <1>1, <1>3, <1>4, <1>5, FailedKeeps

-----------------------------------------------------------------------------
(* Steps of claimBatch, complete and release *)

\* A claimer that changes nothing but its own lane.
LEMMA QuietClaim ==
  ASSUME IInv, NEW p \in Processes,
         UNCHANGED <<file, old, stale, bad, persister, offered, scenario>>, KeepsMishaps,
         claimer' \in [Processes -> Lane],
         \A q \in Processes \ {p} : claimer'[q] = claimer[q],
         ClaimerOK(p)', RecoversStale(p)',
         Claiming(p)' => Claiming(p) /\ LeasesOf(p)' \subseteq LeasesOf(p)
  PROVE  IInv'
<1>1. Types'
  BY DEF IInv, Types, KeepsMishaps
<1>2. FileStep({})
  BY FilesGo DEF IInv
<1>3. \A q \in Processes : KeptPersister(q)
  BY DEF KeptPersister
<1>4. OneWriter' /\ NoAbandonedTemporary'
  BY DEF IInv, OneWriter, NoAbandonedTemporary, Writing, KeepsMishaps
<1>5. OneClaimer'
  BY NoNewClaim DEF Claiming, LeasesOf
<1> QED
  BY <1>1, <1>2, <1>3, <1>4, <1>5, ClaimerStep

\* A claimer that renames a file it knows.
LEMMA RenameClaim ==
  ASSUME IInv, NEW p \in Processes, NEW r \in Records,
         NEW kind \in {"lease", "pending", "quarantine"},
         file[r].kind \notin {"none", "tmp"}, file' = RenamedTo(r, kind), Disturb,
         old' \subseteq old, stale' \subseteq stale, stale \ {r} \subseteq stale',
         UNCHANGED <<bad, offered, scenario>>, KeepsMishaps,
         claimer' \in [Processes -> Lane],
         \A q \in Processes \ {p} : claimer'[q] = claimer[q],
         ClaimerOK(p)', RecoversStale(p)', OneClaimer'
  PROVE  IInv'
<1>1. /\ file' \in [Records -> File] /\ persister' \in [Processes -> Persister]
      /\ FileStep({}) /\ \A q \in Processes : KeptPersister(q)
      /\ OneWriter' /\ NoAbandonedTemporary'
  BY RenameStep
<1>2. Types'
  BY <1>1 DEF IInv, Types, KeepsMishaps
<1> QED
  BY <1>1, <1>2, ClaimerStep

\* A lane that has no claim.
Unclaimed(p) ==
  /\ claimer' \in [Processes -> Lane]
  /\ \A q \in Processes \ {p} : claimer'[q] = claimer[q]
  /\ ClaimerOK(p)' /\ RecoversStale(p)' /\ ~Claiming(p)'

LEMMA LaneStep ==
  ASSUME Types, NEW p \in Processes, NEW names \in SUBSET Name,
         NEW pc \in {"idle", "recover", "list", "scan", "rename", "reread", "claimed"},
         Claimer(p, pc, names)
  PROVE  /\ claimer' \in [Processes -> Lane]
         /\ \A q \in Processes \ {p} : claimer'[q] = claimer[q]
         /\ claimer'[p].pc = pc /\ claimer'[p].names = names
<1>1. [pc |-> pc, names |-> names] \in Lane
  BY DEF Lane
<1>2. claimer' = [claimer EXCEPT ![p] = [pc |-> pc, names |-> names]]
  BY DEF Claimer
<1> QED
  BY <1>1, <1>2 DEF Types

LEMMA ScanningLane ==
  ASSUME Types, NEW p \in Processes, NEW names \in SUBSET Name, OneEach(names),
         \A n \in names : n.kind = "pending", Scanning(p, names)
  PROVE  Unclaimed(p)
<1>1. PICK pc \in {"idle", "scan"} : Claimer(p, pc, names) /\ (pc = "idle" <=> names = {})
  BY DEF Scanning
<1>2. /\ claimer' \in [Processes -> Lane]
      /\ \A q \in Processes \ {p} : claimer'[q] = claimer[q]
      /\ claimer'[p].pc = pc /\ claimer'[p].names = names
  BY <1>1, LaneStep
<1>3. ClaimerOK(p)' /\ RecoversStale(p)' /\ ~Claiming(p)'
  BY <1>1, <1>2 DEF ClaimerOK, RecoversStale, Claiming
<1> QED
  BY <1>2, <1>3 DEF Unclaimed

LEMMA IdleLane ==
  ASSUME Types, NEW p \in Processes, Claimer(p, "idle", {})
  PROVE  Unclaimed(p)
<1>1. Scanning(p, {}) /\ OneEach({})
  BY DEF Scanning, OneEach
<1> QED
  BY <1>1, ScanningLane

LEMMA RecoveringLane ==
  ASSUME Types, NEW p \in Processes, NEW names \in SUBSET Name, OneEach(names),
         \A n \in names : n.kind \in Active, Recovering(p, names),
         \A n \in names : n.kind = "lease" /\ Exists(n)' => n.rec \in stale'
  PROVE  Unclaimed(p)
<1>1. PICK pc \in {"list", "recover"} : Claimer(p, pc, names) /\ (pc = "list" <=> names = {})
  BY DEF Recovering
<1>2. /\ claimer' \in [Processes -> Lane]
      /\ \A q \in Processes \ {p} : claimer'[q] = claimer[q]
      /\ claimer'[p].pc = pc /\ claimer'[p].names = names
  BY <1>1, LaneStep
<1>3. ClaimerOK(p)' /\ ~Claiming(p)'
  BY <1>1, <1>2 DEF ClaimerOK, Claiming
<1>4. RecoversStale(p)'
  BY <1>2 DEF RecoversStale, LeasesOf
<1> QED
  BY <1>2, <1>3, <1>4 DEF Unclaimed

\* The two kinds of steps, when they end without a claim.
LEMMA QuietUnclaimed ==
  ASSUME IInv, NEW p \in Processes, Unclaimed(p), KeepsMishaps,
         UNCHANGED <<file, old, stale, bad, persister, offered, scenario>>
  PROVE  IInv'
BY QuietClaim DEF Unclaimed

LEMMA RenameUnclaimed ==
  ASSUME IInv, NEW p \in Processes, NEW r \in Records,
         NEW kind \in {"lease", "pending", "quarantine"},
         file[r].kind \notin {"none", "tmp"}, file' = RenamedTo(r, kind), Disturb,
         old' \subseteq old, stale' \subseteq stale, stale \ {r} \subseteq stale',
         UNCHANGED <<bad, offered, scenario>>, KeepsMishaps, Unclaimed(p)
  PROVE  IInv'
<1>1. OneClaimer'
  BY NoNewClaim DEF Unclaimed, Claiming, LeasesOf
<1> QED
  BY <1>1, RenameClaim DEF Unclaimed

LEMMA BeginClaimKeeps ==
  ASSUME IInv, NEW p \in Processes, BeginClaim(p)
  PROVE  IInv'
<1> DEFINE names == {n \in Listed(Active) : n.kind = "legacy" \/ n.rec \in stale}
<1>1. /\ Listed(Active) \subseteq Name /\ OneEach(Listed(Active))
      /\ \A n \in Listed(Active) : n.kind \in Active
  BY ListedNames DEF IInv
<1>2. /\ names \in SUBSET Name /\ OneEach(names) /\ \A n \in names : n.kind \in Active
      /\ \A n \in names : n.kind = "lease" => n.rec \in stale
  BY <1>1 DEF OneEach
<1>3. /\ Recovering(p, names)
      /\ UNCHANGED <<file, old, stale, bad, persister, mishaps, offered, scenario>>
  BY DEF BeginClaim
<1> HIDE DEF names
<1>4. Unclaimed(p)
  BY <1>2, <1>3, RecoveringLane DEF IInv
<1>5. KeepsMishaps
  BY <1>3, SameMishaps DEF IInv
<1> QED
  BY <1>3, <1>4, <1>5, QuietUnclaimed

LEMMA ListPendingKeeps ==
  ASSUME IInv, NEW p \in Processes, ListPending(p)
  PROVE  IInv'
<1>1. /\ Listed({"pending"}) \in SUBSET Name /\ OneEach(Listed({"pending"}))
      /\ \A n \in Listed({"pending"}) : n.kind = "pending"
  BY ListedNames DEF IInv
<1>2. Unclaimed(p)
  BY <1>1, ScanningLane DEF ListPending, IInv
<1>3. KeepsMishaps
  BY SameMishaps DEF ListPending, IInv
<1> QED
  BY <1>2, <1>3, QuietUnclaimed DEF ListPending

\* The names a claimer has left are as good as those it had.
LEMMA FewerNames ==
  ASSUME NEW names \in SUBSET Name, OneEach(names), NEW n \in names
  PROVE  /\ names \ {n} \in SUBSET Name /\ OneEach(names \ {n})
         /\ \A m \in names \ {n} : m.rec # n.rec
BY DEF OneEach

LEMMA RecoverLeaseKeeps ==
  ASSUME IInv, NEW p \in Processes, RecoverLease(p)
  PROVE  IInv'
<1> DEFINE names == claimer[p].names
<1>1. PICK n \in names :
        /\ IF Exists(n) THEN Rename(n, RecoveredKind(n))
                        ELSE UNCHANGED <<file, stale, persister>>
        /\ Recovering(p, names \ {n})
  BY DEF RecoverLease, Untouched
<1>2. UNCHANGED <<old, bad, offered, scenario>> /\ Types /\ KeepsMishaps
  BY SameMishaps DEF RecoverLease, IInv
<1>3. /\ names \in SUBSET Name /\ OneEach(names) /\ \A m \in names : m.kind \in Active
      /\ \A m \in names : m.kind = "lease" /\ Exists(m) => m.rec \in stale
  BY DEF RecoverLease, IInv, Types, Lane, ClaimerOK, RecoversStale, LeasesOf
<1>4. /\ names \ {n} \in SUBSET Name /\ OneEach(names \ {n})
      /\ \A m \in names \ {n} : m.rec # n.rec
  BY <1>3, FewerNames
<1>5. CASE Exists(n)
  <2> DEFINE kind == RecoveredKind(n)
  <2>1. n.rec \in Records /\ n.kind \in Active /\ file[n.rec].kind = n.kind
    BY <1>3, <1>5 DEF Name, Exists
  <2>2. kind \in {"lease", "pending", "quarantine"} /\ kind \in Kinds
          /\ file[n.rec].kind \notin {"none", "tmp"}
    BY <2>1 DEF Active, Kinds, RecoveredKind
  <2>3. file' = RenamedTo(n.rec, kind) /\ stale' = stale \ {n.rec} /\ Disturb
    BY <1>1, <1>5 DEF Rename
  <2> HIDE DEF kind
  <2>4. \A s \in Records : s # n.rec => file'[s] = file[s]
    BY <2>1, <2>2, <2>3, RenameFiles
  <2>5. \A m \in names \ {n} : m.kind = "lease" /\ Exists(m)' => m.rec \in stale'
    <3>1. SUFFICES ASSUME NEW m \in names \ {n}, m.kind = "lease", Exists(m)'
                   PROVE  m.rec \in stale'
      OBVIOUS
    <3>2. m.rec \in Records /\ m.rec # n.rec
      BY <1>3, <1>4 DEF Name
    <3>3. Exists(m)
      BY <2>4, <3>1, <3>2 DEF Exists
    <3> QED
      BY <1>3, <2>3, <3>1, <3>2, <3>3
  <2>6. Unclaimed(p)
    <3>1. \A m \in names \ {n} : m.kind \in Active
      BY <1>3
    <3> QED
      BY <1>1, <1>2, <1>4, <2>5, <3>1, RecoveringLane
  <2>7. /\ old' \subseteq old /\ stale' \subseteq stale /\ stale \ {n.rec} \subseteq stale'
        /\ UNCHANGED <<bad, offered, scenario>>
    BY <1>2, <2>3
  <2> QED
    BY <1>2, <2>1, <2>2, <2>3, <2>6, <2>7, RenameUnclaimed
<1>6. CASE ~Exists(n)
  <2>1. Recovering(p, names \ {n}) /\ UNCHANGED <<file, stale, persister>>
    BY <1>1, <1>6
  <2>2. /\ \A m \in names \ {n} : m.kind \in Active
        /\ \A m \in names \ {n} : m.kind = "lease" /\ Exists(m)' => m.rec \in stale'
    BY <1>3, <2>1 DEF Exists
  <2>3. Unclaimed(p)
    BY <1>2, <1>4, <2>1, <2>2, RecoveringLane
  <2> QED
    BY <1>2, <2>1, <2>3, QuietUnclaimed
<1> QED
  BY <1>5, <1>6

\* A file is renamed by a claimer that has no claim then; a damaged one is moved aside.
LEMMA RenameKeeps ==
  ASSUME IInv, NEW p \in Processes, NEW n \in Name, Exists(n), n.kind # "tmp",
         NEW kind \in {"lease", "pending", "quarantine"}, Rename(n, kind), Unclaimed(p),
         old' \subseteq old, UNCHANGED <<bad, offered, scenario>>, KeepsMishaps
  PROVE  IInv'
<1>1. n.rec \in Records /\ file[n.rec].kind \notin {"none", "tmp"}
  BY DEF Name, Exists
<1>2. /\ file' = RenamedTo(n.rec, kind) /\ Disturb
      /\ stale' \subseteq stale /\ stale \ {n.rec} \subseteq stale'
  BY DEF Rename
<1> QED
  BY <1>1, <1>2, RenameUnclaimed

LEMMA QuarantineKeeps ==
  ASSUME IInv, NEW p \in Processes, NEW n \in Name, Exists(n), n.kind \in {"pending", "lease"},
         NEW newName \in BOOLEAN, Quarantine(n, newName), Unclaimed(p),
         UNCHANGED <<bad, offered, scenario>>, KeepsMishaps
  PROVE  IInv'
<1>1. Rename(n, "quarantine") /\ old' \subseteq old
  BY DEF Quarantine
<1> QED
  BY <1>1, RenameKeeps

LEMMA PreflightKeeps ==
  ASSUME IInv, NEW p \in Processes, Preflight(p)
  PROVE  IInv'
<1> DEFINE names == claimer[p].names
           n == Oldest(names)
<1>1. /\ names \in SUBSET Name /\ OneEach(names) /\ names # {} /\ Types
      /\ \A m \in names : m.kind = "pending"
      /\ UNCHANGED <<bad, mishaps, offered, scenario>>
  BY DEF Preflight, IInv, Types, Lane, ClaimerOK
<1>9. KeepsMishaps
  BY <1>1, SameMishaps
<1>2. n \in names
  BY <1>1, OldestIsOne
<1>3. \/ /\ Claimer(p, "rename", names)
         /\ UNCHANGED <<file, old, stale, persister>>
      \/ /\ Scanning(p, names \ {n})
         /\ UNCHANGED <<file, old, stale, persister>>
      \/ /\ Exists(n)
         /\ Scanning(p, names \ {n})
         /\ Quarantine(n, TRUE)
  BY DEF Preflight, Untouched
<1> HIDE DEF n
<1>4. /\ names \ {n} \in SUBSET Name /\ OneEach(names \ {n})
      /\ \A m \in names \ {n} : m.kind = "pending"
  BY <1>1, <1>2, FewerNames
<1>5. Scanning(p, names \ {n}) => Unclaimed(p)
  BY <1>1, <1>4, ScanningLane
<1>6. CASE Claimer(p, "rename", names) /\ UNCHANGED <<file, old, stale, persister>>
  <2>1. /\ claimer' \in [Processes -> Lane]
        /\ \A q \in Processes \ {p} : claimer'[q] = claimer[q]
        /\ claimer'[p].pc = "rename" /\ claimer'[p].names = names
    BY <1>1, <1>6, LaneStep
  <2>2. Unclaimed(p)
    BY <1>1, <2>1 DEF Unclaimed, ClaimerOK, RecoversStale, Claiming
  <2> QED
    BY <1>1, <1>6, <2>2, <1>9, QuietUnclaimed
<1>7. CASE Scanning(p, names \ {n}) /\ UNCHANGED <<file, old, stale, persister>>
  BY <1>1, <1>5, <1>7, <1>9, QuietUnclaimed
<1>8. CASE Exists(n) /\ Scanning(p, names \ {n}) /\ Quarantine(n, TRUE)
  <2>1. n \in Name /\ n.kind = "pending"
    BY <1>1, <1>2
  <2> QED
    BY <1>1, <1>5, <1>8, <2>1, <1>9, QuarantineKeeps
<1> QED
  BY <1>3, <1>6, <1>7, <1>8

LEMMA RenameToLeaseKeeps ==
  ASSUME IInv, NEW p \in Processes, RenameToLease(p)
  PROVE  IInv'
<1> DEFINE names == claimer[p].names
           n == Oldest(names)
           v == NewVersion(n.rec)
           a == [n EXCEPT !.kind = "lease"]
           m == [a EXCEPT !.version = v]
<1>1. /\ names \in SUBSET Name /\ OneEach(names) /\ names # {} /\ Types
      /\ \A x \in names : x.kind = "pending"
      /\ UNCHANGED <<old, bad, mishaps, offered, scenario>>
  BY DEF RenameToLease, IInv, Types, Lane, ClaimerOK
<1>7. KeepsMishaps
  BY <1>1, SameMishaps
<1>2. n \in names
  BY <1>1, OldestIsOne
<1>3. IF Exists(n)
      THEN Rename(n, "lease") /\ Claimer(p, "reread", (names \ {n}) \cup {m})
      ELSE Scanning(p, names \ {n}) /\ UNCHANGED <<file, stale, persister>>
  BY <1>1, <1>2 DEF RenameToLease, Untouched, Name
<1> HIDE DEF n
<1>4. /\ names \ {n} \in SUBSET Name /\ OneEach(names \ {n})
      /\ \A x \in names \ {n} : x.kind = "pending" /\ x.rec # n.rec
      /\ n \in Name /\ n.rec \in Records
  BY <1>1, <1>2, FewerNames DEF Name
<1>5. CASE Exists(n)
  <2>1. /\ file[n.rec].kind \notin {"none", "tmp"} /\ file' = RenamedTo(n.rec, "lease")
        /\ Disturb /\ stale' = stale \ {n.rec}
    BY <1>1, <1>2, <1>3, <1>5 DEF Exists, Rename
  <2>2. v \in Versions /\ v \notin Remembered(n.rec)
    <3>1. "lease" \in Kinds
      BY DEF Kinds
    <3> QED
      BY <1>4, <2>1, <3>1, RenameFiles
  <2> HIDE DEF v
  <2>3. m \in Name /\ m.rec = n.rec /\ m.kind = "lease" /\ m.version = v
    <3>1. a \in Name /\ a.rec = n.rec /\ a.kind = "lease"
      BY <1>4 DEF Name, Kinds
    <3> HIDE DEF a
    <3> QED
      BY <2>2, <3>1 DEF Name
  <2>4. Claimer(p, "reread", (names \ {n}) \cup {m})
    BY <1>3, <1>5
  <2> HIDE DEF m
  <2>5. (names \ {n}) \cup {m} \in SUBSET Name
    BY <1>4, <2>3
  <2>6. /\ claimer' \in [Processes -> Lane]
        /\ \A q \in Processes \ {p} : claimer'[q] = claimer[q]
        /\ claimer'[p].pc = "reread" /\ claimer'[p].names = (names \ {n}) \cup {m}
    BY <1>1, <2>4, <2>5, LaneStep
  <2>7. LeasesOf(p)' = {m}
    BY <1>4, <2>3, <2>6 DEF LeasesOf
  <2>8. ClaimerOK(p)'
    BY <1>4, <2>3, <2>6, <2>7 DEF ClaimerOK, Claiming, OneEach
  <2>9. RecoversStale(p)'
    BY <2>6 DEF RecoversStale
  <2>10. OneClaimer'
    <3>1. SUFFICES ASSUME NEW q \in Processes, NEW q1 \in Processes,
                          NEW x \in LeasesOf(q)', NEW y \in LeasesOf(q1)',
                          Claiming(q)', Claiming(q1)', x.rec = y.rec, x.version = y.version,
                          q # q1
                   PROVE  FALSE
      BY DEF OneClaimer
    <3>2. ASSUME NEW q2 \in Processes \ {p}
          PROVE  /\ LeasesOf(q2)' = LeasesOf(q2) /\ (Claiming(q2)' <=> Claiming(q2))
                 /\ \A z \in LeasesOf(q2)' : z.rec = n.rec => z.version # v
      <4>1. LeasesOf(q2)' = LeasesOf(q2) /\ (Claiming(q2)' <=> Claiming(q2))
        BY <2>6 DEF LeasesOf, Claiming
      <4>2. \A z \in LeasesOf(q2) : z.rec = n.rec => z.version \in Remembered(n.rec)
        BY DEF LeasesOf, Remembered
      <4> QED
        BY <2>2, <4>1, <4>2
    <3>3. CASE q = p
      BY <2>3, <2>7, <3>1, <3>2, <3>3
    <3>4. CASE q1 = p
      BY <2>3, <2>7, <3>1, <3>2, <3>4
    <3>5. CASE q # p /\ q1 # p
      BY <3>1, <3>2, <3>5 DEF IInv, OneClaimer
    <3> QED
      BY <3>3, <3>4, <3>5
  <2>11. /\ stale' \subseteq stale /\ stale \ {n.rec} \subseteq stale'
         /\ old' \subseteq old /\ UNCHANGED <<bad, offered, scenario>>
    BY <1>1, <2>1
  <2> QED
    BY <1>4, <1>7, <2>1, <2>6, <2>8, <2>9, <2>10, <2>11, RenameClaim
<1>6. CASE ~Exists(n)
  <2>1. Unclaimed(p)
    BY <1>1, <1>3, <1>4, <1>6, ScanningLane
  <2> QED
    BY <1>1, <1>3, <1>6, <2>1, <1>7, QuietUnclaimed
<1> QED
  BY <1>5, <1>6

LEMMA RereadKeeps ==
  ASSUME IInv, NEW p \in Processes, Reread(p)
  PROVE  IInv'
<1> DEFINE names == claimer[p].names
           n == CHOOSE m \in names : m.kind = "lease"
<1>1. /\ names \in SUBSET Name /\ OneEach(names) /\ Types /\ claimer[p].pc = "reread"
      /\ \A m \in names : m.kind \in {"lease", "pending"}
      /\ \E m \in names : LeasesOf(p) = {m}
      /\ UNCHANGED <<bad, mishaps, offered, scenario>>
  BY DEF Reread, IInv, Types, Lane, ClaimerOK, Claiming
<1>2. n \in names /\ n.kind = "lease" /\ LeasesOf(p) = {n}
  BY <1>1 DEF LeasesOf
<1>3. \/ /\ Claimer(p, "claimed", {n})
         /\ UNCHANGED <<file, old, stale, persister>>
      \/ /\ Exists(n)
         /\ Scanning(p, names \ {n}) /\ Quarantine(n, FALSE)
      \/ /\ Exists(n)
         /\ Scanning(p, names \ {n}) /\ Rename(n, "pending") /\ UNCHANGED old
      \/ /\ Scanning(p, names \ {n})
         /\ UNCHANGED <<file, old, stale, persister>>
  BY DEF Reread, Untouched
<1>9. KeepsMishaps
  BY <1>1, SameMishaps
<1> HIDE DEF n
<1>4. /\ names \ {n} \in SUBSET Name /\ OneEach(names \ {n}) /\ n \in Name
      /\ \A m \in names \ {n} : m.kind = "pending"
  BY <1>1, <1>2, FewerNames DEF LeasesOf
<1>5. Scanning(p, names \ {n}) => Unclaimed(p)
  BY <1>1, <1>4, ScanningLane
<1>6. CASE Claimer(p, "claimed", {n}) /\ UNCHANGED <<file, old, stale, persister>>
  <2>1. {n} \in SUBSET Name
    BY <1>4
  <2>2. /\ claimer' \in [Processes -> Lane]
        /\ \A q \in Processes \ {p} : claimer'[q] = claimer[q]
        /\ claimer'[p].pc = "claimed" /\ claimer'[p].names = {n}
    BY <1>1, <1>6, <2>1, LaneStep
  <2>3. LeasesOf(p)' = {n} /\ Claiming(p)
    BY <1>1, <1>2, <2>2 DEF LeasesOf, Claiming
  <2>4. ClaimerOK(p)' /\ RecoversStale(p)'
    BY <1>2, <2>2, <2>3 DEF ClaimerOK, RecoversStale, Claiming, OneEach
  <2> QED
    BY <1>1, <1>2, <1>6, <2>2, <2>3, <2>4, <1>9, QuietClaim
<1>7. CASE Exists(n) /\ Scanning(p, names \ {n}) /\ Quarantine(n, FALSE)
  BY <1>1, <1>2, <1>4, <1>5, <1>7, <1>9, QuarantineKeeps
<1>8. CASE Scanning(p, names \ {n}) /\ UNCHANGED <<file, old, stale, persister>>
  BY <1>1, <1>5, <1>8, <1>9, QuietUnclaimed
<1>10. CASE Exists(n) /\ Scanning(p, names \ {n}) /\ Rename(n, "pending") /\ UNCHANGED old
  BY <1>1, <1>2, <1>4, <1>5, <1>9, <1>10, RenameKeeps
<1> QED
  BY <1>3, <1>6, <1>7, <1>8, <1>10

\* A claim, as its holder ends it.
LEMMA ClaimFile ==
  ASSUME IInv, NEW p \in Processes, claimer[p].pc = "claimed"
  PROVE  /\ Claim(p) \in Name /\ Claim(p).rec \in Records /\ Claim(p).kind = "lease"
         /\ Exists(Claim(p)) => file[Claim(p).rec].kind = "lease"
<1>1. Claim(p) \in Name /\ Claim(p).kind = "lease"
  BY ClaimIsLease DEF IInv, Types, Lane, LeasesOf
<1> QED
  BY <1>1 DEF Name, Exists

\* A lease is removed by a claimer that has no claim then.
LEMMA RemoveKeeps ==
  ASSUME IInv, NEW p \in Processes, NEW n \in Name, n.kind = "lease", Remove(n),
         Unclaimed(p), UNCHANGED <<old, bad, offered, scenario>>, KeepsMishaps
  PROVE  IInv'
<1>1. /\ file' = Unlinked(n) /\ UNCHANGED persister /\ Types
      /\ stale' = IF Exists(n) THEN stale \ {n.rec} ELSE stale
  BY DEF Remove, IInv
<1>2. n.rec \in Records /\ (Exists(n) => file[n.rec].kind = "lease")
  BY DEF Name, Exists
<1>3. /\ file' \in [Records -> File]
      /\ \A r \in Records : file'[r] = file[r] \/ (file'[r].kind = "none" /\ r = n.rec)
      /\ Exists(n) => file'[n.rec] = NoFile
  BY <1>1, <1>2, UnlinkFiles
<1>4. Types'
  BY <1>1, <1>3 DEF Types, Unclaimed, KeepsMishaps
<1>5. FileStep({})
  BY <1>1, <1>2, <1>3 DEF FileStep, NoFile
<1>6. \A q \in Processes : KeptPersister(q)
  BY <1>1 DEF KeptPersister
<1>7. OneWriter'
  BY <1>1, NoNewWriter DEF Writing
<1>8. OneClaimer'
  BY NoNewClaim DEF Unclaimed, Claiming, LeasesOf
<1>9. NoAbandonedTemporary'
  BY <1>1, <1>3, NoneAbandoned DEF Writing, KeepsMishaps
<1> QED
  BY <1>4, <1>5, <1>6, <1>7, <1>8, <1>9, ClaimerStep DEF Unclaimed

LEMMA CompleteKeeps ==
  ASSUME IInv, NEW p \in Processes, Complete(p)
  PROVE  IInv'
<1>1. /\ claimer[p].pc = "claimed" /\ Remove(Claim(p)) /\ Claimer(p, "idle", {}) /\ Types
      /\ UNCHANGED <<old, bad, mishaps, offered, scenario>>
  BY DEF Complete, IInv
<1>2. Claim(p) \in Name /\ Claim(p).kind = "lease"
  BY <1>1, ClaimFile
<1>3. Unclaimed(p) /\ KeepsMishaps
  BY <1>1, IdleLane, SameMishaps
<1> QED
  BY <1>1, <1>2, <1>3, RemoveKeeps

LEMMA ReleaseClaimKeeps ==
  ASSUME IInv, NEW p \in Processes, ReleaseClaim(p)
  PROVE  IInv'
<1>1. /\ claimer[p].pc = "claimed" /\ Types
      /\ IF Exists(Claim(p)) THEN Rename(Claim(p), "pending")
                             ELSE UNCHANGED <<file, stale, persister>>
      /\ Claimer(p, "idle", {})
      /\ UNCHANGED <<old, bad, mishaps, offered, scenario>>
  BY DEF ReleaseClaim, IInv, Untouched
<1>2. Claim(p) \in Name /\ Claim(p).kind = "lease"
  BY <1>1, ClaimFile
<1>3. Unclaimed(p) /\ KeepsMishaps
  BY <1>1, IdleLane, SameMishaps
<1>4. CASE Exists(Claim(p))
  BY <1>1, <1>2, <1>3, <1>4, RenameKeeps
<1>5. CASE ~Exists(Claim(p))
  BY <1>1, <1>3, <1>5, QuietUnclaimed
<1> QED
  BY <1>4, <1>5

-----------------------------------------------------------------------------
(* Calls that fail *)

LEMMA ClaimFailsKeeps ==
  ASSUME IInv, NEW p \in Processes, ClaimFails(p)
  PROVE  IInv'
<1> DEFINE names == claimer[p].names
<1>1. Types /\ names \in SUBSET Name /\ ClaimerOK(p)
  BY DEF IInv, Types, Lane
<1>2. Claimer(p, "idle", {}) /\ Fault({}) /\ UNCHANGED <<bad, offered, scenario>>
        /\ claimer[p].pc # "idle"
  BY DEF ClaimFails
<1>3. Unclaimed(p) /\ KeepsMishaps
  BY <1>1, <1>2, IdleLane, SameMishaps
<1>4. CASE UNCHANGED <<file, stale, persister>> /\ UNCHANGED old
  BY <1>2, <1>3, <1>4, QuietUnclaimed
<1>5. ASSUME NEW n \in names, FailsAfter(p, n) PROVE IInv'
  <2>1. /\ n \in Name /\ Exists(n) /\ n.kind # "tmp"
        /\ claimer[p].pc = "recover" => n.kind \in Active
        /\ claimer[p].pc \in {"scan", "rename"} => n.kind = "pending"
        /\ claimer[p].pc \in {"reread", "claimed"} => n.kind = "lease"
    BY <1>1, <1>2, <1>5 DEF ClaimerOK, FailsAfter, Active, Claiming, Lane, IInv, Types
  <2>2. CASE claimer[p].pc = "recover" /\ Rename(n, RecoveredKind(n)) /\ UNCHANGED old
    <3>1. RecoveredKind(n) \in {"lease", "pending", "quarantine"}
      BY DEF RecoveredKind
    <3> QED
      BY <1>2, <1>3, <2>1, <2>2, <3>1, RenameKeeps
  <2>3. CASE claimer[p].pc = "scan" /\ Quarantine(n, TRUE)
    BY <1>2, <1>3, <2>1, <2>3, QuarantineKeeps
  <2>4. CASE claimer[p].pc = "rename" /\ Rename(n, "lease") /\ UNCHANGED old
    BY <1>2, <1>3, <2>1, <2>4, RenameKeeps
  <2>5. CASE claimer[p].pc = "reread" /\ Quarantine(n, FALSE)
    BY <1>2, <1>3, <2>1, <2>5, QuarantineKeeps
  <2>6. CASE claimer[p].pc \in {"reread", "claimed"} /\ Rename(n, "pending") /\ UNCHANGED old
    BY <1>2, <1>3, <2>1, <2>6, RenameKeeps
  <2>7. CASE claimer[p].pc = "claimed" /\ Remove(n) /\ UNCHANGED old
    BY <1>2, <1>3, <2>1, <2>7, RemoveKeeps
  <2> QED
    BY <1>5, <2>2, <2>3, <2>4, <2>5, <2>6, <2>7 DEF FailsAfter
<1> QED
  BY <1>4, <1>5 DEF ClaimFails, Untouched

-----------------------------------------------------------------------------
(* Time, damage and crashes; the invariant *)

\* No lane moves.
LEMMA NoLane ==
  ASSUME IInv, UNCHANGED <<file, persister, claimer, mishaps, offered, scenario>>,
         old' \subseteq Records, stale' \subseteq Records, bad' \subseteq Records,
         stale \subseteq stale'
  PROVE  IInv'
<1>1. Types'
  BY DEF IInv, Types
<1>2. FileStep({})
  BY DEF FileStep
<1>3. \A q \in Processes : KeptPersister(q)
  BY DEF KeptPersister
<1>4. OneWriter' /\ NoAbandonedTemporary' /\ OneClaimer'
  BY DEF IInv, OneWriter, NoAbandonedTemporary, OneClaimer, Writing, Claiming, LeasesOf
<1>5. /\ {} \in SUBSET Processes /\ offered \subseteq offered' /\ scenario' = scenario
      /\ \A q \in Processes \ {} : KeptPersister(q)
      /\ \A q \in Processes \ {} : claimer'[q] = claimer[q]
  BY <1>3
<1>6. /\ \A q \in {} : PersisterOK(q)' /\ Current(q)'
      /\ \A q \in {} : ClaimerOK(q)' /\ RecoversStale(q)'
  OBVIOUS
<1> QED
  BY <1>1, <1>2, <1>4, <1>5, <1>6, StepKeeps

LEMMA CrashKeeps ==
  ASSUME IInv, NEW p \in Processes, Crash(p)
  PROVE  IInv'
<1>1. /\ Types
      /\ persister' = [persister EXCEPT ![p] = IdlePersister]
      /\ claimer' = [claimer EXCEPT ![p] = Idle]
      /\ UNCHANGED <<file, old, stale, bad, offered, scenario>>
  BY DEF Crash, IInv, Types
<1>2. /\ IdlePersister \in Persister /\ IdlePersister.pc = "idle"
      /\ IdlePersister.names = {}
  <2>1. 0 \in Versions
    BY StoreAssumption DEF Versions
  <2> QED
    BY <2>1 DEF IdlePersister, Persister
<1>3. /\ persister' \in [Processes -> Persister] /\ persister'[p] = IdlePersister
      /\ \A q \in Processes \ {p} : persister'[q] = persister[q] /\ KeptPersister(q)
  BY <1>1, <1>2, OwnStep
<1>4. Unclaimed(p)
  <2>1. Claimer(p, "idle", {})
    BY <1>1 DEF Claimer, Idle
  <2> QED
    BY <1>1, <2>1, IdleLane
<1>12. /\ mishaps' \in Mishaps /\ mishaps.abandoned \subseteq mishaps'.abandoned
       /\ Writing(p) => persister[p].rec \in mishaps'.abandoned
  <2> DEFINE new == IF persister[p].pc = "idle" THEN {} ELSE {persister[p].rec}
  <2>1. mishaps' = [mishaps EXCEPT !.crashes = @ + 1, !.abandoned = @ \cup new]
    BY DEF Crash
  <2>2. new \in SUBSET Records
    BY DEF IInv, Types, PersisterOK, Writing
  <2> HIDE DEF new
  <2>3. /\ mishaps' \in Mishaps /\ mishaps.abandoned \subseteq mishaps'.abandoned
        /\ new \subseteq mishaps'.abandoned
    BY <1>1, <2>1, <2>2, CrashCounts
  <2> QED
    BY <2>3 DEF new, Writing
<1>5. Types'
  BY <1>1, <1>3, <1>4, <1>12 DEF Types, Unclaimed
<1>6. FileStep({p})
  BY <1>1, FilesGo
<1>7. PersisterOK(p)' /\ Current(p)'
  BY <1>2, <1>3 DEF PersisterOK, Current, OneEach, Writing
<1>8. OneWriter'
  BY <1>2, <1>3, NoNewWriter DEF Writing
<1>9. OneClaimer'
  BY <1>4, NoNewClaim DEF Unclaimed, Claiming, LeasesOf
<1>10. NoAbandonedTemporary'
  BY <1>1, <1>3, <1>12, NoneAbandoned DEF Writing
<1>11. /\ {p} \in SUBSET Processes /\ offered \subseteq offered' /\ scenario' = scenario
       /\ \A q \in {p} : PersisterOK(q)' /\ Current(q)'
       /\ \A q \in {p} : ClaimerOK(q)' /\ RecoversStale(q)'
       /\ \A q \in Processes \ {p} : claimer'[q] = claimer[q]
  BY <1>1, <1>4, <1>7 DEF Unclaimed
<1> QED
  BY <1>3, <1>5, <1>6, <1>8, <1>9, <1>10, <1>11, StepKeeps

LEMMA NextInvariant == IInv /\ [Next]_vars => IInv'
<1> SUFFICES ASSUME IInv, [Next]_vars PROVE IInv'
  OBVIOUS
<1>1. ASSUME NEW p \in Processes, NEW r \in Records, StartPersist(p, r) PROVE IInv'
  BY <1>1, StartPersistKeeps
<1>2. ASSUME NEW p \in Processes, PersistStep(p) PROVE IInv'
  BY <1>2, ListFilesKeeps, StatFilesKeeps, ExpireFileKeeps, EvictFileKeeps,
     WriteTemporaryKeeps, PublishKeeps, FailPersistKeeps DEF PersistStep
<1>3. ASSUME NEW p \in Processes, ClaimStep(p) PROVE IInv'
  BY <1>3, BeginClaimKeeps, RecoverLeaseKeeps, ListPendingKeeps, PreflightKeeps,
     RenameToLeaseKeeps, RereadKeeps, CompleteKeeps, ReleaseClaimKeeps DEF ClaimStep
<1>4. ASSUME NEW p \in Processes, Crash(p) PROVE IInv'
  BY <1>4, CrashKeeps
<1>7. ASSUME NEW p \in Processes,
             PersistFails(p) \/ WriteFails(p) \/ PublishSyncFails(p) \/ RemovalFails(p)
               \/ ClaimFails(p)
      PROVE  IInv'
  BY <1>7, PersistFailsKeeps, WriteFailsKeeps, PublishSyncFailsKeeps, RemovalFailsKeeps,
     ClaimFailsKeeps
<1>5. ASSUME NEW r \in Records, FileAges(r) \/ LeaseExpires(r) \/ Spoil(r) PROVE IInv'
  <2>1. /\ UNCHANGED <<file, persister, claimer, mishaps, offered, scenario>>
        /\ old' \subseteq Records /\ stale' \subseteq Records /\ bad' \subseteq Records
        /\ stale \subseteq stale'
    BY <1>5 DEF FileAges, LeaseExpires, Spoil, IInv, Types
  <2> QED
    BY <2>1, NoLane
<1>6. CASE UNCHANGED vars
  <2>1. /\ UNCHANGED <<file, persister, claimer, mishaps, offered, scenario>>
        /\ old' \subseteq Records /\ stale' \subseteq Records /\ bad' \subseteq Records
        /\ stale \subseteq stale'
    BY <1>6 DEF vars, IInv, Types
  <2> QED
    BY <2>1, NoLane
<1> QED
  BY <1>1, <1>2, <1>3, <1>4, <1>5, <1>6, <1>7 DEF Next

LEMMA Invariance == Spec => []IInv
<1> QED
  BY InitInvariant, NextInvariant, PTL DEF Spec

\* Whatever processes persist and claim at once, whenever they crash, whichever calls on the
\* directory throw, before or after their effect, and whatever happens to leases and files,
\* the directory stays well formed: a record has one holder at most, and a temporary file
\* has its writer, unless that writer crashed or could not remove it.
THEOREM Spec_StoreInv == Spec => []StoreInv
<1> QED
  BY Invariance, InvariantSays, PTL

-----------------------------------------------------------------------------
(* A held record is safe *)

\* A step of q does not touch the file that p holds under a lease that has not run out.
LEMMA PersistSpares ==
  ASSUME IInv, NEW q \in Processes, NEW r \in Records, file[r].kind = "lease",
         PersistStep(q) \/ PersistFails(q) \/ WriteFails(q) \/ PublishSyncFails(q)
           \/ RemovalFails(q)
  PROVE  file'[r] = file[r]
<1> DEFINE s == persister[q].rec
<1>1. Types /\ persister[q] \in Persister /\ PersisterOK(q)
  BY DEF IInv, Types
<1>2. ASSUME NEW n, n.kind # "lease", file' = Unlinked(n)
      PROVE  file'[r] = file[r]
  BY <1>1, <1>2 DEF Unlinked, Exists, Types
<1>3. CASE ListFiles(q) \/ StatFiles(q)
  BY <1>3 DEF ListFiles, StatFiles
<1>4. CASE ExpireFile(q)
  <2> DEFINE names == Expired(persister[q].names)
  <2>1. names \in SUBSET Name /\ names # {}
    BY <1>1, <1>4 DEF Persister, PersisterOK, ExpireFile, Expired
  <2>2. Oldest(names) \in names
    BY <2>1, OldestIsOne
  <2>3. Oldest(names).kind # "lease"
    BY <2>2 DEF Expired, Active
  <2>4. file' = Unlinked(Oldest(names))
    BY <1>4 DEF ExpireFile, UnlinkNext
  <2> HIDE DEF names
  <2> QED
    BY <1>2, <2>3, <2>4
<1>5. CASE EvictFile(q)
  <2> DEFINE names == CanEvict(persister[q].names)
  <2>1. names \in SUBSET Name /\ names # {}
    BY <1>1, <1>5 DEF Persister, PersisterOK, EvictFile, CanEvict
  <2>2. Oldest(names) \in names
    BY <2>1, OldestIsOne
  <2>3. Oldest(names).kind # "lease"
    BY <2>2 DEF CanEvict, Evictable
  <2>4. file' = Unlinked(Oldest(names))
    BY <1>5 DEF EvictFile, UnlinkNext
  <2> HIDE DEF names
  <2> QED
    BY <1>2, <2>3, <2>4
<1>6. CASE FailPersist(q)
  <2>1. Temporary(q).kind # "lease" /\ file' = Unlinked(Temporary(q))
    BY <1>6 DEF FailPersist, Temporary
  <2> QED
    BY <1>2, <2>1
<1>7. ASSUME NEW kind, file' = RenamedTo(s, kind), Writing(q), persister[q].pc # "fail"
      PROVE  file'[r] = file[r]
  <2>1. file[s].kind \in {"none", "tmp"}
    BY <1>1, <1>7 DEF PersisterOK, OwnFile, Exists, Temporary
  <2>2. r # s
    BY <2>1
  <2> QED
    BY <1>1, <1>7, <2>2 DEF RenamedTo, Types
<1>8. CASE WriteTemporary(q)
  BY <1>7, <1>8 DEF WriteTemporary, Writing
<1>9. CASE Publish(q)
  BY <1>7, <1>9 DEF Publish, Writing
<1>10. CASE WriteFails(q)
  BY <1>7, <1>10 DEF WriteFails, Writing
<1>11. CASE PublishSyncFails(q)
  BY <1>7, <1>11 DEF PublishSyncFails, Writing
<1>12. CASE PersistFails(q) \/ RemovalFails(q)
  BY <1>12 DEF PersistFails, RemovalFails
<1> QED
  BY <1>3, <1>4, <1>5, <1>6, <1>8, <1>9, <1>10, <1>11, <1>12 DEF PersistStep

LEMMA ClaimSpares ==
  ASSUME IInv, NEW q \in Processes, ClaimStep(q) \/ ClaimFails(q), NEW p \in Processes,
         NEW r \in Records,
         Holds(p, r), Exists(Claim(p)), r \notin stale, claimer'[p] = claimer[p]
  PROVE  file'[r] = file[r]
<1> DEFINE names == claimer[q].names
<1>1. /\ Types /\ names \in SUBSET Name /\ ClaimerOK(q) /\ RecoversStale(q)
  BY DEF IInv, Types, Lane
<1>2. /\ claimer[p].pc = "claimed" /\ Claim(p).rec = r /\ Claim(p) \in LeasesOf(p)
      /\ Claim(p).kind = "lease" /\ file[r].kind = "lease"
  BY ClaimIsLease, ClaimFile DEF Holds
<1>3. ASSUME NEW n, n.rec # r \/ ~Exists(n),
             NEW kind, IF Exists(n) THEN file' = RenamedTo(n.rec, kind) ELSE file' = file
      PROVE  file'[r] = file[r]
  BY <1>1, <1>3 DEF RenamedTo, Types
\* Whatever q knows by another path is not the file that p holds.
<1>4. ASSUME NEW n \in Name, n.kind # "lease" PROVE n.rec # r \/ ~Exists(n)
  BY <1>2, <1>4 DEF Exists
<1>5. ASSUME NEW n \in LeasesOf(q), Claiming(q), q # p PROVE n.rec # r \/ ~Exists(n)
  <2>1. SUFFICES ASSUME n.rec = r, Exists(n) PROVE FALSE
    OBVIOUS
  <2>2. n.version = Claim(p).version
    BY <1>2, <2>1 DEF Exists
  <2> QED
    BY <1>2, <1>5, <2>1, <2>2 DEF IInv, OneClaimer, Claiming
<1>6. CASE BeginClaim(q) \/ ListPending(q)
  BY <1>6 DEF BeginClaim, ListPending
<1>7. CASE RecoverLease(q)
  <2>1. PICK n \in names :
          IF Exists(n) THEN file' = RenamedTo(n.rec, RecoveredKind(n)) ELSE file' = file
    BY <1>7 DEF RecoverLease, Rename, Untouched
  <2>2. n.rec # r \/ ~Exists(n)
    <3>1. CASE n.kind = "lease"
      BY <1>1, <1>7, <3>1 DEF RecoverLease, RecoversStale, LeasesOf
    <3>2. CASE n.kind # "lease"
      BY <1>1, <1>4, <3>2
    <3> QED
      BY <3>1, <3>2
  <2> QED
    BY <1>3, <2>1, <2>2
<1>8. CASE Preflight(q)
  <2> DEFINE n == Oldest(names)
  <2>1. names # {} /\ \A m \in names : m.kind = "pending"
    BY <1>1, <1>8 DEF Preflight, ClaimerOK
  <2>2. n \in names
    BY <1>1, <2>1, OldestIsOne
  <2>3. file' = file \/ (Exists(n) /\ file' = RenamedTo(n.rec, "quarantine"))
    BY <1>8 DEF Preflight, Quarantine, Rename, Untouched
  <2> HIDE DEF n
  <2>4. n.rec # r \/ ~Exists(n)
    BY <1>1, <1>4, <2>1, <2>2
  <2> QED
    BY <1>3, <2>3, <2>4
<1>9. CASE RenameToLease(q)
  <2> DEFINE n == Oldest(names)
  <2>1. names # {} /\ \A m \in names : m.kind = "pending"
    BY <1>1, <1>9 DEF RenameToLease, ClaimerOK
  <2>2. n \in names
    BY <1>1, <2>1, OldestIsOne
  <2>3. IF Exists(n) THEN file' = RenamedTo(n.rec, "lease") ELSE file' = file
    BY <1>9 DEF RenameToLease, Rename, Untouched
  <2> HIDE DEF n
  <2>4. n.rec # r \/ ~Exists(n)
    BY <1>1, <1>4, <2>1, <2>2
  <2> QED
    BY <1>3, <2>3, <2>4
<1>10. CASE Reread(q)
  <2> DEFINE n == CHOOSE m \in names : m.kind = "lease"
  <2>1. n \in LeasesOf(q) /\ Claiming(q) /\ q # p
    BY <1>1, <1>2, <1>10 DEF Reread, ClaimerOK, Claiming, LeasesOf
  <2>2. \/ file' = file
        \/ Exists(n) /\ file' = RenamedTo(n.rec, "quarantine")
        \/ Exists(n) /\ file' = RenamedTo(n.rec, "pending")
    BY <1>10 DEF Reread, Quarantine, Rename, Untouched
  <2> HIDE DEF n
  <2>3. n.rec # r \/ ~Exists(n)
    BY <1>5, <2>1
  <2> QED
    BY <1>3, <2>2, <2>3
<1>11. CASE Complete(q) \/ ReleaseClaim(q)
  <2> DEFINE n == Claim(q)
  <2>1. claimer[q].pc = "claimed" /\ Claimer(q, "idle", {})
    BY <1>11 DEF Complete, ReleaseClaim
  <2>2. q # p
    BY <1>1, <1>2, <2>1, LaneStep
  <2>3. n \in LeasesOf(q) /\ Claiming(q)
    BY <2>1, ClaimIsLease DEF Claiming
  <2>4. n.rec # r \/ ~Exists(n)
    BY <1>5, <2>2, <2>3
  <2>5. file' = Unlinked(n) \/ IF Exists(n) THEN file' = RenamedTo(n.rec, "pending") ELSE file' = file
    BY <1>11 DEF Complete, ReleaseClaim, Remove, Rename, Untouched
  <2> HIDE DEF n
  <2>6. CASE file' = Unlinked(n)
    BY <1>1, <2>4, <2>6 DEF Unlinked, Types
  <2> QED
    BY <1>3, <2>4, <2>5, <2>6
<1>12. CASE ClaimFails(q)
  <2>1. claimer[q].pc # "idle" /\ Claimer(q, "idle", {})
    BY <1>12 DEF ClaimFails
  <2>2. q # p
    BY <1>1, <1>2, <2>1, LaneStep
  <2>3. SUFFICES ASSUME NEW n \in names, FailsAfter(q, n) PROVE file'[r] = file[r]
    BY <1>12 DEF ClaimFails, Untouched
  <2>4. Exists(n) /\ n \in Name
    BY <1>1, <2>3 DEF FailsAfter
  <2>5. n.rec # r \/ ~Exists(n)
    <3>1. CASE n.kind # "lease"
      BY <1>4, <2>4, <3>1
    <3>2. CASE n.kind = "lease" /\ claimer[q].pc = "recover"
      BY <1>1, <3>2 DEF RecoversStale, LeasesOf
    <3>3. CASE n.kind = "lease" /\ Claiming(q)
      BY <1>5, <2>2, <3>3 DEF LeasesOf
    <3> QED
      BY <1>1, <2>1, <3>1, <3>2, <3>3 DEF ClaimerOK, Claiming, IInv, Types, Lane
  <2>6. file' = Unlinked(n) \/ \E kind : file' = RenamedTo(n.rec, kind)
    BY <2>3 DEF FailsAfter, Rename, Remove, Quarantine
  <2>7. CASE file' = Unlinked(n)
    BY <1>1, <2>5, <2>7 DEF Unlinked, Types
  <2> QED
    BY <1>3, <2>4, <2>5, <2>6, <2>7
<1> QED
  BY <1>6, <1>7, <1>8, <1>9, <1>10, <1>11, <1>12 DEF ClaimStep

LEMMA HeldStep ==
  ASSUME IInv, [Next]_vars, NEW p \in Processes, NEW r \in Records,
         Holds(p, r), Exists(Claim(p)), r \notin stale, claimer'[p] = claimer[p]
  PROVE  file'[r] = file[r]
<1>1. file[r].kind = "lease"
  BY ClaimFile DEF Holds
<1>2. ASSUME NEW q \in Processes,
             PersistStep(q) \/ PersistFails(q) \/ WriteFails(q) \/ PublishSyncFails(q)
               \/ RemovalFails(q)
      PROVE  file'[r] = file[r]
  BY <1>1, <1>2, PersistSpares
<1>3. ASSUME NEW q \in Processes, ClaimStep(q) \/ ClaimFails(q) PROVE file'[r] = file[r]
  BY <1>3, ClaimSpares
<1>4. ASSUME NEW q \in Processes, NEW s \in Records, StartPersist(q, s) PROVE file'[r] = file[r]
  BY <1>4 DEF StartPersist
<1>5. ASSUME NEW q \in Processes, Crash(q) PROVE file'[r] = file[r]
  BY <1>5 DEF Crash
<1>6. ASSUME NEW s \in Records, FileAges(s) \/ LeaseExpires(s) \/ Spoil(s)
      PROVE  file'[r] = file[r]
  BY <1>6 DEF FileAges, LeaseExpires, Spoil
<1>7. CASE UNCHANGED vars
  BY <1>7 DEF vars
<1> QED
  BY <1>2, <1>3, <1>4, <1>5, <1>6, <1>7 DEF Next

\* As long as a claimer's lease has not run out, nobody else moves or removes the record,
\* however late an expiry, an eviction, a recovery or a former holder's answer may come.
THEOREM Spec_HeldRecordIsSafe == Spec => HeldRecordIsSafe
<1>1. IInv /\ [Next]_vars =>
        [\A p \in Processes : \A r \in Records :
           (Holds(p, r) /\ Exists(Claim(p)) /\ r \notin stale /\ claimer'[p] = claimer[p])
             => file'[r] = file[r]]_vars
  BY HeldStep
<1> QED
  BY <1>1, Invariance, PTL DEF Spec, HeldRecordIsSafe

-----------------------------------------------------------------------------
(* An undisturbed persist fits *)

LEMMA FitStep ==
  ASSUME IInv, [Next]_vars, NEW p \in Processes, persister[p].pc = "publish",
         persister'[p].pc = "idle", ~persister[p].moved, mishaps' = mishaps
  PROVE  TotalBytes' <= MaxBytes
<1>1. Types /\ persister[p] \in Persister /\ PersisterOK(p)
  BY DEF IInv, Types
<1>2. Publish(p)
  <2>1. ~ (UNCHANGED persister)
    OBVIOUS
  <2>2. ~ Disturb
    BY <1>1, DisturbKeeps DEF KeptPersister
  <2>3. ASSUME NEW q \in Processes, NEW r \in Records, StartPersist(q, r) PROVE FALSE
    BY <1>1, <2>3 DEF StartPersist, Types
  <2>4. ASSUME NEW q \in Processes, ClaimStep(q) PROVE FALSE
    BY <2>1, <2>2, <2>4 DEF ClaimStep, BeginClaim, RecoverLease, ListPending, Preflight,
       RenameToLease, Reread, Complete, ReleaseClaim, Quarantine, Rename, Remove, Untouched
  <2>5. ASSUME NEW q \in Processes,
               Crash(q) \/ PersistFails(q) \/ WriteFails(q) \/ PublishSyncFails(q)
                 \/ RemovalFails(q) \/ ClaimFails(q)
        PROVE  FALSE
    <3>1. {} \in SUBSET Records
      OBVIOUS
    <3>2. ~ Fault({})
      BY <1>1, <3>1, FaultCounts
    <3>3. CASE Crash(q)
      <4> DEFINE new == IF persister[q].pc = "idle" THEN {} ELSE {persister[q].rec}
      <4>1. mishaps' = [mishaps EXCEPT !.crashes = @ + 1, !.abandoned = @ \cup new]
        BY <3>3 DEF Crash
      <4>2. new \in SUBSET Records
        BY DEF IInv, Types, PersisterOK, Writing
      <4> HIDE DEF new
      <4> QED
        BY <1>1, <4>1, <4>2, CrashCounts
    <3>4. CASE RemovalFails(q)
      <4>1. {persister[q].rec} \in SUBSET Records
        BY <3>4 DEF RemovalFails, IInv, Types, PersisterOK, Writing
      <4> QED
        BY <1>1, <3>4, <4>1, FaultCounts DEF RemovalFails
    <3> QED
      BY <2>5, <3>2, <3>3, <3>4 DEF PersistFails, WriteFails, PublishSyncFails, ClaimFails
  <2>6. ASSUME NEW r \in Records, FileAges(r) \/ LeaseExpires(r) \/ Spoil(r) PROVE FALSE
    BY <2>1, <2>6 DEF FileAges, LeaseExpires, Spoil
  <2>7. ASSUME NEW q \in Processes, PersistStep(q) PROVE Publish(p)
    <3>1. CASE q = p
      BY <2>7, <3>1 DEF PersistStep, ListFiles, StatFiles, ExpireFile, EvictFile,
         WriteTemporary, FailPersist
    <3>2. ASSUME q # p PROVE persister'[p].pc = persister[p].pc
      <4>1. CASE ListFiles(q) \/ StatFiles(q) \/ ExpireFile(q) \/ EvictFile(q) \/ FailPersist(q)
        BY <1>1, <3>2, <4>1 DEF ListFiles, StatFiles, ExpireFile, EvictFile, UnlinkNext,
           FailPersist, Types
      <4>2. CASE WriteTemporary(q) \/ Publish(q)
        <5>1. \/ persister'[p] = [persister[p] EXCEPT !.moved = persister[p].pc # "idle"]
              \/ \E x : persister' = [persister EXCEPT ![q] = x]
          BY <3>2, <4>2 DEF WriteTemporary, Publish
        <5> QED
          BY <1>1, <3>2, <5>1 DEF Persister, Types
      <4> QED
        BY <2>7, <4>1, <4>2 DEF PersistStep
    <3> QED
      BY <3>1, <3>2
  <2> QED
    BY <2>1, <2>3, <2>4, <2>5, <2>6, <2>7 DEF Next, vars
<1> DEFINE r == persister[p].rec
<1>3. Exists(Temporary(p)) /\ file' = RenamedTo(r, "pending")
  <2>1. SUFFICES ASSUME persister' = [persister EXCEPT ![p] = Failing(p)] PROVE FALSE
    BY <1>2 DEF Publish
  <2> QED
    BY <1>1, <2>1, FailingLane DEF Types
<1>4. Stored' = Stored
  <2>1. file[r].kind = "tmp"
    BY <1>3 DEF Exists, Temporary
  <2>2. \A s \in Records : file'[s].kind = "none" <=> file[s].kind = "none"
    BY <1>1, <1>3, <2>1 DEF RenamedTo, Types
  <2> QED
    BY <2>2 DEF Stored
<1>5. TotalBytes <= MaxBytes
  BY DEF IInv, Current
<1>6. TotalBytes' = BytesOf(Stored') /\ TotalBytes = BytesOf(Stored)
  BY DEF TotalBytes
<1> QED
  BY <1>4, <1>5, <1>6

\* A persist that nothing disturbed leaves no more bytes than the store may hold, whatever
\* the sizes of the records and whatever earlier races left behind.
THEOREM Spec_UndisturbedPersistFits == Spec => UndisturbedPersistFits
<1>1. IInv /\ [Next]_vars =>
        [\A p \in Processes :
           (persister[p].pc = "publish" /\ persister'[p].pc = "idle" /\ ~persister[p].moved
              /\ mishaps' = mishaps)
             => TotalBytes' <= MaxBytes]_vars
  BY FitStep
<1> QED
  BY <1>1, Invariance, PTL DEF Spec, UndisturbedPersistFits
=============================================================================
