---------------------------- MODULE PodProxyProofs ----------------------------
(***************************************************************************)
(* Proofs about the pod proxy's configuration merge (pod_proxy.go):        *)
(* lemmas about the operators of CreateConfig (the first entry with a key, *)
(* the loop that appends the image's unset variables) and the invariants   *)
(* OnePathEntry and MergedAsSpecified of PodProxy for every pod and every  *)
(* image config the types admit.                                           *)
(***************************************************************************)
EXTENDS PodProxy, FiniteSetTheorems, SequenceTheorems, TLAPS

-----------------------------------------------------------------------------
(* Least elements.                                                         *)

\* Every non-empty set of naturals has a least element: the minimal
\* counterexample argument the lemmas on the first entry with a key use.
LEMMA LeastNat ==
    ASSUME NEW T \in SUBSET Nat, T # {}
    PROVE  \E x \in T : \A y \in T : x <= y
<1> DEFINE R == {ss \in Nat \X Nat : ss[1] < ss[2]}
<1>1. IsWellFoundedOn(R, Nat)
  <2>1. R = OpToRel(<, Nat)
    BY DEF OpToRel
  <2>2. QED
    BY <2>1, NatLessThanWellFounded
<1>2. PICK x \in T : \A y \in T : ~(<<y, x>> \in R)
  BY <1>1, WFMin
<1>3. ASSUME NEW y \in T PROVE x <= y
  <2>1. y < x => <<y, x>> \in R
    OBVIOUS
  <2>2. QED
    BY <1>2, <2>1
<1>4. QED
  BY <1>3

-----------------------------------------------------------------------------
(* The rank of a kept position.                                            *)

\* A set of positions of a sequence is finite and has a natural size.
LEMMA KeptFinite ==
    ASSUME NEW L \in Nat, NEW I \in SUBSET (1 .. L)
    PROVE  IsFiniteSet(I) /\ Cardinality(I) \in Nat
<1>1. IsFiniteSet(1 .. L)
  BY FS_Interval
<1>2. IsFiniteSet(I)
  BY <1>1, FS_Subset
<1>3. QED
  BY <1>2, FS_CardinalityType

\* The rank of a kept position i is between 1 and the number of kept
\* positions.
LEMMA RankRange ==
    ASSUME NEW L \in Nat, NEW I \in SUBSET (1 .. L), NEW i \in I
    PROVE  KeptRank(I, i) \in 1 .. Cardinality(I)
<1> DEFINE A == {m \in I : m <= i}
<1>1. IsFiniteSet(I) /\ Cardinality(I) \in Nat
  BY KeptFinite
<1>2. IsFiniteSet(A) /\ Cardinality(A) <= Cardinality(I)
  BY <1>1, FS_Subset
<1>3. Cardinality(A) \in Nat /\ Cardinality(A) # 0
  <2>1. i \in A
    OBVIOUS
  <2>2. QED
    BY <1>2, <2>1, FS_EmptySet, FS_CardinalityType
<1>4. QED
  BY <1>1, <1>2, <1>3 DEF KeptRank

\* The rank is strictly increasing in the position: the loop appends the
\* kept entries in imgEnv's order.
LEMMA RankMonotone ==
    ASSUME NEW L \in Nat, NEW I \in SUBSET (1 .. L), NEW i \in I, NEW i2 \in I,
           i < i2
    PROVE  KeptRank(I, i) < KeptRank(I, i2)
<1> DEFINE A == {m \in I : m <= i}
           B == {m \in I : m <= i2}
<1>1. IsFiniteSet(I)
  BY KeptFinite
<1>2. A \subseteq B /\ A # B
  <2>1. i \in Nat /\ i2 \in Nat
    OBVIOUS
  <2>2. ~(i2 <= i)
    BY <2>1
  <2>3. i2 \in B /\ i2 \notin A
    BY <2>2
  <2>4. ASSUME NEW m \in A PROVE m \in B
    <3>1. m \in I /\ m <= i /\ m \in Nat
      OBVIOUS
    <3>2. m <= i2
      BY <3>1, <2>1
    <3>3. QED
      BY <3>1, <3>2
  <2>5. QED
    BY <2>3, <2>4
<1>3. IsFiniteSet(B)
  BY <1>1, FS_Subset
<1>4. Cardinality(A) <= Cardinality(B) /\ (Cardinality(B) = Cardinality(A) => B = A)
  BY <1>2, <1>3, FS_Subset
<1>5. Cardinality(A) \in Nat /\ Cardinality(B) \in Nat
  BY <1>1, <1>3, <1>2, FS_Subset, FS_CardinalityType
<1>6. QED
  BY <1>2, <1>4, <1>5 DEF KeptRank

\* Two kept positions of the same rank are the same position.
LEMMA RankInjective ==
    ASSUME NEW L \in Nat, NEW I \in SUBSET (1 .. L), NEW a \in I, NEW b \in I,
           KeptRank(I, a) = KeptRank(I, b)
    PROVE  a = b
<1>1. KeptRank(I, a) \in 1 .. Cardinality(I) /\ KeptRank(I, b) \in 1 .. Cardinality(I)
  BY RankRange
<1>2. Cardinality(I) \in Nat
  BY KeptFinite
<1>3. ~(a < b)
  <2>1. a < b => KeptRank(I, a) < KeptRank(I, b)
    BY RankMonotone
  <2>2. QED
    BY <1>1, <1>2, <2>1
<1>4. ~(b < a)
  <2>1. b < a => KeptRank(I, b) < KeptRank(I, a)
    BY RankMonotone
  <2>2. QED
    BY <1>1, <1>2, <2>1
<1>5. a \in Nat /\ b \in Nat
  OBVIOUS
<1>6. QED
  BY <1>3, <1>4, <1>5

\* Every rank is the rank of some kept position.
LEMMA RankOnto ==
    ASSUME NEW L \in Nat, NEW I \in SUBSET (1 .. L), NEW j \in 1 .. Cardinality(I)
    PROVE  \E i \in I : KeptRank(I, i) = j
<1> DEFINE n == Cardinality(I)
           f == [i \in I |-> KeptRank(I, i)]
<1>1. IsFiniteSet(I) /\ n \in Nat
  BY KeptFinite
<1>2. IsFiniteSet(1 .. n) /\ Cardinality(1 .. n) = n
  BY <1>1, FS_Interval
<1>3. f \in [I -> 1 .. n]
  BY RankRange
<1>4. f \in Injection(I, 1 .. n)
  <2>1. ASSUME NEW a \in I, NEW b \in I, f[a] = f[b] PROVE a = b
    <3>1. KeptRank(I, a) = KeptRank(I, b)
      BY <2>1
    <3>2. QED
      BY <3>1, RankInjective
  <2>2. QED
    BY <1>3, <2>1 DEF Injection, IsInjective
<1>5. f \in Surjection(I, 1 .. n)
  BY <1>2, <1>4, FS_Injection
<1>6. QED
  BY <1>5 DEF Surjection

-----------------------------------------------------------------------------
(* The first entry with a key.                                             *)

\* An entry with key k and no entry with key k before it is the entry
\* FirstWith picks: the one strings.HasPrefix(v, "PATH=") finds first in
\* setPathFromImageConfig, and the one a program reading the environment
\* sees.
LEMMA FirstWithAt ==
    ASSUME NEW S, NEW env \in Seq(S), NEW k, NEW j \in 1 .. Len(env),
           env[j].key = k, \A m \in 1 .. j - 1 : env[m].key # k
    PROVE  FirstWith(env, k) = env[j]
<1> DEFINE P(i) == env[i].key = k /\ \A m \in 1 .. i - 1 : env[m].key # k
<1>1. ASSUME NEW i \in 1 .. Len(env), P(i) PROVE i = j
  <2>1. ~(i < j)
    BY <1>1
  <2>2. ~(j < i)
    BY <1>1
  <2>3. QED
    BY <2>1, <2>2
<1>2. P(j)
  OBVIOUS
<1>3. (CHOOSE i \in 1 .. Len(env) : P(i)) = j
  BY <1>1, <1>2
<1>4. QED
  BY <1>3 DEF FirstWith

\* A key of env has a first position.
LEMMA FirstPosition ==
    ASSUME NEW S, NEW env \in Seq(S), NEW k \in KeysOf(env)
    PROVE  \E j \in 1 .. Len(env) :
               env[j].key = k /\ \A m \in 1 .. j - 1 : env[m].key # k
<1> DEFINE T == {j \in 1 .. Len(env) : env[j].key = k}
<1>1. T \in SUBSET Nat /\ T # {}
  BY DEF KeysOf
<1>2. PICK j \in T : \A y \in T : j <= y
  BY <1>1, LeastNat
<1>3. ASSUME NEW m \in 1 .. j - 1 PROVE env[m].key # k
  <2>1. m \in 1 .. Len(env) /\ ~(j <= m)
    OBVIOUS
  <2>2. QED
    BY <1>2, <2>1
<1>4. QED
  BY <1>2, <1>3

\* The first entry with a key of env has that key and is an entry of env.
LEMMA FirstWithKey ==
    ASSUME NEW S, NEW env \in Seq(S), NEW k \in KeysOf(env)
    PROVE  FirstWith(env, k).key = k /\ FirstWith(env, k) \in S
<1>1. PICK j \in 1 .. Len(env) : env[j].key = k /\ \A m \in 1 .. j - 1 : env[m].key # k
  BY FirstPosition
<1>2. FirstWith(env, k) = env[j]
  BY <1>1, FirstWithAt
<1>3. QED
  BY <1>1, <1>2

-----------------------------------------------------------------------------
(* The image entries setEnvFromImageConfig appends.                        *)

\* The loop appends a sequence of environment entries, one per kept
\* position: the kept position of rank j gives the j-th entry, and every
\* entry appended is one of imgEnv's entries at a kept position.
LEMMA UnsetEntries ==
    ASSUME NEW s \in Seq(EnvEntry), NEW C
    PROVE  LET I == Kept(s, C)
               U == UnsetImageEnv(s, C)
           IN  /\ U \in Seq(EnvEntry)
               /\ Len(U) = Cardinality(I)
               /\ \A i \in I : U[KeptRank(I, i)] = s[i]
               /\ \A j \in 1 .. Len(U) : \E i \in I : KeptRank(I, i) = j /\ U[j] = s[i]
<1> DEFINE I == Kept(s, C)
           U == UnsetImageEnv(s, C)
           n == Cardinality(I)
           pos(j) == CHOOSE i \in I : KeptRank(I, i) = j
<1>1. Len(s) \in Nat /\ I \in SUBSET (1 .. Len(s))
  BY DEF Kept
<1>2. n \in Nat
  BY <1>1, KeptFinite
<1>3. ASSUME NEW j \in 1 .. n PROVE pos(j) \in I /\ KeptRank(I, pos(j)) = j
  <2>1. \E i \in I : KeptRank(I, i) = j
    BY <1>1, RankOnto
  <2>2. QED
    BY <2>1
<1>4. U = [j \in 1 .. n |-> s[pos(j)]]
  BY DEF UnsetImageEnv
<1>5. U \in [1 .. n -> EnvEntry]
  BY <1>1, <1>3, <1>4
<1>6. U \in Seq(EnvEntry) /\ Len(U) = n
  BY <1>2, <1>5
<1>7. ASSUME NEW i \in I PROVE U[KeptRank(I, i)] = s[i]
  <2>1. KeptRank(I, i) \in 1 .. n
    BY <1>1, RankRange
  <2>2. pos(KeptRank(I, i)) \in I /\ KeptRank(I, pos(KeptRank(I, i))) = KeptRank(I, i)
    BY <2>1, <1>3
  <2>3. pos(KeptRank(I, i)) = i
    BY <1>1, <2>2, RankInjective
  <2>4. QED
    BY <1>4, <2>1, <2>3
<1>8. ASSUME NEW j \in 1 .. Len(U) PROVE \E i \in I : KeptRank(I, i) = j /\ U[j] = s[i]
  BY <1>3, <1>4, <1>6
<1>9. QED
  BY <1>6, <1>7, <1>8

\* The loop appends exactly the image's keys that are not in containerEnv.
LEMMA UnsetKeys ==
    ASSUME NEW s \in Seq(EnvEntry), NEW C
    PROVE  KeysOf(UnsetImageEnv(s, C)) = KeysOf(s) \ C
<1> DEFINE I == Kept(s, C)
           U == UnsetImageEnv(s, C)
<1>1. /\ U \in Seq(EnvEntry)
      /\ Len(U) = Cardinality(I)
      /\ \A i \in I : U[KeptRank(I, i)] = s[i]
      /\ \A j \in 1 .. Len(U) : \E i \in I : KeptRank(I, i) = j /\ U[j] = s[i]
  BY UnsetEntries
<1>2. Len(s) \in Nat /\ I \in SUBSET (1 .. Len(s))
  BY DEF Kept
<1>3. ASSUME NEW j \in 1 .. Len(U) PROVE U[j].key \in KeysOf(s) \ C
  <2>1. PICK i \in I : U[j] = s[i]
    BY <1>1
  <2>2. QED
    BY <1>2, <2>1 DEF Kept, KeysOf
<1>4. ASSUME NEW k \in KeysOf(s) \ C PROVE k \in KeysOf(U)
  <2>1. PICK i \in 1 .. Len(s) : s[i].key = k
    BY DEF KeysOf
  <2>2. i \in I
    BY <2>1 DEF Kept
  <2>3. KeptRank(I, i) \in 1 .. Cardinality(I)
    BY <1>2, <2>2, RankRange
  <2>4. QED
    BY <1>1, <2>1, <2>2, <2>3 DEF KeysOf
<1>5. QED
  BY <1>3, <1>4 DEF KeysOf

\* For a key of imgEnv not in containerEnv, the first entry with that key
\* the loop appends is imgEnv's first entry with that key: the loop keeps
\* imgEnv's order.
LEMMA UnsetFirst ==
    ASSUME NEW s \in Seq(EnvEntry), NEW C, NEW k, k \in KeysOf(s), k \notin C
    PROVE  \E j \in 1 .. Len(UnsetImageEnv(s, C)) :
               /\ UnsetImageEnv(s, C)[j] = FirstWith(s, k)
               /\ UnsetImageEnv(s, C)[j].key = k
               /\ \A m \in 1 .. j - 1 : UnsetImageEnv(s, C)[m].key # k
<1> DEFINE I == Kept(s, C)
           U == UnsetImageEnv(s, C)
<1>1. /\ U \in Seq(EnvEntry)
      /\ Len(U) = Cardinality(I)
      /\ \A i \in I : U[KeptRank(I, i)] = s[i]
      /\ \A j \in 1 .. Len(U) : \E i \in I : KeptRank(I, i) = j /\ U[j] = s[i]
  BY UnsetEntries
<1>2. Len(s) \in Nat /\ I \in SUBSET (1 .. Len(s))
  BY DEF Kept
<1>3. PICK i0 \in 1 .. Len(s) : s[i0].key = k /\ \A m \in 1 .. i0 - 1 : s[m].key # k
  BY FirstPosition
<1>4. FirstWith(s, k) = s[i0]
  BY <1>3, FirstWithAt
<1>5. i0 \in I
  BY <1>3 DEF Kept
<1> DEFINE j0 == KeptRank(I, i0)
<1>6. j0 \in 1 .. Len(U) /\ U[j0] = s[i0]
  BY <1>1, <1>2, <1>5, RankRange
<1>7. ASSUME NEW m \in 1 .. j0 - 1 PROVE U[m].key # k
  <2>1. m \in 1 .. Len(U)
    BY <1>6
  <2>2. PICK i \in I : KeptRank(I, i) = m /\ U[m] = s[i]
    BY <1>1, <2>1
  <2>3. ~(i0 < i)
    <3>1. i0 < i => j0 < KeptRank(I, i)
      BY <1>2, <1>5, RankMonotone
    <3>2. QED
      BY <3>1, <2>2, <1>6
  <2>4. i # i0
    BY <2>2, <1>6
  <2>5. i \in 1 .. i0 - 1
    BY <1>2, <2>3, <2>4
  <2>6. QED
    BY <1>3, <2>2, <2>5
<1>8. QED
  BY <1>3, <1>4, <1>6, <1>7

\* UnsetFirst for the containerEnv of an empty user environment, {PATH}.
LEMMA UnsetFirstPath ==
    ASSUME NEW s \in Seq(EnvEntry), NEW k, k \in KeysOf(s), k # "PATH"
    PROVE  \E j \in 1 .. Len(UnsetImageEnv(s, {"PATH"})) :
               /\ UnsetImageEnv(s, {"PATH"})[j] = FirstWith(s, k)
               /\ UnsetImageEnv(s, {"PATH"})[j].key = k
               /\ \A m \in 1 .. j - 1 : UnsetImageEnv(s, {"PATH"})[m].key # k
<1>1. \A C : k \in KeysOf(s) /\ k \notin C =>
         \E j \in 1 .. Len(UnsetImageEnv(s, C)) :
               /\ UnsetImageEnv(s, C)[j] = FirstWith(s, k)
               /\ UnsetImageEnv(s, C)[j].key = k
               /\ \A m \in 1 .. j - 1 : UnsetImageEnv(s, C)[m].key # k
  BY UnsetFirst
<1>2. QED
  BY <1>1

-----------------------------------------------------------------------------
(* The environment createContainer builds.                                 *)

\* The entries of a merged environment: the image's, the default path and
\* TERM=xterm.
AnyEntry == EnvEntry \cup {DefaultPathEntry, XtermEntry}

\* The PATH entry setPathFromImageConfig appends to the empty environment
\* KubeSpecToDockerCreateSpec leaves: the image's first PATH entry, else
\* the default path.
PathEntry(s) == IF "PATH" \in KeysOf(s) THEN FirstWith(s, "PATH") ELSE DefaultPathEntry

\* What setEnvFromImageConfig puts before the image's variables: the PATH
\* entry, then TERM=xterm when a tty is asked for.
Prelude(tty, s) == IF tty THEN <<PathEntry(s), XtermEntry>> ELSE <<PathEntry(s)>>

\* The PATH entry is an environment entry with key PATH.
LEMMA PathEntryKey ==
    ASSUME NEW s \in Seq(EnvEntry)
    PROVE  PathEntry(s) \in AnyEntry /\ PathEntry(s).key = "PATH"
<1>1. CASE "PATH" \in KeysOf(s)
  <2>1. FirstWith(s, "PATH").key = "PATH" /\ FirstWith(s, "PATH") \in EnvEntry
    BY <1>1, FirstWithKey
  <2>2. QED
    BY <1>1, <2>1 DEF PathEntry, AnyEntry
<1>2. CASE "PATH" \notin KeysOf(s)
  BY <1>2 DEF PathEntry, AnyEntry, DefaultPathEntry
<1>3. QED
  BY <1>1, <1>2

\* With an empty user environment, setEnvFromImageConfig returns the
\* prelude followed by the image's entries whose key is not PATH:
\* containerEnv holds PATH alone, so the image's TERM is kept even when
\* TERM=xterm was appended.
LEMMA MergedEnvShape ==
    ASSUME NEW tty \in BOOLEAN, NEW s \in Seq(EnvEntry)
    PROVE  setEnvFromImageConfig(tty, <<>>, s) = Prelude(tty, s) \o UnsetImageEnv(s, {"PATH"})
<1>1. PathEntry(s) \in AnyEntry /\ PathEntry(s).key = "PATH"
  BY PathEntryKey
<1>2. KeysOf(<<>>) = {}
  BY DEF KeysOf
<1>3. setPathFromImageConfig(<<>>, s) = <<PathEntry(s)>>
  BY <1>2 DEF setPathFromImageConfig, PathEntry
<1>4. KeysOf(<<PathEntry(s)>>) = {"PATH"}
  BY <1>1 DEF KeysOf
<1>5. "TERM" \notin {"PATH"}
  OBVIOUS
<1>6. Append(<<PathEntry(s)>>, XtermEntry) = <<PathEntry(s), XtermEntry>>
  <2>1. <<PathEntry(s)>> \in Seq(AnyEntry) /\ XtermEntry \in AnyEntry
    BY <1>1 DEF AnyEntry
  <2>2. /\ Append(<<PathEntry(s)>>, XtermEntry) \in Seq(AnyEntry)
        /\ Len(Append(<<PathEntry(s)>>, XtermEntry)) = 2
        /\ Append(<<PathEntry(s)>>, XtermEntry)[1] = PathEntry(s)
        /\ Append(<<PathEntry(s)>>, XtermEntry)[2] = XtermEntry
    BY <2>1, AppendProperties
  <2>3. <<PathEntry(s), XtermEntry>> \in Seq(AnyEntry)
    BY <1>1 DEF AnyEntry
  <2>4. Len(<<PathEntry(s), XtermEntry>>) = 2
    OBVIOUS
  <2>5. \A i \in 1 .. Len(Append(<<PathEntry(s)>>, XtermEntry)) :
          Append(<<PathEntry(s)>>, XtermEntry)[i] = <<PathEntry(s), XtermEntry>>[i]
    BY <2>2
  <2>6. QED
    BY <2>2, <2>3, <2>4, <2>5, SeqEqual
<1>7. setEnvFromImageConfig(tty, <<>>, s) =
        (IF tty THEN Append(<<PathEntry(s)>>, XtermEntry) ELSE <<PathEntry(s)>>)
          \o UnsetImageEnv(s, {"PATH"})
  BY <1>3, <1>4, <1>5, Zenon DEF setEnvFromImageConfig
<1>8. QED
  BY <1>6, <1>7 DEF Prelude

\* The environment setEnvFromImageConfig returns for an empty user
\* environment and the image environment s.
MergedEnv(tty, s) == Prelude(tty, s) \o UnsetImageEnv(s, {"PATH"})

\* The positions of the merged environment: the PATH entry first, then
\* TERM=xterm with a tty, then the image's entries appended by the loop.
LEMMA MergedEntries ==
    ASSUME NEW tty \in BOOLEAN, NEW s \in Seq(EnvEntry)
    PROVE  /\ MergedEnv(tty, s) \in Seq(AnyEntry)
           /\ Len(Prelude(tty, s)) = (IF tty THEN 2 ELSE 1)
           /\ Len(MergedEnv(tty, s)) = Len(Prelude(tty, s)) + Len(UnsetImageEnv(s, {"PATH"}))
           /\ MergedEnv(tty, s)[1] = PathEntry(s)
           /\ tty => MergedEnv(tty, s)[2] = XtermEntry
           /\ \A j \in 1 .. Len(UnsetImageEnv(s, {"PATH"})) :
                 MergedEnv(tty, s)[Len(Prelude(tty, s)) + j] = UnsetImageEnv(s, {"PATH"})[j]
<1> DEFINE U == UnsetImageEnv(s, {"PATH"})
           P == Prelude(tty, s)
           M == P \o U
           n == Len(P)
<1>1. PathEntry(s) \in AnyEntry /\ PathEntry(s).key = "PATH"
  BY PathEntryKey
<1>2. P \in Seq(AnyEntry) /\ n = (IF tty THEN 2 ELSE 1)
      /\ P[1] = PathEntry(s) /\ (tty => P[2] = XtermEntry)
  <2>1. CASE tty
    <3>1. P = <<PathEntry(s), XtermEntry>>
      BY <2>1 DEF Prelude
    <3>2. P \in Seq(AnyEntry)
      BY <1>1, <3>1 DEF AnyEntry
    <3>3. Len(P) = 2 /\ P[1] = PathEntry(s) /\ P[2] = XtermEntry
      BY <3>1
    <3>4. QED
      BY <2>1, <3>2, <3>3
  <2>2. CASE ~tty
    <3>1. P = <<PathEntry(s)>>
      BY <2>2 DEF Prelude
    <3>2. P \in Seq(AnyEntry)
      BY <1>1, <3>1 DEF AnyEntry
    <3>3. Len(P) = 1 /\ P[1] = PathEntry(s)
      BY <3>1
    <3>4. QED
      BY <2>2, <3>2, <3>3
  <2>3. QED
    BY <2>1, <2>2
<1>3. U \in Seq(EnvEntry)
  BY UnsetEntries
<1>4. U \in Seq(AnyEntry)
  <2>1. EnvEntry \subseteq AnyEntry
    BY DEF AnyEntry
  <2>2. QED
    BY <1>3, <2>1, SeqMonotonic
<1>5. /\ M \in Seq(AnyEntry)
      /\ Len(M) = n + Len(U)
      /\ \A i \in 1 .. n + Len(U) : M[i] = IF i <= n THEN P[i] ELSE U[i - n]
  BY <1>2, <1>4, ConcatProperties
<1>6. Len(U) \in Nat
  BY <1>4, LenProperties
<1>7. \A j \in 1 .. Len(U) : M[n + j] = U[j]
  BY <1>2, <1>5, <1>6
<1>8. M[1] = PathEntry(s) /\ (tty => M[2] = XtermEntry)
  BY <1>2, <1>5, <1>6
<1>9. QED
  BY <1>2, <1>5, <1>7, <1>8 DEF MergedEnv

\* The merged environment has one PATH entry, at its head: TERM=xterm is
\* not a PATH entry, and the loop skips every image entry with key PATH
\* because containerEnv holds PATH.
LEMMA MergedPathPositions ==
    ASSUME NEW tty \in BOOLEAN, NEW s \in Seq(EnvEntry)
    PROVE  {j \in 1 .. Len(MergedEnv(tty, s)) : MergedEnv(tty, s)[j].key = "PATH"} = {1}
<1> DEFINE I == Kept(s, {"PATH"})
           U == UnsetImageEnv(s, {"PATH"})
           M == MergedEnv(tty, s)
           n == Len(Prelude(tty, s))
<1>1. /\ M \in Seq(AnyEntry)
      /\ n = (IF tty THEN 2 ELSE 1)
      /\ Len(M) = n + Len(U)
      /\ M[1] = PathEntry(s)
      /\ tty => M[2] = XtermEntry
      /\ \A j \in 1 .. Len(U) : M[n + j] = U[j]
  BY MergedEntries
<1>2. /\ Len(U) \in Nat
      /\ \A j \in 1 .. Len(U) : \E i \in I : KeptRank(I, i) = j /\ U[j] = s[i]
  BY UnsetEntries
<1>3. PathEntry(s).key = "PATH"
  BY PathEntryKey
<1>4. ASSUME NEW j \in 1 .. Len(U) PROVE M[n + j].key # "PATH"
  <2>1. PICK i \in I : U[j] = s[i]
    BY <1>2
  <2>2. s[i].key \notin {"PATH"}
    BY <2>1 DEF Kept
  <2>3. QED
    BY <1>1, <2>1, <2>2
<1>5. ASSUME NEW j \in 1 .. Len(M), M[j].key = "PATH" PROVE j = 1
  <2>1. CASE j = 2 /\ tty
    <3>1. M[j] = XtermEntry
      BY <2>1, <1>1
    <3>2. XtermEntry.key # "PATH"
      BY DEF XtermEntry
    <3>3. M[j].key = "PATH"
      BY <1>5
    <3>4. QED
      BY <3>1, <3>2, <3>3
  <2>2. CASE j > n
    <3>1. j - n \in 1 .. Len(U) /\ j = n + (j - n)
      BY <2>2, <1>1, <1>2
    <3>2. QED
      BY <3>1, <1>4, <1>5
  <2>3. QED
    BY <2>1, <2>2, <1>1, <1>2
<1>6. 1 \in 1 .. Len(M) /\ M[1].key = "PATH"
  BY <1>1, <1>2, <1>3
<1>7. QED
  BY <1>5, <1>6

\* The variables of the merged environment are those spec section 4.2
\* prescribes for an empty user environment: PATH, TERM with a tty, and
\* the image's.
LEMMA MergedKeys ==
    ASSUME NEW tty \in BOOLEAN, NEW s \in Seq(EnvEntry)
    PROVE  KeysOf(MergedEnv(tty, s)) = PolicyKeys(tty, <<>>, s)
<1> DEFINE U == UnsetImageEnv(s, {"PATH"})
           M == MergedEnv(tty, s)
           n == Len(Prelude(tty, s))
<1>1. /\ M \in Seq(AnyEntry)
      /\ n = (IF tty THEN 2 ELSE 1)
      /\ Len(M) = n + Len(U)
      /\ M[1] = PathEntry(s)
      /\ tty => M[2] = XtermEntry
      /\ \A j \in 1 .. Len(U) : M[n + j] = U[j]
  BY MergedEntries
<1>2. Len(U) \in Nat /\ U \in Seq(EnvEntry)
  BY UnsetEntries
<1>3. KeysOf(U) = KeysOf(s) \ {"PATH"}
  BY UnsetKeys
<1>4. PathEntry(s).key = "PATH" /\ XtermEntry.key = "TERM"
  BY PathEntryKey DEF XtermEntry
<1>5. KeysOf(<<>>) = {}
  BY DEF KeysOf
<1>6. ASSUME NEW j \in 1 .. Len(M)
      PROVE  M[j].key \in {"PATH"} \cup (IF tty THEN {"TERM"} ELSE {}) \cup KeysOf(U)
  <2>1. CASE j > n
    <3>1. j - n \in 1 .. Len(U) /\ j = n + (j - n)
      BY <2>1, <1>1, <1>2
    <3>2. QED
      BY <3>1, <1>1 DEF KeysOf
  <2>2. QED
    BY <2>1, <1>1, <1>2, <1>4
<1>7. "PATH" \in KeysOf(M) /\ (tty => "TERM" \in KeysOf(M))
  BY <1>1, <1>2, <1>4 DEF KeysOf
<1>8. ASSUME NEW k \in KeysOf(U) PROVE k \in KeysOf(M)
  <2>1. PICK j \in 1 .. Len(U) : U[j].key = k
    BY DEF KeysOf
  <2>2. n + j \in 1 .. Len(M) /\ M[n + j].key = k
    BY <2>1, <1>1, <1>2
  <2>3. QED
    BY <2>2 DEF KeysOf
<1>9. KeysOf(M) = {"PATH"} \cup (IF tty THEN {"TERM"} ELSE {}) \cup KeysOf(U)
  <2>1. KeysOf(M) \subseteq {"PATH"} \cup (IF tty THEN {"TERM"} ELSE {}) \cup KeysOf(U)
    BY <1>6 DEF KeysOf
  <2>2. QED
    BY <2>1, <1>7, <1>8
<1>10. QED
  BY <1>3, <1>5, <1>9 DEF PolicyKeys

\* Every variable of the merged environment reads as spec section 4.2
\* prescribes for an empty user environment: PATH the image's first PATH or
\* the default path, TERM "xterm" with a tty, any other variable the
\* image's first value.
LEMMA MergedLookup ==
    ASSUME NEW tty \in BOOLEAN, NEW s \in Seq(EnvEntry), NEW k \in KeysOf(MergedEnv(tty, s))
    PROVE  Lookup(MergedEnv(tty, s), k) = PolicyValue(tty, <<>>, s, k)
<1> DEFINE U == UnsetImageEnv(s, {"PATH"})
           M == MergedEnv(tty, s)
           n == Len(Prelude(tty, s))
<1>1. /\ M \in Seq(AnyEntry)
      /\ n = (IF tty THEN 2 ELSE 1)
      /\ Len(M) = n + Len(U)
      /\ M[1] = PathEntry(s)
      /\ tty => M[2] = XtermEntry
      /\ \A j \in 1 .. Len(U) : M[n + j] = U[j]
  BY MergedEntries
<1>2. Len(U) \in Nat /\ U \in Seq(EnvEntry)
  BY UnsetEntries
<1>3. PathEntry(s).key = "PATH" /\ XtermEntry.key = "TERM"
  BY PathEntryKey DEF XtermEntry
<1>4. KeysOf(<<>>) = {}
  BY DEF KeysOf
<1>5. CASE k = "PATH"
  <2>1. FirstWith(M, k) = M[1]
    <3>1. 1 \in 1 .. Len(M) /\ M[1].key = k /\ \A m \in 1 .. 1 - 1 : M[m].key # k
      BY <1>1, <1>2, <1>3, <1>5
    <3>2. QED
      BY <1>1, <3>1, FirstWithAt
  <2>2. Lookup(M, k) = PathEntry(s).val
    BY <1>1, <2>1 DEF Lookup
  <2>3. PolicyValue(tty, <<>>, s, k) = PathEntry(s).val
    BY <1>4, <1>5 DEF PolicyValue, PathEntry, Lookup
  <2>4. QED
    BY <2>2, <2>3
<1>6. CASE k = "TERM" /\ tty
  <2>1. FirstWith(M, k) = M[2]
    <3>1. M[2] = XtermEntry /\ Len(M) = 2 + Len(U)
      BY <1>1, <1>6
    <3>2. k = "TERM"
      BY <1>6
    <3>3. M[1].key # k
      BY <1>1, <1>3, <3>2
    <3>4. 2 \in 1 .. Len(M) /\ M[2].key = k
      BY <3>1, <3>2, <1>2, <1>3
    <3>5. \A m \in 1 .. 2 - 1 : M[m].key # k
      BY <3>3
    <3>6. QED
      BY <1>1, <3>4, <3>5, FirstWithAt
  <2>2. Lookup(M, k) = XtermEntry.val
    BY <1>1, <1>6, <2>1 DEF Lookup
  <2>3. PolicyValue(tty, <<>>, s, k) = XtermEntry.val
    BY <1>4, <1>6 DEF PolicyValue
  <2>4. QED
    BY <2>2, <2>3
<1>7. CASE k # "PATH" /\ ~(k = "TERM" /\ tty)
  <2>1. k \in KeysOf(M) /\ KeysOf(M) = PolicyKeys(tty, <<>>, s)
    BY MergedKeys
  <2>2. k \in KeysOf(s) \ {"PATH"}
    BY <2>1, <1>4, <1>7 DEF PolicyKeys
  <2>3. PICK j \in 1 .. Len(U) : /\ U[j] = FirstWith(s, k)
                                 /\ U[j].key = k
                                 /\ \A m \in 1 .. j - 1 : U[m].key # k
    <3>1. k \in KeysOf(s) /\ k # "PATH"
      BY <2>2
    <3>2. QED
      BY <3>1, UnsetFirstPath
  <2>4. n + j \in 1 .. Len(M) /\ M[n + j] = FirstWith(s, k)
    BY <1>1, <1>2, <2>3
  <2>5. ASSUME NEW m \in 1 .. n + j - 1 PROVE M[m].key # k
    <3>1. CASE m > n
      <4>1. m - n \in 1 .. j - 1 /\ m = n + (m - n) /\ m - n \in 1 .. Len(U)
        BY <3>1, <1>1, <1>2
      <4>2. QED
        BY <4>1, <1>1, <2>3
    <3>2. CASE m = 1
      BY <3>2, <1>1, <1>3, <1>7
    <3>3. CASE m = 2 /\ tty
      BY <3>3, <1>1, <1>3, <1>7
    <3>4. QED
      BY <3>1, <3>2, <3>3, <1>1, <1>2
  <2>6. FirstWith(M, k) = FirstWith(s, k)
    <3>1. M[n + j].key = k
      BY <2>3, <2>4
    <3>2. \A m \in 1 .. (n + j) - 1 : M[m].key # k
      BY <2>5
    <3>3. QED
      BY <1>1, <2>4, <3>1, <3>2, FirstWithAt
  <2>7. QED
    BY <1>4, <1>7, <2>2, <2>6 DEF Lookup, PolicyValue
<1>8. QED
  BY <1>5, <1>6, <1>7

-----------------------------------------------------------------------------
(* The config createContainer builds.                                      *)

\* The config createContainer builds for a container spec c whose image has
\* the config ic.
BuiltFor(c, ic) == setCreateConfigOptions(KubeSpecToDockerCreateSpec(c), ic)

\* The config createContainer builds for container i of the pod.
Built(i) == BuiltFor(pod[i], imageConfig[pod[i].image])

\* The config built for a container spec and an image config: the merged
\* environment, the user's command and working directory unless empty.
LEMMA BuiltConfig ==
    ASSUME NEW c \in ContainerSpec, NEW ic \in ImageConfig
    PROVE  /\ BuiltFor(c, ic).env = MergedEnv(c.tty, ic.env)
           /\ BuiltFor(c, ic).cmd = IF c.command # <<>> THEN c.command ELSE ic.cmd
           /\ BuiltFor(c, ic).workingDir =
                 IF c.workingDir # "" THEN c.workingDir ELSE ic.workingDir
           /\ BuiltFor(c, ic) # NoConfig
<1> DEFINE b == BuiltFor(c, ic)
<1>1. c.tty \in BOOLEAN /\ ic.env \in Seq(EnvEntry)
  BY DEF ContainerSpec, ImageConfig
<1>2. b.env = setEnvFromImageConfig(c.tty, <<>>, ic.env)
  BY DEF BuiltFor, setCreateConfigOptions, KubeSpecToDockerCreateSpec
<1>3. setEnvFromImageConfig(c.tty, <<>>, ic.env) = MergedEnv(c.tty, ic.env)
  BY <1>1, MergedEnvShape DEF MergedEnv
<1>4. /\ b.cmd = (IF c.command # <<>> THEN c.command ELSE ic.cmd)
      /\ b.workingDir = (IF c.workingDir # "" THEN c.workingDir ELSE ic.workingDir)
  BY DEF BuiltFor, setCreateConfigOptions, KubeSpecToDockerCreateSpec
<1>5. b # NoConfig
  <2>1. "none" \notin DOMAIN b
    BY DEF BuiltFor, setCreateConfigOptions, KubeSpecToDockerCreateSpec
  <2>2. QED
    BY <2>1 DEF NoConfig
<1>6. QED
  BY <1>2, <1>3, <1>4, <1>5

-----------------------------------------------------------------------------
(* The inductive invariant.                                                *)

\* The pod and the image store are of their types; every container
\* createContainer configured holds the config built from its spec and its
\* image's config; the containers before next were each configured or
\* logged, and those from next on are untouched: CreatePod handles each
\* container once, in order, and returns after the last.
IInv ==
    /\ pod \in Pods
    /\ imageConfig \in [Images -> ImageConfigs]
    /\ next \in 1 .. Len(pod) + 1
    /\ DOMAIN configs = 1 .. Len(pod)
    /\ \A i \in DOMAIN configs : configs[i] = NoConfig \/ configs[i] = Built(i)
    /\ logged \subseteq 1 .. Len(pod)
    /\ \A i \in 1 .. Len(pod) :
          IF i < next THEN (i \in logged) # (configs[i] # NoConfig)
          ELSE i \notin logged /\ configs[i] = NoConfig
    /\ returned => next = Len(pod) + 1

\* A container of the pod is a container spec whose image config is one of
\* the image store's.
LEMMA PodContainer ==
    ASSUME IInv, NEW i \in 1 .. Len(pod)
    PROVE  /\ pod[i] \in ContainerSpec
           /\ imageConfig[pod[i].image] \in ImageConfig
<1>1. pod \in Seq(ContainerSpec)
  BY PodsAssumption DEF IInv
<1>2. pod[i] \in ContainerSpec
  BY <1>1, ElementOfSeq
<1>3. pod[i].image \in Images
  BY <1>2 DEF ContainerSpec
<1>4. QED
  BY <1>2, <1>3, ImageConfigsAssumption DEF IInv

LEMMA InitIInv == Init => IInv
<1> SUFFICES ASSUME Init PROVE IInv
  OBVIOUS
<1>1. pod \in Seq(ContainerSpec)
  BY PodsAssumption DEF Init
<1>2. Len(pod) \in Nat
  BY <1>1, LenProperties
<1>3. QED
  BY <1>2 DEF Init, IInv

LEMMA NextIInv == IInv /\ [Next]_vars => IInv'
<1> SUFFICES ASSUME IInv, [Next]_vars PROVE IInv'
  OBVIOUS
<1>0. Len(pod) \in Nat
  <2>1. pod \in Seq(ContainerSpec)
    BY PodsAssumption DEF IInv
  <2>2. QED
    BY <2>1, LenProperties
<1>1. CASE CreateContainer
  <2>1. next \in 1 .. Len(pod)
    BY <1>1 DEF IInv, CreateContainer
  <2>2. UNCHANGED <<pod, imageConfig, returned>> /\ next' = next + 1
    BY <1>1 DEF CreateContainer
  <2>3. Built(next) # NoConfig
    <3>1. pod[next] \in ContainerSpec /\ imageConfig[pod[next].image] \in ImageConfig
      BY <2>1, PodContainer
    <3>2. BuiltFor(pod[next], imageConfig[pod[next].image]) # NoConfig
      BY <3>1, BuiltConfig
    <3>3. QED
      BY <3>2 DEF Built
  <2>4. \/ configs' = configs /\ logged' = logged \cup {next}
        \/ configs' = [configs EXCEPT ![next] = Built(next)] /\ logged' = logged
    BY <1>1 DEF CreateContainer, Built, BuiltFor, KubeSpecToDockerCreateSpec
  <2>5. \A i \in DOMAIN configs' : configs'[i] = NoConfig \/ configs'[i] = Built(i)'
    BY <2>1, <2>2, <2>4 DEF IInv, Built
  <2>6. \A i \in 1 .. Len(pod) :
          IF i < next' THEN (i \in logged') # (configs'[i] # NoConfig)
          ELSE i \notin logged' /\ configs'[i] = NoConfig
    BY <1>0, <2>1, <2>2, <2>3, <2>4 DEF IInv
  <2>7. logged' \subseteq 1 .. Len(pod') /\ DOMAIN configs' = 1 .. Len(pod')
    BY <2>1, <2>2, <2>4 DEF IInv
  <2>8. pod' \in Pods /\ imageConfig' \in [Images -> ImageConfigs]
        /\ next' \in 1 .. Len(pod') + 1
    BY <1>0, <2>1, <2>2 DEF IInv
  <2>9. returned' => next' = Len(pod') + 1
    BY <1>0, <2>1, <2>2 DEF IInv
  <2>10. QED
    BY <2>2, <2>5, <2>6, <2>7, <2>8, <2>9 DEF IInv
<1>2. CASE CreatePodReturn
  BY <1>2 DEF CreatePodReturn, IInv, Built
<1>3. CASE UNCHANGED vars
  BY <1>3 DEF vars, IInv, Built
<1>4. QED
  BY <1>1, <1>2, <1>3 DEF Next

\* The merged environment of every configured container has exactly one
\* PATH entry (OnePathEntry), whatever the image's environment holds.
LEMMA IInvOnePath == IInv => OnePathEntry
<1> SUFFICES ASSUME IInv, NEW i \in Configured
             PROVE  Cardinality({j \in 1 .. Len(configs[i].env) : configs[i].env[j].key = "PATH"}) = 1
  BY DEF OnePathEntry
<1>1. i \in 1 .. Len(pod) /\ configs[i] = Built(i)
  BY DEF IInv, Configured
<1>2. pod[i] \in ContainerSpec /\ imageConfig[pod[i].image] \in ImageConfig
  BY <1>1, PodContainer
<1>3. configs[i].env = MergedEnv(pod[i].tty, imageConfig[pod[i].image].env)
  <2>1. BuiltFor(pod[i], imageConfig[pod[i].image]).env =
          MergedEnv(pod[i].tty, imageConfig[pod[i].image].env)
    BY <1>2, BuiltConfig
  <2>2. QED
    BY <1>1, <2>1 DEF Built
<1>4. pod[i].tty \in BOOLEAN /\ imageConfig[pod[i].image].env \in Seq(EnvEntry)
  BY <1>2 DEF ContainerSpec, ImageConfig
<1>5. {j \in 1 .. Len(configs[i].env) : configs[i].env[j].key = "PATH"} = {1}
  BY <1>3, <1>4, MergedPathPositions
<1>6. QED
  BY <1>5, FS_Singleton

\* Spec section 8 for every pod and image store: every environment
\* createContainer resolves holds exactly one PATH entry.
THEOREM OnePathEntryThm == Spec => []OnePathEntry
<1>1. Init => IInv
  BY InitIInv
<1>2. IInv /\ [Next]_vars => IInv'
  BY NextIInv
<1>3. IInv => OnePathEntry
  BY IInvOnePath
<1>4. QED
  BY <1>1, <1>2, <1>3, PTL DEF Spec

\* Every configured container's environment, command and working
\* directory are those spec section 4.2 prescribes (MergedAsSpecified).
LEMMA IInvMerged == IInv => MergedAsSpecified
<1> SUFFICES ASSUME IInv, NEW i \in Configured
             PROVE  LET user == KubeSpecToDockerCreateSpec(pod[i])
                        img  == imageConfig[user.image]
                        env  == configs[i].env
                    IN  /\ KeysOf(env) = PolicyKeys(user.tty, user.env, img.env)
                        /\ \A k \in KeysOf(env) :
                              Lookup(env, k) = PolicyValue(user.tty, user.env, img.env, k)
                        /\ configs[i].cmd = IF pod[i].command # <<>> THEN pod[i].command ELSE img.cmd
                        /\ configs[i].workingDir =
                              IF pod[i].workingDir # "" THEN pod[i].workingDir ELSE img.workingDir
  BY DEF MergedAsSpecified
<1> DEFINE c  == pod[i]
           ic == imageConfig[pod[i].image]
<1>1. i \in 1 .. Len(pod) /\ configs[i] = Built(i)
  BY DEF IInv, Configured
<1>2. c \in ContainerSpec /\ ic \in ImageConfig
  BY <1>1, PodContainer
<1>3. /\ BuiltFor(c, ic).env = MergedEnv(c.tty, ic.env)
      /\ BuiltFor(c, ic).cmd = IF c.command # <<>> THEN c.command ELSE ic.cmd
      /\ BuiltFor(c, ic).workingDir =
            IF c.workingDir # "" THEN c.workingDir ELSE ic.workingDir
  BY <1>2, BuiltConfig
<1>4. configs[i] = BuiltFor(c, ic)
  BY <1>1 DEF Built
<1>5. /\ KubeSpecToDockerCreateSpec(c).tty = c.tty
      /\ KubeSpecToDockerCreateSpec(c).env = <<>>
      /\ KubeSpecToDockerCreateSpec(c).image = c.image
  BY DEF KubeSpecToDockerCreateSpec
<1>6. c.tty \in BOOLEAN /\ ic.env \in Seq(EnvEntry)
  BY <1>2 DEF ContainerSpec, ImageConfig
<1>7. KeysOf(MergedEnv(c.tty, ic.env)) = PolicyKeys(c.tty, <<>>, ic.env)
  BY <1>6, MergedKeys
<1>8. \A k \in KeysOf(MergedEnv(c.tty, ic.env)) :
         Lookup(MergedEnv(c.tty, ic.env), k) = PolicyValue(c.tty, <<>>, ic.env, k)
  BY <1>6, MergedLookup
<1>9. QED
  BY <1>3, <1>4, <1>5, <1>7, <1>8

\* Spec section 4.2 for every pod and image store: createContainer merges
\* the image's defaults into every container's config as the policy
\* prescribes.
THEOREM MergedAsSpecifiedThm == Spec => []MergedAsSpecified
<1>1. Init => IInv
  BY InitIInv
<1>2. IInv /\ [Next]_vars => IInv'
  BY NextIInv
<1>3. IInv => MergedAsSpecified
  BY IInvMerged
<1>4. QED
  BY <1>1, <1>2, <1>3, PTL DEF Spec

\* When CreatePod has returned, every container was configured or its
\* failure logged, and not both (FailuresLogged).
LEMMA IInvFailuresLogged == IInv => FailuresLogged
<1> SUFFICES ASSUME IInv, returned, NEW i \in 1 .. Len(pod)
             PROVE  (i \in logged) # (i \in Configured)
  BY DEF FailuresLogged
<1>1. i < next
  BY DEF IInv
<1>2. (i \in logged) # (configs[i] # NoConfig)
  BY <1>1 DEF IInv
<1>3. (i \in Configured) = (configs[i] # NoConfig)
  BY DEF IInv, Configured
<1>4. QED
  BY <1>2, <1>3

\* CreatePod's loop loses no container silently, for every pod and image
\* store: when it returns nil, each container was either configured or
\* its failure logged.
THEOREM FailuresLoggedThm == Spec => []FailuresLogged
<1>1. Init => IInv
  BY InitIInv
<1>2. IInv /\ [Next]_vars => IInv'
  BY NextIInv
<1>3. IInv => FailuresLogged
  BY IInvFailuresLogged
<1>4. QED
  BY <1>1, <1>2, <1>3, PTL DEF Spec

=============================================================================
