--------------------------- MODULE Bernstein_proofs ---------------------------
(***************************************************************************)
(* Theorems about the Bernstein layer.  The audit log is honest: a chain   *)
(* that verifies has no gap inside a session, and no chain fails to verify *)
(* whose writes all returned.  Runs keep the worktrees they work in, leave *)
(* none behind and give their count back, unless others interfere.  The    *)
(* ticks fire a schedule for its windows in order, whatever is registered, *)
(* unregistered or ticked meanwhile.                                       *)
(***************************************************************************)
EXTENDS BernsteinRuns, ScheduleTicks, Integers, FiniteSetTheorems, SequenceTheorems, WellFoundedInduction, TLAPS

\* A set of numbers that is not empty has a least member: the intervals up to
\* them are ordered by inclusion.
LEMMA LeastExists ==
    ASSUME NEW T, T \subseteq Nat, T # {}
    PROVE  \E x \in T : \A y \in T : x <= y
<1> DEFINE B == {0 .. x : x \in T}
<1>1. \A x \in T : 0 .. x \in FiniteSubsetsOf(Nat)
  <2> SUFFICES ASSUME NEW x \in T PROVE 0 .. x \in SUBSET Nat /\ IsFiniteSet(0 .. x)
    BY DEF FiniteSubsetsOf
  <2>1. IsFiniteSet(0 .. x)
    BY FS_Interval
  <2> QED BY <2>1
<1>2. B \subseteq FiniteSubsetsOf(Nat) /\ B # {}
  BY <1>1
<1>3. PICK b \in B : \A c \in B : ~(<<c, b>> \in StrictSubsetOrdering(Nat))
  <2> HIDE DEF B
  <2> QED BY <1>2, WFMin, FS_StrictSubsetOrderingWellFounded
<1>4. PICK x \in T : b = 0 .. x
  OBVIOUS
<1>5. ASSUME NEW y \in T, y < x PROVE FALSE
  <2>1. 0 .. y \in B
    OBVIOUS
  <2>2. 0 .. y # 0 .. x /\ 0 .. y \subseteq 0 .. x
    BY <1>5
  <2>3. 0 .. y \in SUBSET Nat /\ 0 .. x \in SUBSET Nat
    OBVIOUS
  <2> QED BY <2>1, <2>2, <2>3, <1>3, <1>4 DEF StrictSubsetOrdering
<1> QED BY <1>5

\* A set of numbers up to a bound that is not empty has a greatest member.
LEMMA GreatestExists ==
    ASSUME NEW n \in Nat, NEW T \in SUBSET (0 .. n), T # {}
    PROVE  \E x \in T : \A y \in T : y <= x
<1> DEFINE U == {n - x : x \in T}
<1>1. U \subseteq Nat
  <2> SUFFICES ASSUME NEW x \in T PROVE n - x \in Nat
    OBVIOUS
  <2>1. x \in Int /\ x <= n
    OBVIOUS
  <2> QED BY <2>1
<1>2. U # {}
  OBVIOUS
<1>3. PICK u \in U : \A v \in U : u <= v
  <2> HIDE DEF U
  <2> QED BY <1>1, <1>2, LeastExists
<1>4. PICK x \in T : u = n - x
  OBVIOUS
<1>5. ASSUME NEW y \in T PROVE y <= x
  <2>1. n - x <= n - y
    BY <1>3, <1>4
  <2>2. x \in Int /\ y \in Int
    OBVIOUS
  <2> QED BY <2>1, <2>2
<1> QED BY <1>5

------------------------------------------------------------------------------
(***************************************************************************)
(* The audit log.                                                          *)
(***************************************************************************)
\* Sessions follow each other in the order of the records, a record names the
\* one before it if both are of one session, and the log still knows the hash
\* of the last record of this session.
SessionsInOrder ==
    \A i, j \in DOMAIN signedIn : i < j => signedIn[i] <= signedIn[j]
Linked ==
    \A k \in Parsed :
        /\ lines[k].nr <= Len(signedIn)
        /\ LET n == lines[k].nr
           IN n > 1 /\ signedIn[n - 1] = signedIn[n] => lines[k].prev = n - 1
HashKept ==
    Len(signedIn) > 0 /\ signedIn[Len(signedIn)] = session => lastHash = Len(signedIn)

\* As long as no write has raised, the file is the record of all that was signed.
Complete ==
    raised = 0 =>
        /\ ended
        /\ Len(lines) = Len(signedIn) /\ lastHash = Len(signedIn)
        /\ \A k \in DOMAIN lines : lines[k] # Corrupt /\ lines[k].nr = k /\ lines[k].prev = k - 1

NotLater == \A i \in DOMAIN signedIn : signedIn[i] <= session

AuditInv == AuditTypeOK /\ SessionsInOrder /\ NotLater /\ Linked /\ HashKept /\ Complete

\* What the hash of the last of some lines is.
LEMMA HashOfLastIs ==
    ASSUME AuditTypeOK, NEW K \in SUBSET Parsed
    PROVE  /\ K = {} => HashOfLast(K) = 0
           /\ K # {} => \E k \in K : (\A j \in K : j <= k) /\ HashOfLast(K) = lines[k].nr
           /\ HashOfLast(K) \in Nat
<1>1. K = {} => HashOfLast(K) = 0
  BY DEF HashOfLast
<1>2. ASSUME K # {}
      PROVE  \E k \in K : (\A j \in K : j <= k) /\ HashOfLast(K) = lines[k].nr
  <2>1. Len(lines) \in Nat /\ K \in SUBSET (0 .. Len(lines))
    BY DEF AuditTypeOK, Parsed
  <2>2. \E k \in K : \A j \in K : j <= k
    BY <1>2, <2>1, GreatestExists
  <2> QED BY <1>2, <2>2 DEF HashOfLast
<1>3. \A k \in K : lines[k].nr \in Nat
  BY DEF AuditTypeOK, Parsed, AuditRecord
<1> QED BY <1>1, <1>2, <1>3

LEMMA AuditStarts == AuditInit => AuditInv
BY AuditAssumption DEF AuditInit, AuditInv, AuditTypeOK, SessionsInOrder, NotLater, Linked, HashKept,
     Complete, Parsed

\* The next record, and what a line written to the file adds to it.
LEMMA SignedFacts ==
    ASSUME AuditInv
    PROVE  /\ Signed \in AuditRecord /\ Signed # Corrupt
           /\ Signed.nr = Len(signedIn) + 1 /\ Signed.prev = lastHash
BY AuditAssumption DEF AuditInv, AuditTypeOK, Signed, AuditRecord

LEMMA WrittenFacts ==
    ASSUME AuditInv, NEW line \in AuditRecord \cup {Corrupt}
    PROVE  /\ Written(line) \in Seq(AuditRecord \cup {Corrupt}) /\ Written(line) # <<>>
           /\ \A k \in DOMAIN Written(line) :
                 \/ Written(line)[k] = Corrupt \/ Written(line)[k] = line
                 \/ k \in DOMAIN lines /\ Written(line)[k] = lines[k]
           /\ ended => Written(line) = Append(lines, line)
<1> USE DEF AuditInv, AuditTypeOK
<1>1. CASE ended
  BY <1>1 DEF Written
<1>2. CASE ~ended
  <2>1. Len(lines) \in 1 .. Len(lines)
    BY <1>2
  <2> QED BY <1>2, <2>1 DEF Written
<1> QED BY <1>1, <1>2

\* Signing a record and writing it, a part of it or nothing keeps all but
\* Complete.
LEMMA ChainedStep ==
    ASSUME AuditInv, Chained, lines' \in Seq(AuditRecord \cup {Corrupt}),
           \A k \in DOMAIN lines' : \/ lines'[k] = Corrupt \/ lines'[k] = Signed
                                    \/ k \in DOMAIN lines /\ lines'[k] = lines[k]
    PROVE  /\ signedIn' \in Seq(1 .. MaxSessions) /\ lastHash' \in Nat /\ session' = session
           /\ SessionsInOrder' /\ NotLater' /\ Linked' /\ HashKept'
<1>1. /\ signedIn' = Append(signedIn, session) /\ session' = session
      /\ lastHash' = Len(signedIn) + 1
  BY SignedFacts DEF Chained
<1>2. signedIn \in Seq(1 .. MaxSessions) /\ session \in 1 .. MaxSessions /\ MaxSessions \in Nat
  BY AuditAssumption DEF AuditInv, AuditTypeOK
<1>3. /\ signedIn' \in Seq(1 .. MaxSessions) /\ Len(signedIn') = Len(signedIn) + 1
      /\ \A i \in 1 .. Len(signedIn) : signedIn'[i] = signedIn[i]
      /\ signedIn'[Len(signedIn) + 1] = session
  BY <1>1, <1>2
<1>4. SessionsInOrder' /\ NotLater'
  BY <1>1, <1>2, <1>3 DEF AuditInv, SessionsInOrder, NotLater
<1>5. HashKept'
  BY <1>1, <1>2, <1>3 DEF HashKept
<1>6. Linked'
  <2> SUFFICES ASSUME NEW k \in Parsed'
               PROVE  /\ lines'[k].nr <= Len(signedIn')
                      /\ lines'[k].nr > 1 /\ signedIn'[lines'[k].nr - 1] = signedIn'[lines'[k].nr]
                            => lines'[k].prev = lines'[k].nr - 1
    BY DEF Linked
  <2>1. CASE lines'[k] = Signed
    <3>1. lines'[k].nr = Len(signedIn) + 1 /\ lines'[k].prev = lastHash
      BY <2>1, SignedFacts
    <3>2. Len(signedIn) > 0 /\ signedIn[Len(signedIn)] = session => lastHash = Len(signedIn)
      BY DEF AuditInv, HashKept
    <3> QED BY <3>1, <3>2, <1>2, <1>3
  <2>2. CASE lines'[k] # Signed
    <3>1. k \in DOMAIN lines /\ lines'[k] = lines[k] /\ k \in Parsed
      BY <2>2 DEF Parsed
    <3>2. lines[k].nr \in Nat \ {0}
      BY <3>1 DEF AuditInv, AuditTypeOK, Parsed, AuditRecord
    <3>3. /\ lines[k].nr <= Len(signedIn)
          /\ lines[k].nr > 1 /\ signedIn[lines[k].nr - 1] = signedIn[lines[k].nr]
                => lines[k].prev = lines[k].nr - 1
      BY <3>1 DEF AuditInv, Linked
    <3>4. /\ signedIn'[lines[k].nr] = signedIn[lines[k].nr]
          /\ lines[k].nr > 1 => signedIn'[lines[k].nr - 1] = signedIn[lines[k].nr - 1]
      <4>1. lines[k].nr \in 1 .. Len(signedIn)
        BY <3>2, <3>3, <1>2
      <4>2. lines[k].nr > 1 => lines[k].nr - 1 \in 1 .. Len(signedIn)
        BY <4>1, <1>2
      <4> QED BY <4>1, <4>2, <1>3
    <3>5. lines[k].nr <= Len(signedIn')
      BY <3>2, <3>3, <1>2, <1>3
    <3> QED BY <3>1, <3>3, <3>4, <3>5
  <2> QED BY <2>1, <2>2
<1> QED BY <1>1, <1>2, <1>3, <1>4, <1>5, <1>6

LEMMA AuditSteps == AuditInv /\ [AuditNext]_auditVars => AuditInv'
<1> SUFFICES ASSUME AuditInv, [AuditNext]_auditVars PROVE AuditInv'
  OBVIOUS
<1>1. CASE LogDecision
  <2>1. Chained /\ lines' = Written(Signed) /\ ended' = TRUE /\ raised' = raised
    BY <1>1 DEF LogDecision
  <2>2. /\ lines' \in Seq(AuditRecord \cup {Corrupt}) /\ lines' # <<>>
        /\ \A k \in DOMAIN lines' : \/ lines'[k] = Corrupt \/ lines'[k] = Signed
                                    \/ k \in DOMAIN lines /\ lines'[k] = lines[k]
    BY <2>1, SignedFacts, WrittenFacts
  <2>3. /\ signedIn' \in Seq(1 .. MaxSessions) /\ lastHash' \in Nat /\ session' = session
        /\ SessionsInOrder' /\ NotLater' /\ Linked' /\ HashKept'
    BY <2>1, <2>2, ChainedStep
  <2>4. AuditTypeOK'
    BY <2>1, <2>2, <2>3 DEF AuditInv, AuditTypeOK
  <2>5. Complete'
    <3> SUFFICES ASSUME raised = 0
                 PROVE  /\ Len(lines') = Len(signedIn') /\ lastHash' = Len(signedIn')
                        /\ \A k \in DOMAIN lines' : /\ lines'[k] # Corrupt /\ lines'[k].nr = k
                                                    /\ lines'[k].prev = k - 1
      BY <2>1 DEF Complete
    <3>1. lines' = Append(lines, Signed)
      BY <2>1, WrittenFacts, SignedFacts DEF AuditInv, Complete
    <3>2. /\ Len(lines) = Len(signedIn) /\ lastHash = Len(signedIn)
          /\ \A k \in DOMAIN lines : lines[k] # Corrupt /\ lines[k].nr = k /\ lines[k].prev = k - 1
      BY DEF AuditInv, Complete
    <3>3. signedIn' = Append(signedIn, session) /\ lastHash' = Len(signedIn) + 1
      BY <2>1, SignedFacts DEF Chained
    <3>4. lines \in Seq(AuditRecord \cup {Corrupt}) /\ signedIn \in Seq(1 .. MaxSessions)
      BY DEF AuditInv, AuditTypeOK
    <3> QED BY <3>1, <3>2, <3>3, <3>4, SignedFacts
  <2> QED BY <2>3, <2>4, <2>5 DEF AuditInv
<1>2. CASE LogRaises
  <2>1. Chained /\ raised < MaxRaised /\ raised' = raised + 1
    BY <1>2 DEF LogRaises, PersistRaises
  <2>2. /\ lines' \in Seq(AuditRecord \cup {Corrupt}) /\ ended' \in BOOLEAN /\ (lines' = <<>> => ended')
        /\ \A k \in DOMAIN lines' : \/ lines'[k] = Corrupt \/ lines'[k] = Signed
                                    \/ k \in DOMAIN lines /\ lines'[k] = lines[k]
    <3>1. CASE UNCHANGED <<lines, ended>>
      BY <3>1 DEF AuditInv, AuditTypeOK
    <3>2. CASE lines' = Written(Corrupt) /\ ended' = FALSE
      BY <3>2, WrittenFacts
    <3>3. CASE lines' = Written(Signed) /\ ended' \in BOOLEAN
      BY <3>3, WrittenFacts, SignedFacts
    <3> QED BY <1>2, <3>1, <3>2, <3>3 DEF LogRaises, PersistRaises
  <2>3. /\ signedIn' \in Seq(1 .. MaxSessions) /\ lastHash' \in Nat /\ session' = session
        /\ SessionsInOrder' /\ NotLater' /\ Linked' /\ HashKept'
    BY <2>1, <2>2, ChainedStep
  <2>4. raised' \in 0 .. MaxRaised /\ raised' # 0
    BY <2>1, AuditAssumption DEF AuditInv, AuditTypeOK
  <2> QED BY <2>2, <2>3, <2>4 DEF AuditInv, AuditTypeOK, Complete
<1>3. CASE Reload
  <2>1. /\ session < MaxSessions /\ session' = session + 1 /\ lastHash' = HashOfLast(Parsed)
        /\ UNCHANGED <<lines, ended, signedIn, raised>>
    BY <1>3 DEF Reload
  <2>2. lastHash' \in Nat
    BY <2>1, HashOfLastIs DEF AuditInv
  <2>3. AuditTypeOK'
    BY <2>1, <2>2, AuditAssumption DEF AuditInv, AuditTypeOK
  <2>4. SessionsInOrder' /\ Linked'
    BY <2>1 DEF AuditInv, SessionsInOrder, Linked, Parsed
  <2>5. NotLater' /\ HashKept'
    <3>1. signedIn \in Seq(1 .. MaxSessions) /\ session \in Nat
      BY AuditAssumption DEF AuditInv, AuditTypeOK
    <3>2. \A i \in DOMAIN signedIn : signedIn[i] \in Nat /\ signedIn[i] <= session
      <4>1. \A i \in DOMAIN signedIn : signedIn[i] <= session
        BY DEF AuditInv, NotLater
      <4>2. ASSUME NEW i \in DOMAIN signedIn PROVE signedIn[i] \in Nat
        <5>1. signedIn \in [1 .. Len(signedIn) -> 1 .. MaxSessions]
          BY <3>1, LenProperties
        <5>2. signedIn[i] \in 1 .. MaxSessions
          BY <5>1
        <5> QED BY <5>2
      <4> QED BY <4>1, <4>2
    <3>3. \A i \in DOMAIN signedIn : signedIn[i] <= session + 1 /\ signedIn[i] # session + 1
      BY <3>1, <3>2
    <3>4. Len(signedIn) > 0 => Len(signedIn) \in DOMAIN signedIn
      BY <3>1
    <3> QED BY <2>1, <3>3, <3>4 DEF NotLater, HashKept
  <2>6. ASSUME raised = 0 PROVE lastHash' = Len(signedIn)
    <3>1. /\ lines \in Seq(AuditRecord \cup {Corrupt}) /\ Len(lines) = Len(signedIn)
          /\ \A k \in DOMAIN lines : lines[k] # Corrupt /\ lines[k].nr = k
      BY <2>6 DEF AuditInv, AuditTypeOK, Complete
    <3>2. Parsed = 1 .. Len(lines)
      BY <3>1 DEF Parsed
    <3>3. CASE Len(lines) = 0
      <4>1. Parsed = {}
        BY <3>2, <3>3
      <4> QED BY <4>1, <3>1, <3>3, <2>1, HashOfLastIs DEF AuditInv
    <3>4. CASE Len(lines) # 0
      <4>1. PICK k \in Parsed : (\A j \in Parsed : j <= k) /\ HashOfLast(Parsed) = lines[k].nr
        BY <3>1, <3>2, <3>4, HashOfLastIs DEF AuditInv
      <4>2. k = Len(lines)
        <5>1. Len(lines) \in Nat /\ Len(lines) \in Parsed
          BY <3>1, <3>2, <3>4
        <5>2. k \in Nat /\ k <= Len(lines)
          BY <3>2, <5>1
        <5> QED BY <4>1, <5>1, <5>2
      <4> QED BY <4>1, <4>2, <3>1, <3>2, <2>1
    <3> QED BY <3>3, <3>4
  <2>7. Complete'
    BY <2>1, <2>6 DEF AuditInv, Complete
  <2> QED BY <2>3, <2>4, <2>5, <2>7 DEF AuditInv
<1>4. CASE UNCHANGED auditVars
  BY <1>4 DEF auditVars, AuditInv, AuditTypeOK, SessionsInOrder, NotLater, Linked, HashKept, Complete, Parsed
<1> QED BY <1>1, <1>2, <1>3, <1>4 DEF AuditNext

------------------------------------------------------------------------------
\* A line with a line before it that parses names that one in a valid chain.
LEMMA NamesTheOneBefore ==
    ASSUME AuditInv, Valid, NEW k \in Parsed, lines[k].prev # 0
    PROVE  lines[k].prev \in Present
<1>1. Before(k) \in SUBSET Parsed
  BY DEF Before
<1>2. lines[k].prev = HashOfLast(Before(k))
  BY DEF Valid
<1> QED BY <1>1, <1>2, HashOfLastIs DEF AuditInv, Present

\* The least record present behind a missing one of its session would have to
\* name it.
LEMMA NoGap == AuditInv => GapsNoticed
<1> SUFFICES ASSUME AuditInv, Valid, NEW n \in Present, NEW m \in DOMAIN signedIn,
                    m < n, signedIn[m] = signedIn[n], m \notin Present
             PROVE  FALSE
  BY DEF GapsNoticed
<1>1. /\ signedIn \in Seq(1 .. MaxSessions) /\ m \in Nat /\ m >= 1 /\ MaxSessions \in Nat
      /\ \A p \in Present : p \in Nat \ {0} /\ p <= Len(signedIn)
  BY AuditAssumption DEF AuditInv, AuditTypeOK, Present, Parsed, AuditRecord, Linked
<1> DEFINE Behind == {p \in Present : m < p /\ signedIn[p] = signedIn[m]}
<1>2. PICK p \in Behind : \A q \in Behind : p <= q
  <2>1. Behind \subseteq Nat /\ n \in Behind
    BY <1>1
  <2> HIDE DEF Behind
  <2> QED BY <2>1, LeastExists
<1>3. PICK k \in Parsed : lines[k].nr = p
  BY DEF Present
<1>4. signedIn[p - 1] = signedIn[p]
  <2>1. p - 1 \in DOMAIN signedIn /\ p \in DOMAIN signedIn /\ m \in DOMAIN signedIn
    BY <1>1, <1>2
  <2>2. signedIn[m] <= signedIn[p - 1] /\ signedIn[p - 1] <= signedIn[p] /\ signedIn[p] = signedIn[m]
    <3>1. CASE m = p - 1
      BY <3>1, <2>1, <1>1, <1>2 DEF AuditInv, SessionsInOrder
    <3>2. CASE m # p - 1
      BY <3>2, <2>1, <1>1, <1>2 DEF AuditInv, SessionsInOrder
    <3> QED BY <3>1, <3>2
  <2>3. signedIn[p] \in Int /\ signedIn[p - 1] \in Int
    BY <2>1, <1>1
  <2> QED BY <2>2, <2>3
<1>5. lines[k].prev = p - 1 /\ p > 1
  BY <1>1, <1>2, <1>3, <1>4 DEF AuditInv, Linked
<1>6. p - 1 \in Present
  BY <1>1, <1>2, <1>5, NamesTheOneBefore
<1>7. p - 1 # m
  BY <1>6
<1>8. p - 1 \in Behind /\ p - 1 < p
  BY <1>1, <1>2, <1>4, <1>6, <1>7
<1> QED BY <1>1, <1>2, <1>8

LEMMA NoAlarm == AuditInv => NoFalseAlarm
<1> SUFFICES ASSUME AuditInv, raised = 0 PROVE Valid /\ Present = DOMAIN signedIn
  BY DEF NoFalseAlarm
<1>1. /\ lines \in Seq(AuditRecord \cup {Corrupt}) /\ Len(lines) = Len(signedIn)
      /\ signedIn \in Seq(1 .. MaxSessions)
      /\ \A k \in DOMAIN lines : lines[k] # Corrupt /\ lines[k].nr = k /\ lines[k].prev = k - 1
  BY DEF AuditInv, AuditTypeOK, Complete
<1>2. Parsed = 1 .. Len(lines)
  BY <1>1 DEF Parsed
<1>3. Present = DOMAIN signedIn
  BY <1>1, <1>2 DEF Present
<1>4. ASSUME NEW k \in Parsed PROVE lines[k].prev = HashOfLast(Before(k))
  <2>1. k \in 1 .. Len(lines) /\ Before(k) \in SUBSET Parsed /\ Before(k) = 1 .. k - 1
    BY <1>1, <1>2 DEF Before
  <2>2. CASE k = 1
    <3>1. Before(k) = {}
      BY <2>1, <2>2
    <3> QED BY <3>1, <2>1, <2>2, <1>1, HashOfLastIs DEF AuditInv
  <2>3. CASE k # 1
    <3>1. k - 1 \in Before(k)
      BY <2>1, <2>3, <1>1
    <3>2. PICK j \in Before(k) : (\A i \in Before(k) : i <= j) /\ HashOfLast(Before(k)) = lines[j].nr
      BY <3>1, <2>1, HashOfLastIs DEF AuditInv
    <3>3. j = k - 1
      <4>1. j \in Nat /\ j <= k - 1 /\ k \in Nat
        BY <2>1, <1>1
      <4> QED BY <3>1, <3>2, <4>1
    <3> QED BY <3>2, <3>3, <2>1, <1>1
  <2> QED BY <2>2, <2>3
<1> QED BY <1>3, <1>4 DEF Valid

------------------------------------------------------------------------------
\* Every reachable state of the log is well typed.
THEOREM AuditTypeCorrect == AuditSpec => []AuditTypeOK
<1>1. AuditInv => AuditTypeOK
  BY DEF AuditInv
<1> QED BY <1>1, AuditStarts, AuditSteps, PTL DEF AuditSpec

\* The log is honest: however writes raise and processes end, a chain that
\* verifies has no gap in a session, and one whose writes all returned verifies.
THEOREM ChainIsHonest == AuditSpec => []ChainHonest
<1>1. AuditInv => ChainHonest
  BY NoGap, NoAlarm DEF ChainHonest
<1> QED BY <1>1, AuditStarts, AuditSteps, PTL DEF AuditSpec

------------------------------------------------------------------------------
(***************************************************************************)
(* The runs and their worktrees.                                           *)
(***************************************************************************)
Elements(q) == {q[k] : k \in DOMAIN q}
RunState == [at : Place, todo : Seq(TaskId), spawned : SUBSET TaskId, passed : SUBSET TaskId]

\* What is left to a run are tasks of its own, each once.
Proper(r, x) ==
    /\ x \in RunState
    /\ x.todo # <<>>
    /\ \A j, k \in DOMAIN x.todo : x.todo[j] = x.todo[k] => j = k
    /\ Elements(x.todo) \subseteq Elements(Tasks[r])
    /\ x.spawned \subseteq Elements(Tasks[r])
AllProper == \A r \in Run : Proper(r, run[r])
BeforeFresh == \A r \in Run : At(r, "before") => overlapped[r] = {} /\ r \notin marred /\ run[r].spawned = {}

\* Runs beside each other know of it, and one alone has its own spawner.
BesideNamed == \A r, s \in Running : r # s => s \in overlapped[r]
SpawnerOwn == \A r \in Running : overlapped[r] = {} => spawner = r
SpawnerMade == Running # {} => spawner \in Run

\* The trees a run works in: those it keeps, and the one just made.
Works(r, t) == t \in run[r].spawned \ Removed(r) \/ (At(r, "spawned") /\ t = Current(r))
TrackedByTask == \A s \in Run, t \in TaskId : tracked[s][t] # None => tracked[s][t].task = t
WorkKept ==
    \A r \in Running, t \in TaskId :
        Works(r, t) => [by |-> r, task |-> t] \in trees \/ Rivals(r, t) # {}

\* The trees of a run that is alone are those it works in.
Alone(r) == overlapped[r] = {} /\ r \notin marred
TreesOwned ==
    \A tree \in trees :
        Alone(tree.by) => /\ tree.by \in Running
                          /\ tracked[tree.by][tree.task] = tree
                          /\ Works(tree.by, tree.task)

RunsInv ==
    /\ AuditInv /\ RunsTypeOK
    /\ AllProper /\ BeforeFresh
    /\ BesideNamed /\ SpawnerOwn /\ SpawnerMade
    /\ TrackedByTask /\ WorkKept /\ TreesOwned

LEMMA TasksFacts ==
    ASSUME NEW r \in Run
    PROVE  Tasks[r] \in Seq(TaskId) /\ Tasks[r] # <<>>
BY RunsAssumption

LEMMA TailFacts ==
    ASSUME NEW S, NEW q \in Seq(S), q # <<>>, \A j, k \in DOMAIN q : q[j] = q[k] => j = k
    PROVE  /\ Head(q) \in Elements(q)
           /\ Tail(q) \in Seq(S)
           /\ \A j, k \in DOMAIN Tail(q) : Tail(q)[j] = Tail(q)[k] => j = k
           /\ Elements(Tail(q)) = Elements(q) \ {Head(q)}
<1>1. /\ Len(q) \in Nat /\ Len(q) >= 1 /\ Head(q) = q[1] /\ Tail(q) \in Seq(S)
      /\ Len(Tail(q)) = Len(q) - 1 /\ \A k \in 1 .. Len(q) - 1 : Tail(q)[k] = q[k + 1]
  OBVIOUS
<1>2. DOMAIN q = 1 .. Len(q) /\ DOMAIN Tail(q) = 1 .. Len(q) - 1
  BY <1>1
<1>3. \A j, k \in DOMAIN Tail(q) : Tail(q)[j] = Tail(q)[k] => j = k
  <2> SUFFICES ASSUME NEW j \in 1 .. Len(q) - 1, NEW k \in 1 .. Len(q) - 1, q[j + 1] = q[k + 1]
               PROVE  j = k
    BY <1>1, <1>2
  <2>1. j + 1 \in 1 .. Len(q) /\ k + 1 \in 1 .. Len(q)
    BY <1>1
  <2>2. j + 1 = k + 1
    BY <2>1, <1>2
  <2> QED BY <2>2
<1>4. ASSUME NEW x \in Elements(Tail(q)) PROVE x \in Elements(q) \ {Head(q)}
  <2>1. PICK k \in 1 .. Len(q) - 1 : x = q[k + 1]
    BY <1>1, <1>2 DEF Elements
  <2>2. k + 1 \in 1 .. Len(q) /\ 1 \in 1 .. Len(q) /\ k + 1 # 1
    BY <1>1
  <2> QED BY <2>1, <2>2, <1>1, <1>2 DEF Elements
<1>5. ASSUME NEW x \in Elements(q) \ {Head(q)} PROVE x \in Elements(Tail(q))
  <2>1. PICK k \in 1 .. Len(q) : x = q[k]
    BY <1>2 DEF Elements
  <2>2. k # 1
    BY <2>1, <1>1
  <2>3. k - 1 \in 1 .. Len(q) - 1 /\ (k - 1) + 1 = k
    BY <2>2, <1>1
  <2>4. Tail(q)[k - 1] = q[k]
    BY <2>3, <1>1
  <2> QED BY <2>1, <2>3, <2>4, <1>2 DEF Elements
<1>6. Head(q) \in Elements(q)
  BY <1>1, <1>2 DEF Elements
<1> QED BY <1>1, <1>3, <1>4, <1>5, <1>6

\* What a step leaves of the run it belongs to.
LEMMA LoopsFacts ==
    ASSUME NEW r \in Run, NEW c, Proper(r, c), NEW place \in Place, NEW next \in Place, Loops(c, r, place, next),
           run[r].todo = c.todo
    PROVE  \E x : /\ run' = [run EXCEPT ![r] = x] /\ Proper(r, x) /\ x.spawned = c.spawned /\ x.passed = c.passed
                  /\ \/ x.at = next /\ x.todo = Tasks[r] /\ Elements(c.todo) \subseteq {Head(c.todo)}
                     \/ x.at = place /\ x.todo = Tail(c.todo)
<1> DEFINE rest == Tail(c.todo)
           x == [c EXCEPT !.at = IF rest = <<>> THEN next ELSE place, !.todo = IF rest = <<>> THEN Tasks[r] ELSE rest]
<1>1. run' = [run EXCEPT ![r] = x]
  BY DEF Loops
<1>2. c \in RunState /\ c.todo \in Seq(TaskId) /\ c.todo # <<>>
  BY DEF Proper, RunState
<1>3. /\ rest \in Seq(TaskId) /\ \A j, k \in DOMAIN rest : rest[j] = rest[k] => j = k
      /\ Elements(rest) = Elements(c.todo) \ {Head(c.todo)}
  BY <1>2, TailFacts DEF Proper
<1>4. /\ x.spawned = c.spawned /\ x.passed = c.passed
      /\ x.at = IF rest = <<>> THEN next ELSE place
      /\ x.todo = IF rest = <<>> THEN Tasks[r] ELSE rest
  BY <1>2 DEF RunState
<1>5. x \in RunState
  BY <1>2, <1>3, TasksFacts DEF RunState
<1> HIDE DEF x
<1>6. Proper(r, x)
  <2>1. CASE rest = <<>>
    BY <2>1, <1>4, <1>5, RunsAssumption DEF Proper
  <2>2. CASE rest # <<>>
    BY <2>2, <1>3, <1>4, <1>5 DEF Proper
  <2> QED BY <2>1, <2>2
<1>7. rest = <<>> => Elements(c.todo) \subseteq {Head(c.todo)}
  <2>1. rest = <<>> => Elements(rest) = {}
    BY DEF Elements
  <2> QED BY <2>1, <1>3
<1> QED BY <1>1, <1>4, <1>6, <1>7

LEMMA RunsStart == RunsInit => RunsInv
<1> SUFFICES ASSUME RunsInit PROVE RunsInv
  OBVIOUS
<1>1. AuditInv /\ AuditTypeOK
  BY AuditStarts DEF RunsInit, AuditInv
<1>2. ASSUME NEW r \in Run
      PROVE  /\ run[r] = [at |-> "before", todo |-> Tasks[r], spawned |-> {}, passed |-> {}]
             /\ run[r] \in RunState
             /\ run[r].at = "before" /\ run[r].todo = Tasks[r] /\ run[r].spawned = {}
  <2>1. run[r] = [at |-> "before", todo |-> Tasks[r], spawned |-> {}, passed |-> {}]
    BY DEF RunsInit
  <2> QED BY <2>1, TasksFacts DEF RunState, Place
<1>3. RunsTypeOK
  BY <1>1, <1>2 DEF RunsInit, RunsTypeOK, RunState
<1>4. AllProper
  <2> SUFFICES ASSUME NEW r \in Run PROVE Proper(r, run[r])
    BY DEF AllProper
  <2>1. /\ run[r] \in RunState /\ run[r].todo = Tasks[r] /\ run[r].spawned = {}
        /\ Tasks[r] # <<>> /\ \A j, k \in DOMAIN Tasks[r] : Tasks[r][j] = Tasks[r][k] => j = k
    BY <1>2, RunsAssumption
  <2> QED BY <2>1 DEF Proper
<1>5. Running = {}
  BY <1>2 DEF Running
<1> QED BY <1>1, <1>2, <1>3, <1>4, <1>5
  DEF RunsInit, RunsInv, BeforeFresh, BesideNamed, SpawnerOwn, SpawnerMade, TrackedByTask, WorkKept, TreesOwned

\* What a step leaves of the state of its run.
LEMMA RunMoves ==
    ASSUME RunsInv, NEW r \in Run, NEW x \in RunState, run' = [run EXCEPT ![r] = x]
    PROVE  /\ run' \in [Run -> RunState]
           /\ run'[r] = x
           /\ \A s \in Run : s # r => run'[s] = run[s]
           /\ Running' = IF x.at \in {"before", "over"} THEN Running \ {r} ELSE Running \cup {r}
<1>1. run \in [Run -> RunState]
  BY DEF RunsInv, RunsTypeOK, RunState
<1>2. /\ run' \in [Run -> RunState] /\ run'[r] = x
      /\ \A s \in Run : s # r => run'[s] = run[s]
  BY <1>1
<1>3. Running' = {s \in Run : run'[s].at \notin {"before", "over"}}
  BY DEF Running
<1>4. \A s \in Run : s \in Running' <=> IF s = r THEN x.at \notin {"before", "over"} ELSE s \in Running
  BY <1>2, <1>3 DEF Running
<1>5. Running \subseteq Run /\ Running' \subseteq Run
  BY <1>3 DEF Running
<1> QED BY <1>2, <1>4, <1>5

\* A step of a run that touches neither trees nor spawner: what it works in must
\* have been there before, and a run alone gives up no tree.
LEMMA QuietRun ==
    ASSUME RunsInv, AuditInv', NEW r \in Running, NEW x, Proper(r, x), x.at # "before",
           run' = [run EXCEPT ![r] = x],
           UNCHANGED <<spawner, tracked, trees, overlapped>>,
           marred' \in {marred, marred \cup {r}}, x.at = "over" => r \in marred',
           \A t \in TaskId : x.at # "over" /\ Works(r, t)' => Works(r, t),
           \A t \in TaskId : r \notin marred' /\ Works(r, t) => Works(r, t)'
    PROVE  RunsInv'
<1>1. r \in Run /\ x \in RunState /\ RunsTypeOK /\ Proper(r, run[r])
  BY DEF Running, Proper, RunsInv, AllProper
<1>2. /\ run' \in [Run -> RunState] /\ run'[r] = x
      /\ \A s \in Run : s # r => run'[s] = run[s]
      /\ Running' = IF x.at \in {"before", "over"} THEN Running \ {r} ELSE Running \cup {r}
  BY <1>1, RunMoves
<1>3. Running' \subseteq Running /\ (r \in Running' <=> x.at # "over")
  BY <1>2
<1>4. RunsTypeOK'
  BY <1>1, <1>2 DEF RunsInv, RunsTypeOK, AuditInv, RunState
<1>5. AllProper'
  BY <1>2 DEF RunsInv, AllProper, Proper
<1>6. BeforeFresh'
  <2> SUFFICES ASSUME NEW s \in Run, run'[s].at = "before"
               PROVE  overlapped[s] = {} /\ s \notin marred' /\ run'[s].spawned = {}
    BY DEF BeforeFresh, At
  <2>1. s # r /\ run'[s] = run[s]
    BY <1>2
  <2> QED BY <2>1 DEF RunsInv, BeforeFresh, At
<1>7. BesideNamed' /\ SpawnerOwn' /\ SpawnerMade'
  BY <1>3 DEF RunsInv, BesideNamed, SpawnerOwn, SpawnerMade
<1>8. TrackedByTask'
  BY DEF RunsInv, TrackedByTask
<1>9. \A s \in Run, t \in TaskId : s # r => (Works(s, t)' <=> Works(s, t))
  BY <1>2 DEF Works, Removed, At, Current
<1>10. WorkKept'
  <2> SUFFICES ASSUME NEW s \in Running', NEW t \in TaskId, Works(s, t)'
               PROVE  [by |-> s, task |-> t] \in trees \/ Rivals(s, t) # {}
    BY DEF WorkKept, Rivals
  <2>1. s \in Running /\ s \in Run /\ Works(s, t)
    BY <1>3, <1>9 DEF Running
  <2> QED BY <2>1 DEF RunsInv, WorkKept
<1>11. TreesOwned'
  <2> SUFFICES ASSUME NEW tree \in trees, overlapped[tree.by] = {}, tree.by \notin marred'
               PROVE  /\ tree.by \in Running' /\ tracked[tree.by][tree.task] = tree
                      /\ Works(tree.by, tree.task)'
    BY DEF TreesOwned, Alone
  <2>1. tree.by \in Running /\ tracked[tree.by][tree.task] = tree /\ Works(tree.by, tree.task)
    BY DEF RunsInv, TreesOwned, Alone
  <2>2. tree.by \in Run /\ tree.task \in TaskId
    BY <1>1 DEF RunsTypeOK, Tree
  <2>3. CASE tree.by = r
    BY <2>1, <2>2, <2>3, <1>3
  <2>4. CASE tree.by # r
    BY <2>1, <2>2, <2>4, <1>2, <1>9
  <2> QED BY <2>1, <2>3, <2>4
<1> QED BY <1>4, <1>5, <1>6, <1>7, <1>8, <1>10, <1>11 DEF RunsInv

\* Every step of a run is one of the log, or leaves it alone.
LEMMA RunsAudited == RunsNext => [AuditNext]_auditVars
BY DEF RunsNext, Restart, RunStep, Start, Refuse, MakeTree, SpawnFails, LogSpawn, LogSpawnFailure, Execute,
       LogSchedule, Verify, Decide, Remove, LogFails, AuditNext, auditVars

\* Of a task that a run works in it knows the tree to be its own.
LEMMA WorkFacts ==
    ASSUME RunsInv, NEW r \in Run, NEW t, Works(r, t)
    PROVE  t \in Elements(Tasks[r]) /\ t \in TaskId
<1>1. Proper(r, run[r]) /\ run[r].spawned \subseteq Elements(Tasks[r])
  BY DEF RunsInv, AllProper, Proper
<1>2. Current(r) \in Elements(run[r].todo)
  BY <1>1, TailFacts DEF Proper, RunState, Current
<1>3. t \in Elements(Tasks[r])
  BY <1>1, <1>2 DEF Works, Proper
<1>4. Elements(Tasks[r]) \subseteq TaskId
  BY DEF Elements, TaskId
<1> QED BY <1>3, <1>4

LEMMA LogFailsStep ==
    ASSUME RunsInv, AuditInv', NEW r \in Running, LogFails(r), UNCHANGED <<spawner, tracked, trees, overlapped>>
    PROVE  RunsInv'
<1> DEFINE x == [run[r] EXCEPT !.at = "over"]
<1>1. Proper(r, run[r])
  BY DEF RunsInv, AllProper, Running
<1>2. Proper(r, x) /\ x.at = "over"
  BY <1>1 DEF Proper, RunState, Place
<1>3. run' = [run EXCEPT ![r] = x] /\ marred' = marred \cup {r}
  BY DEF LogFails, Moves
<1> HIDE DEF x
<1> QED BY <1>2, <1>3, QuietRun

\* Where a run moves that works in the same trees before and after.
LEMMA QuietMove ==
    ASSUME RunsInv, AuditInv', NEW r \in Running, NEW x, Proper(r, x),
           x.at \notin {"before", "over", "spawned", "merging", "removing"},
           ~At(r, "merging"), ~At(r, "removing"), ~At(r, "spawned") \/ marred' = marred \cup {r},
           x.spawned = run[r].spawned, run' = [run EXCEPT ![r] = x],
           UNCHANGED <<spawner, tracked, trees, overlapped>>, marred' \in {marred, marred \cup {r}}
    PROVE  RunsInv'
<1>1. run'[r] = x
  BY RunMoves DEF Running, Proper
<1>2. Removed(r) = {} /\ Removed(r)' = {}
  BY <1>1 DEF Removed, At
<1>3. \A t \in TaskId : Works(r, t)' => Works(r, t)
  BY <1>1, <1>2 DEF Works, At
<1>4. \A t \in TaskId : r \notin marred' /\ Works(r, t) => Works(r, t)'
  BY <1>1, <1>2 DEF Works, At
<1> QED BY <1>3, <1>4, QuietRun

LEMMA SpawnFailsStep ==
    ASSUME RunsInv, AuditInv', NEW r \in Run, SpawnFails(r)
    PROVE  RunsInv'
<1> DEFINE x == [run[r] EXCEPT !.at = "unspawned"]
<1>1. Proper(r, run[r]) /\ r \in Running
  BY DEF RunsInv, AllProper, SpawnFails, At, Running
<1>2. Proper(r, x) /\ x.at = "unspawned" /\ x.spawned = run[r].spawned
  BY <1>1 DEF Proper, RunState, Place
<1>3. run' = [run EXCEPT ![r] = x] /\ At(r, "spawning") /\ UNCHANGED <<spawner, tracked, trees, overlapped, marred>>
  BY DEF SpawnFails, Moves
<1> HIDE DEF x
<1> QED BY <1>1, <1>2, <1>3, QuietMove DEF At

\* With its entry a tree becomes one the run keeps; without it, the run is marred.
LEMMA LogSpawnStep ==
    ASSUME RunsInv, AuditInv', NEW r \in Run, LogSpawn(r)
    PROVE  RunsInv'
<1>1. /\ Proper(r, run[r]) /\ r \in Running /\ At(r, "spawned")
      /\ UNCHANGED <<spawner, tracked, trees, overlapped>>
  BY DEF RunsInv, AllProper, LogSpawn, At, Running
<1>2. CASE Moves(r, "unspawned") /\ marred' = marred \cup {r}
  <2> DEFINE x == [run[r] EXCEPT !.at = "unspawned"]
  <2>1. Proper(r, x) /\ x.at = "unspawned" /\ x.spawned = run[r].spawned
    BY <1>1 DEF Proper, RunState, Place
  <2>2. run' = [run EXCEPT ![r] = x]
    BY <1>2 DEF Moves
  <2> HIDE DEF x
  <2> QED BY <1>1, <1>2, <2>1, <2>2, QuietMove DEF At
<1>3. CASE /\ Loops([run[r] EXCEPT !.spawned = @ \cup {Current(r)}], r, "spawning", "executing")
           /\ UNCHANGED marred
  <2> DEFINE c == [run[r] EXCEPT !.spawned = @ \cup {Current(r)}]
  <2>1. Current(r) \in Elements(Tasks[r]) /\ Elements(Tasks[r]) \subseteq TaskId
    <3>1. Current(r) \in Elements(run[r].todo)
      BY <1>1, TailFacts DEF Proper, RunState, Current
    <3>2. Elements(Tasks[r]) \subseteq TaskId
      BY DEF Elements, TaskId
    <3> QED BY <3>1, <3>2, <1>1 DEF Proper
  <2>2. Proper(r, c) /\ c.spawned = run[r].spawned \cup {Current(r)} /\ c.todo = run[r].todo
    BY <1>1, <2>1 DEF Proper, RunState
  <2>3. "spawning" \in Place /\ "executing" \in Place
    BY DEF Place
  <2>8. Loops(c, r, "spawning", "executing")
    BY <1>3
  <2> HIDE DEF c
  <2>4. PICK x : /\ run' = [run EXCEPT ![r] = x] /\ Proper(r, x) /\ x.spawned = c.spawned
                 /\ x.at \in {"spawning", "executing"}
    BY <2>2, <2>3, <2>8, LoopsFacts
  <2>5. run'[r] = x
    BY <2>4, RunMoves DEF Proper
  <2>6. Removed(r) = {} /\ Removed(r)' = {}
    BY <1>1, <2>4, <2>5 DEF Removed, At
  <2>7. \A t \in TaskId : Works(r, t)' <=> Works(r, t)
    BY <1>1, <2>2, <2>4, <2>5, <2>6 DEF Works, At
  <2> QED BY <1>1, <1>3, <2>4, <2>7, QuietRun
<1> QED BY <1>2, <1>3 DEF LogSpawn

LEMMA LogSpawnFailureStep ==
    ASSUME RunsInv, AuditInv', NEW r \in Run, LogSpawnFailure(r)
    PROVE  RunsInv'
<1>1. /\ Proper(r, run[r]) /\ r \in Running /\ At(r, "unspawned")
      /\ UNCHANGED <<spawner, tracked, trees, overlapped>>
  BY DEF RunsInv, AllProper, LogSpawnFailure, At, Running
<1>2. CASE Loops(run[r], r, "spawning", "executing") /\ UNCHANGED marred
  <2>1. "spawning" \in Place /\ "executing" \in Place
    BY DEF Place
  <2>2. PICK x : /\ run' = [run EXCEPT ![r] = x] /\ Proper(r, x) /\ x.spawned = run[r].spawned
                 /\ x.at \in {"spawning", "executing"}
    BY <1>1, <1>2, <2>1, LoopsFacts
  <2> QED BY <1>1, <1>2, <2>2, QuietMove DEF At
<1> QED BY <1>1, <1>2, LogFailsStep DEF LogSpawnFailure

LEMMA ExecuteStep ==
    ASSUME RunsInv, AuditInv', NEW r \in Run, Execute(r)
    PROVE  RunsInv'
<1>1. /\ Proper(r, run[r]) /\ r \in Running /\ At(r, "executing")
      /\ UNCHANGED <<spawner, tracked, trees, overlapped, marred>>
  BY DEF RunsInv, AllProper, Execute, At, Running
<1>2. PICK S \in SUBSET Elements(Tasks[r]) : run' = [run EXCEPT ![r].at = "scheduled", ![r].passed = S]
  BY DEF Execute, Elements
<1> DEFINE x == [run[r] EXCEPT !.at = "scheduled", !.passed = S]
<1>3. S \subseteq TaskId
  BY <1>2 DEF Elements, TaskId
<1>4. Proper(r, x) /\ x.at = "scheduled" /\ x.spawned = run[r].spawned
  BY <1>1, <1>3 DEF Proper, RunState, Place
<1>5. run' = [run EXCEPT ![r] = x]
  BY <1>2
<1> HIDE DEF x
<1> QED BY <1>1, <1>4, <1>5, QuietMove DEF At

LEMMA LogScheduleStep ==
    ASSUME RunsInv, AuditInv', NEW r \in Run, LogSchedule(r)
    PROVE  RunsInv'
<1>1. /\ Proper(r, run[r]) /\ r \in Running /\ At(r, "scheduled")
      /\ UNCHANGED <<spawner, tracked, trees, overlapped>>
  BY DEF RunsInv, AllProper, LogSchedule, At, Running
<1>2. CASE Loops(run[r], r, "scheduled", "verifying") /\ UNCHANGED marred
  <2>1. "scheduled" \in Place /\ "verifying" \in Place
    BY DEF Place
  <2>2. PICK x : /\ run' = [run EXCEPT ![r] = x] /\ Proper(r, x) /\ x.spawned = run[r].spawned
                 /\ x.at \in {"scheduled", "verifying"}
    BY <1>1, <1>2, <2>1, LoopsFacts
  <2> QED BY <1>1, <1>2, <2>2, QuietMove DEF At
<1> QED BY <1>1, <1>2, LogFailsStep DEF LogSchedule

\* When the last report is in, all tasks are to be merged or rejected yet.
LEMMA VerifyStep ==
    ASSUME RunsInv, AuditInv', NEW r \in Run, Verify(r)
    PROVE  RunsInv'
<1>1. /\ Proper(r, run[r]) /\ r \in Running /\ At(r, "verifying")
      /\ UNCHANGED <<spawner, tracked, trees, overlapped>>
  BY DEF RunsInv, AllProper, Verify, At, Running
<1>2. ASSUME NEW gone \in SUBSET {Current(r)}, UNCHANGED marred,
             Loops([run[r] EXCEPT !.passed = @ \ gone], r, "verifying", "merging")
      PROVE  RunsInv'
  <2> DEFINE c == [run[r] EXCEPT !.passed = @ \ gone]
  <2>1. "verifying" \in Place /\ "merging" \in Place
    BY DEF Place
  <2>2. Proper(r, c) /\ c.spawned = run[r].spawned /\ c.todo = run[r].todo
    BY <1>1 DEF Proper, RunState
  <2>3. Loops(c, r, "verifying", "merging")
    BY <1>2
  <2> HIDE DEF c
  <2>4. PICK x : /\ run' = [run EXCEPT ![r] = x] /\ Proper(r, x) /\ x.spawned = run[r].spawned
                 /\ (x.at = "merging" /\ x.todo = Tasks[r]) \/ x.at = "verifying"
    BY <2>1, <2>2, <2>3, LoopsFacts
  <2>5. run'[r] = x
    BY <2>4, RunMoves DEF Proper
  <2>6. Removed(r) = {} /\ Removed(r)' \cap Elements(Tasks[r]) = {}
    BY <1>1, <2>4, <2>5 DEF Removed, At, Elements
  <2>7. \A t \in TaskId : Works(r, t)' => Works(r, t)
    BY <1>1, <2>4, <2>5, <2>6 DEF Works, At
  <2>8. \A t \in TaskId : Works(r, t) => Works(r, t)'
    <3> SUFFICES ASSUME NEW t \in TaskId, Works(r, t) PROVE Works(r, t)'
      OBVIOUS
    <3>1. t \in Elements(Tasks[r])
      BY WorkFacts
    <3>2. t \in run[r].spawned
      BY <1>1 DEF Works, At
    <3> QED BY <3>1, <3>2, <2>4, <2>5, <2>6 DEF Works
  <2> QED BY <1>1, <1>2, <2>4, <2>7, <2>8, QuietRun
<1> QED BY <1>1, <1>2, LogFailsStep DEF Verify

LEMMA DecideStep ==
    ASSUME RunsInv, AuditInv', NEW r \in Run, Decide(r)
    PROVE  RunsInv'
<1>1. /\ Proper(r, run[r]) /\ r \in Running /\ At(r, "merging")
      /\ UNCHANGED <<spawner, tracked, trees, overlapped>>
  BY DEF RunsInv, AllProper, Decide, At, Running
<1>2. CASE Moves(r, "removing") /\ UNCHANGED marred
  <2> DEFINE x == [run[r] EXCEPT !.at = "removing"]
  <2>1. Proper(r, x) /\ x.at = "removing" /\ x.spawned = run[r].spawned /\ x.todo = run[r].todo
    BY <1>1 DEF Proper, RunState, Place
  <2>2. run' = [run EXCEPT ![r] = x]
    BY <1>2 DEF Moves
  <2> HIDE DEF x
  <2>3. run'[r] = x
    BY <2>1, <2>2, RunMoves DEF Proper
  <2>4. Removed(r)' = Removed(r)
    BY <1>1, <2>1, <2>3 DEF Removed, At
  <2>5. \A t \in TaskId : Works(r, t)' <=> Works(r, t)
    BY <1>1, <2>1, <2>3, <2>4 DEF Works, At
  <2> QED BY <1>1, <1>2, <2>1, <2>2, <2>5, QuietRun
<1> QED BY <1>1, <1>2, LogFailsStep DEF Decide

LEMMA RefuseStep ==
    ASSUME RunsInv, AuditInv', NEW r \in Run, Refuse(r)
    PROVE  RunsInv'
<1> DEFINE x == [run[r] EXCEPT !.at = "over"]
<1>1. /\ Proper(r, run[r]) /\ At(r, "before") /\ r \notin Running /\ RunsTypeOK
      /\ run' = [run EXCEPT ![r] = x]
      /\ UNCHANGED <<spawner, tracked, trees, overlapped>> /\ marred' \in {marred, marred \cup {r}}
  <2>1. At(r, "before") /\ Moves(r, "over") /\ UNCHANGED <<spawner, tracked, trees, overlapped>>
    BY DEF Refuse
  <2>2. marred' \in {marred, marred \cup {r}}
    BY DEF Refuse
  <2>3. run' = [run EXCEPT ![r] = x]
    BY <2>1 DEF Moves
  <2> QED BY <2>1, <2>2, <2>3 DEF RunsInv, AllProper, At, Running
<1>2. Proper(r, x) /\ x \in RunState /\ x.at = "over"
  BY <1>1 DEF Proper, RunState, Place
<1> HIDE DEF x
<1>3. /\ run' \in [Run -> RunState] /\ run'[r] = x /\ Running' = Running
      /\ \A s \in Run : s # r => run'[s] = run[s]
  <2>1. /\ run' \in [Run -> RunState] /\ run'[r] = x /\ Running' = Running \ {r}
        /\ \A s \in Run : s # r => run'[s] = run[s]
    BY <1>1, <1>2, RunMoves
  <2>2. Running \ {r} = Running
    BY <1>1
  <2> QED BY <2>1, <2>2
<1>4. RunsTypeOK'
  BY <1>1, <1>3 DEF RunsTypeOK, AuditInv, RunState
<1>5. AllProper'
  BY <1>2, <1>3 DEF RunsInv, AllProper, Proper
<1>6. BeforeFresh'
  <2> SUFFICES ASSUME NEW s \in Run, run'[s].at = "before"
               PROVE  overlapped[s] = {} /\ s \notin marred' /\ run'[s].spawned = {}
    BY <1>1 DEF BeforeFresh, At
  <2>1. s # r /\ run'[s] = run[s]
    BY <1>2, <1>3
  <2> QED BY <2>1, <1>1 DEF RunsInv, BeforeFresh, At
<1>7. BesideNamed' /\ SpawnerOwn' /\ SpawnerMade' /\ TrackedByTask'
  BY <1>1, <1>3 DEF RunsInv, BesideNamed, SpawnerOwn, SpawnerMade, TrackedByTask
<1>8. \A s \in Run, t \in TaskId : s # r => (Works(s, t)' <=> Works(s, t))
  BY <1>3 DEF Works, Removed, At, Current
<1>9. WorkKept'
  <2> SUFFICES ASSUME NEW s \in Running, NEW t \in TaskId, Works(s, t)'
               PROVE  [by |-> s, task |-> t] \in trees \/ Rivals(s, t) # {}
    BY <1>1, <1>3 DEF WorkKept, Rivals
  <2>1. s \in Run /\ Works(s, t)
    BY <1>1, <1>8 DEF Running
  <2> QED BY <2>1 DEF RunsInv, WorkKept
<1>10. TreesOwned'
  <2> SUFFICES ASSUME NEW tree \in trees, overlapped[tree.by] = {}, tree.by \notin marred'
               PROVE  /\ tree.by \in Running /\ tracked[tree.by][tree.task] = tree
                      /\ Works(tree.by, tree.task)'
    BY <1>1, <1>3 DEF TreesOwned, Alone
  <2>1. tree.by \in Running /\ tracked[tree.by][tree.task] = tree /\ Works(tree.by, tree.task)
    BY <1>1 DEF RunsInv, TreesOwned, Alone
  <2>2. tree.by \in Run /\ tree.task \in TaskId /\ tree.by # r
    BY <2>1, <1>1 DEF RunsTypeOK, Tree
  <2> QED BY <2>1, <2>2, <1>8
<1> QED BY <1>4, <1>5, <1>6, <1>7, <1>9, <1>10 DEF RunsInv

\* A run that starts alone has no tree yet; one that starts beside others is
\* named by each of them, and names them.
LEMMA StartStep ==
    ASSUME RunsInv, AuditInv', NEW r \in Run, Start(r)
    PROVE  RunsInv'
<1> DEFINE x == [run[r] EXCEPT !.at = "spawning"]
<1>1. /\ Proper(r, run[r]) /\ At(r, "before") /\ r \notin Running /\ RunsTypeOK
      /\ run' = [run EXCEPT ![r] = x]
      /\ spawner' = r /\ UNCHANGED <<tracked, trees, marred>>
      /\ overlapped' = [s \in Run |-> IF s = r THEN Running
                                      ELSE IF s \in Running THEN overlapped[s] \cup {r} ELSE overlapped[s]]
  BY DEF RunsInv, AllProper, Start, At, Running, Moves
<1>2. Proper(r, x) /\ x \in RunState /\ x.at = "spawning" /\ x.spawned = run[r].spawned
  BY <1>1 DEF Proper, RunState, Place
<1> HIDE DEF x
<1>3. /\ run' \in [Run -> RunState] /\ run'[r] = x /\ Running' = Running \cup {r}
      /\ \A s \in Run : s # r => run'[s] = run[s]
      /\ Running \subseteq Run
  BY <1>1, <1>2, RunMoves DEF Running
<1>4. overlapped' \in [Run -> SUBSET Run]
  BY <1>1, <1>3 DEF RunsTypeOK
<1>5. RunsTypeOK'
  BY <1>1, <1>3, <1>4 DEF RunsTypeOK, AuditInv, RunState
<1>6. AllProper'
  BY <1>2, <1>3 DEF RunsInv, AllProper, Proper
<1>7. BeforeFresh'
  <2> SUFFICES ASSUME NEW s \in Run, run'[s].at = "before"
               PROVE  overlapped'[s] = {} /\ s \notin marred' /\ run'[s].spawned = {}
    BY DEF BeforeFresh, At
  <2>1. s # r /\ run'[s] = run[s] /\ s \notin Running
    BY <1>2, <1>3 DEF Running
  <2> QED BY <2>1, <1>1 DEF RunsInv, BeforeFresh, At
<1>8. BesideNamed'
  <2> SUFFICES ASSUME NEW s \in Running', NEW u \in Running', s # u PROVE u \in overlapped'[s]
    BY DEF BesideNamed
  <2>1. CASE s = r
    BY <2>1, <1>1, <1>3
  <2>2. CASE s # r
    <3>1. s \in Running /\ s \in Run /\ overlapped'[s] = overlapped[s] \cup {r}
      BY <2>2, <1>1, <1>3
    <3> QED BY <3>1, <1>3 DEF RunsInv, BesideNamed
  <2> QED BY <2>1, <2>2
<1>9. SpawnerOwn'
  <2> SUFFICES ASSUME NEW s \in Running', overlapped'[s] = {}, s # r PROVE FALSE
    BY <1>1 DEF SpawnerOwn
  <2> QED BY <1>1, <1>3
<1>10. SpawnerMade' /\ TrackedByTask'
  BY <1>1 DEF RunsInv, SpawnerMade, TrackedByTask
<1>11. \A s \in Run, t \in TaskId : s # r => (Works(s, t)' <=> Works(s, t))
  BY <1>3 DEF Works, Removed, At, Current
<1>12. \A t \in TaskId : ~Works(r, t)'
  BY <1>1, <1>2, <1>3 DEF Works, At, RunsInv, BeforeFresh
<1>13. WorkKept'
  <2> SUFFICES ASSUME NEW s \in Running', NEW t \in TaskId, Works(s, t)'
               PROVE  [by |-> s, task |-> t] \in trees \/ Rivals(s, t)' # {}
    BY <1>1 DEF WorkKept
  <2>1. s # r /\ s \in Running /\ s \in Run /\ Works(s, t)
    BY <1>3, <1>11, <1>12
  <2>2. Rivals(s, t) \subseteq Rivals(s, t)'
    BY <2>1, <1>1 DEF Rivals
  <2> QED BY <2>1, <2>2 DEF RunsInv, WorkKept
<1>14. TreesOwned'
  <2> SUFFICES ASSUME NEW tree \in trees, overlapped'[tree.by] = {}, tree.by \notin marred
               PROVE  /\ tree.by \in Running' /\ tracked[tree.by][tree.task] = tree
                      /\ Works(tree.by, tree.task)'
    BY <1>1 DEF TreesOwned, Alone
  <2>1. tree.by \in Run /\ tree.task \in TaskId
    BY <1>1 DEF RunsTypeOK, Tree
  <2>2. overlapped[tree.by] = {}
    BY <2>1, <1>1 DEF RunsInv, BeforeFresh
  <2>3. tree.by \in Running /\ tracked[tree.by][tree.task] = tree /\ Works(tree.by, tree.task)
    BY <2>2 DEF RunsInv, TreesOwned, Alone
  <2> QED BY <2>1, <2>3, <1>1, <1>3, <1>11
<1> QED BY <1>5, <1>6, <1>7, <1>8, <1>9, <1>10, <1>13, <1>14 DEF RunsInv

\* A tree is made through whatever spawner is there: a run that is alone made it.
LEMMA MakeTreeStep ==
    ASSUME RunsInv, AuditInv', NEW r \in Run, MakeTree(r)
    PROVE  RunsInv'
<1> DEFINE x == [run[r] EXCEPT !.at = "spawned"]
           c == Current(r)
           newTree == [by |-> r, task |-> c]
<1>1. /\ Proper(r, run[r]) /\ At(r, "spawning") /\ r \in Running /\ RunsTypeOK
      /\ run' = [run EXCEPT ![r] = x]
      /\ tracked[spawner][c] = None /\ tracked' = [tracked EXCEPT ![spawner][c] = newTree] /\ trees' = trees \cup {newTree}
      /\ UNCHANGED <<spawner, overlapped, marred>>
  BY DEF RunsInv, AllProper, MakeTree, At, Running, Moves
<1>2. Proper(r, x) /\ x \in RunState /\ x.at = "spawned" /\ x.spawned = run[r].spawned /\ x.todo = run[r].todo
  BY <1>1 DEF Proper, RunState, Place
<1>3. c \in TaskId /\ newTree \in Tree /\ newTree.by = r /\ newTree.task = c /\ newTree # None
  <2>1. c \in Elements(run[r].todo) /\ Elements(run[r].todo) \subseteq TaskId
    BY <1>1, TailFacts DEF Proper, RunState, Current, Elements, TaskId
  <2> QED BY <2>1, RunsAssumption DEF Tree
<1> HIDE DEF x, newTree
<1>4. /\ run' \in [Run -> RunState] /\ run'[r] = x /\ Running' = Running
      /\ \A s \in Run : s # r => run'[s] = run[s]
      /\ Running \subseteq Run
  BY <1>1, <1>2, RunMoves DEF Running
<1>5. /\ spawner \in Run /\ tracked' \in [Run -> [TaskId -> Tree \cup {None}]]
      /\ \A s \in Run, t \in TaskId :
            tracked'[s][t] = IF s = spawner /\ t = c THEN newTree ELSE tracked[s][t]
  <2>1. spawner \in Run
    BY <1>1 DEF RunsInv, SpawnerMade
  <2> QED BY <2>1, <1>1, <1>3 DEF RunsTypeOK
<1>6. RunsTypeOK'
  BY <1>1, <1>3, <1>4, <1>5 DEF RunsTypeOK, AuditInv, RunState
<1>7. AllProper'
  BY <1>2, <1>4 DEF RunsInv, AllProper, Proper
<1>8. BeforeFresh'
  <2> SUFFICES ASSUME NEW s \in Run, run'[s].at = "before"
               PROVE  overlapped[s] = {} /\ s \notin marred /\ run'[s].spawned = {}
    BY <1>1 DEF BeforeFresh, At
  <2>1. s # r /\ run'[s] = run[s]
    BY <1>2, <1>4
  <2> QED BY <2>1 DEF RunsInv, BeforeFresh, At
<1>9. BesideNamed' /\ SpawnerOwn' /\ SpawnerMade'
  BY <1>1, <1>4 DEF RunsInv, BesideNamed, SpawnerOwn, SpawnerMade
<1>10. TrackedByTask'
  BY <1>3, <1>5 DEF RunsInv, TrackedByTask
<1>11. \A s \in Run, t \in TaskId : s # r => (Works(s, t)' <=> Works(s, t))
  BY <1>4 DEF Works, Removed, At, Current
<1>12. \A t \in TaskId : Works(r, t)' <=> (Works(r, t) \/ t = c)
  <2>1. Removed(r) = {} /\ Removed(r)' = {}
    BY <1>1, <1>2, <1>4 DEF Removed, At
  <2> QED BY <2>1, <1>1, <1>2, <1>4 DEF Works, At, Current
<1>13. WorkKept'
  <2> SUFFICES ASSUME NEW s \in Running, NEW t \in TaskId, Works(s, t)'
               PROVE  [by |-> s, task |-> t] \in trees' \/ Rivals(s, t) # {}
    BY <1>1, <1>4 DEF WorkKept, Rivals
  <2>1. CASE s = r /\ t = c
    BY <2>1, <1>1 DEF newTree
  <2>2. CASE ~(s = r /\ t = c)
    <3>1. s \in Run /\ Works(s, t)
      BY <2>2, <1>4, <1>11, <1>12
    <3> QED BY <3>1, <1>1 DEF RunsInv, WorkKept
  <2> QED BY <2>1, <2>2
<1>14. TreesOwned'
  <2> SUFFICES ASSUME NEW tree \in trees', overlapped[tree.by] = {}, tree.by \notin marred
               PROVE  /\ tree.by \in Running /\ tracked'[tree.by][tree.task] = tree
                      /\ Works(tree.by, tree.task)'
    BY <1>1, <1>4 DEF TreesOwned, Alone
  <2>1. CASE tree = newTree
    <3>1. spawner = r
      BY <2>1, <1>1, <1>3 DEF RunsInv, SpawnerOwn
    <3> QED BY <2>1, <3>1, <1>1, <1>3, <1>4, <1>5, <1>12
  <2>2. CASE tree # newTree
    <3>1. tree \in trees /\ tree.by \in Run /\ tree.task \in TaskId
      BY <2>2, <1>1 DEF RunsTypeOK, Tree
    <3>2. tree.by \in Running /\ tracked[tree.by][tree.task] = tree /\ Works(tree.by, tree.task)
      BY <3>1 DEF RunsInv, TreesOwned, Alone
    <3>3. ~(tree.by = spawner /\ tree.task = c)
      <4>1. tree # None
        BY <3>1, <1>1, RunsAssumption DEF RunsTypeOK
      <4> QED BY <4>1, <3>2, <1>1
    <3> QED BY <3>1, <3>2, <3>3, <1>5, <1>11, <1>12
  <2> QED BY <2>1, <2>2
<1> QED BY <1>6, <1>7, <1>8, <1>9, <1>10, <1>13, <1>14 DEF RunsInv

\* The tree that goes is one for the task at hand: the run's own, which it has
\* then removed, or that of a rival.
LEMMA RemoveStep ==
    ASSUME RunsInv, AuditInv', NEW r \in Run, Remove(r)
    PROVE  RunsInv'
<1> DEFINE c == Current(r)
           gone == tracked[spawner][c]
<1>1. /\ Proper(r, run[r]) /\ At(r, "removing") /\ r \in Running /\ RunsTypeOK
      /\ IF c \in run[r].spawned
         THEN trees' = trees \ {gone} /\ tracked' = [tracked EXCEPT ![spawner][c] = None]
         ELSE UNCHANGED <<trees, tracked>>
      /\ Loops(run[r], r, "merging", "over")
      /\ UNCHANGED <<spawner, overlapped, marred>>
  BY DEF RunsInv, AllProper, Remove, At, Running, Returns
<1>2. /\ c \in Elements(run[r].todo) /\ c \in TaskId /\ c = Head(run[r].todo)
      /\ Elements(Tail(run[r].todo)) = Elements(run[r].todo) \ {c}
      /\ Elements(run[r].todo) \subseteq TaskId
  <2>1. /\ run[r].todo \in Seq(TaskId) /\ run[r].todo # <<>>
        /\ \A j, k \in DOMAIN run[r].todo : run[r].todo[j] = run[r].todo[k] => j = k
    BY <1>1 DEF Proper, RunState
  <2>2. /\ Head(run[r].todo) \in Elements(run[r].todo)
        /\ Elements(Tail(run[r].todo)) = Elements(run[r].todo) \ {Head(run[r].todo)}
    BY <2>1, TailFacts
  <2>3. Elements(run[r].todo) \subseteq TaskId
    BY <2>1 DEF Elements
  <2> QED BY <2>2, <2>3 DEF Current
<1>3. PICK x : /\ run' = [run EXCEPT ![r] = x] /\ Proper(r, x) /\ x.spawned = run[r].spawned
               /\ \/ x.at = "over" /\ Elements(run[r].todo) \subseteq {c}
                  \/ x.at = "merging" /\ x.todo = Tail(run[r].todo)
  <2>1. "merging" \in Place /\ "over" \in Place
    BY DEF Place
  <2> QED BY <2>1, <1>1, <1>2, LoopsFacts
<1>4. /\ run' \in [Run -> RunState] /\ run'[r] = x
      /\ Running' = IF x.at = "over" THEN Running \ {r} ELSE Running
      /\ \A s \in Run : s # r => run'[s] = run[s]
      /\ Running \subseteq Run
  <2>1. x \in RunState
    BY <1>3 DEF Proper
  <2> QED BY <2>1, <1>1, <1>3, RunMoves DEF Running
<1>5. spawner \in Run
  BY <1>1 DEF RunsInv, SpawnerMade
<1>6. /\ tracked' \in [Run -> [TaskId -> Tree \cup {None}]]
      /\ \A s \in Run, t \in TaskId : tracked'[s][t] = tracked[s][t] \/ (s = spawner /\ t = c /\ tracked'[s][t] = None)
      /\ c \in run[r].spawned => tracked'[spawner][c] = None
      /\ trees' \subseteq trees /\ \A tree \in trees \ trees' : tree = gone /\ c \in run[r].spawned
  <2>1. tracked \in [Run -> [TaskId -> Tree \cup {None}]]
    BY <1>1 DEF RunsTypeOK
  <2>2. CASE c \in run[r].spawned
    <3>1. trees' = trees \ {gone} /\ tracked' = [tracked EXCEPT ![spawner][c] = None]
      BY <2>2, <1>1
    <3> HIDE DEF c, gone
    <3>2. /\ tracked' \in [Run -> [TaskId -> Tree \cup {None}]]
          /\ \A s \in Run, t \in TaskId :
                tracked'[s][t] = IF s = spawner /\ t = c THEN None ELSE tracked[s][t]
      BY <2>1, <3>1, <1>2, <1>5
    <3> QED BY <2>2, <3>1, <3>2, <1>2, <1>5
  <2>3. CASE c \notin run[r].spawned
    <3>1. trees' = trees /\ tracked' = tracked
      BY <2>3, <1>1
    <3> QED BY <2>1, <2>3, <3>1
  <2> QED BY <2>2, <2>3
<1>7. RunsTypeOK'
  BY <1>1, <1>4, <1>6 DEF RunsTypeOK, AuditInv, RunState
<1>8. AllProper'
  BY <1>3, <1>4 DEF RunsInv, AllProper, Proper
<1>9. BeforeFresh'
  <2> SUFFICES ASSUME NEW s \in Run, run'[s].at = "before"
               PROVE  overlapped[s] = {} /\ s \notin marred /\ run'[s].spawned = {}
    BY <1>1 DEF BeforeFresh, At
  <2>1. s # r /\ run'[s] = run[s]
    BY <1>3, <1>4
  <2> QED BY <2>1 DEF RunsInv, BeforeFresh, At
<1>10. BesideNamed' /\ SpawnerOwn' /\ SpawnerMade'
  BY <1>1, <1>4 DEF RunsInv, BesideNamed, SpawnerOwn, SpawnerMade
<1>11. TrackedByTask'
  BY <1>6 DEF RunsInv, TrackedByTask
<1>12. \A s \in Run, t \in TaskId : s # r => (Works(s, t)' <=> Works(s, t))
  BY <1>4 DEF Works, Removed, At, Current
<1>13. /\ Removed(r) = TaskId \ Elements(run[r].todo)
       /\ x.at = "merging" => Removed(r)' = TaskId \ (Elements(run[r].todo) \ {c})
  BY <1>1, <1>2, <1>3, <1>4 DEF Removed, At, Elements
<1>14. \A t \in TaskId : Works(r, t) <=> t \in run[r].spawned /\ t \in Elements(run[r].todo)
  BY <1>1, <1>13 DEF Works, At
<1>15. \A t \in TaskId : x.at = "merging" => (Works(r, t)' <=> (Works(r, t) /\ t # c))
  BY <1>3, <1>4, <1>13, <1>14 DEF Works, At
<1>16. WorkKept'
  <2> SUFFICES ASSUME NEW s \in Running', NEW t \in TaskId, Works(s, t)',
                      [by |-> s, task |-> t] \notin trees'
               PROVE  Rivals(s, t) # {}
    BY <1>1 DEF WorkKept, Rivals
  <2>1. s \in Running /\ s \in Run /\ Works(s, t) /\ (s = r => t # c)
    BY <1>3, <1>4, <1>12, <1>15
  <2>2. CASE [by |-> s, task |-> t] \notin trees
    BY <2>1, <2>2 DEF RunsInv, WorkKept
  <2>3. CASE [by |-> s, task |-> t] \in trees
    <3>1. gone = [by |-> s, task |-> t]
      BY <2>3, <1>6
    <3>2. gone # None
      BY <3>1, <2>3, <1>1, RunsAssumption DEF RunsTypeOK
    <3>3. t = c
      BY <3>1, <3>2, <1>2, <1>5 DEF RunsInv, TrackedByTask
    <3>4. s # r /\ r \in overlapped[s]
      BY <3>3, <2>1, <1>1 DEF RunsInv, BesideNamed
    <3>5. c \in Elements(Tasks[r])
      BY <1>1, <1>2 DEF Proper
    <3> QED BY <3>3, <3>4, <3>5 DEF Rivals, Elements
  <2> QED BY <2>2, <2>3
<1>17. TreesOwned'
  <2> SUFFICES ASSUME NEW tree \in trees', overlapped[tree.by] = {}, tree.by \notin marred
               PROVE  /\ tree.by \in Running' /\ tracked'[tree.by][tree.task] = tree
                      /\ Works(tree.by, tree.task)'
    BY <1>1 DEF TreesOwned, Alone
  <2>1. tree \in trees /\ tree.by \in Run /\ tree.task \in TaskId
    BY <1>1, <1>6 DEF RunsTypeOK, Tree
  <2>2. tree.by \in Running /\ tracked[tree.by][tree.task] = tree /\ Works(tree.by, tree.task)
    BY <2>1 DEF RunsInv, TreesOwned, Alone
  <2>3. CASE tree.by = r
    <3>1. spawner = r
      BY <2>2, <2>3 DEF RunsInv, SpawnerOwn
    <3>2. tree.task # c
      <4> SUFFICES ASSUME tree.task = c PROVE FALSE
        OBVIOUS
      <4>1. c \in run[r].spawned
        BY <2>1, <2>2, <2>3, <1>14
      <4>2. gone = tree
        BY <2>2, <2>3, <3>1
      <4> QED BY <4>1, <4>2, <1>1
    <3>3. x.at = "merging"
      <4>1. tree.task \in Elements(run[r].todo)
        BY <2>1, <2>2, <2>3, <1>14
      <4> QED BY <4>1, <3>2, <1>3
    <3>4. Works(r, tree.task)'
      BY <3>2, <3>3, <2>1, <2>2, <2>3, <1>15
    <3> QED BY <3>2, <3>3, <3>4, <2>1, <2>2, <2>3, <1>4, <1>6
  <2>4. CASE tree.by # r
    <3>1. spawner # tree.by
      <4>1. r \in overlapped[tree.by]
        BY <2>2, <2>4, <1>1 DEF RunsInv, BesideNamed
      <4> QED BY <4>1
    <3> QED BY <3>1, <2>1, <2>2, <2>4, <1>4, <1>6, <1>12
  <2> QED BY <2>3, <2>4
<1> QED BY <1>7, <1>8, <1>9, <1>10, <1>11, <1>16, <1>17 DEF RunsInv

\* Of the runs a restart ends nothing is promised, and none starts with it.
LEMMA RestartStep ==
    ASSUME RunsInv, AuditInv', Restart
    PROVE  RunsInv'
<1>1. /\ spawner' = None /\ trees' = trees /\ overlapped' = overlapped /\ marred' = marred \cup Running
      /\ tracked' = [r \in Run |-> [t \in TaskId |-> None]]
      /\ run' = [r \in Run |-> IF r \in Running THEN [run[r] EXCEPT !.at = "over"] ELSE run[r]]
      /\ RunsTypeOK /\ Running \subseteq Run
  BY DEF Restart, RunsInv, Running
<1>2. ASSUME NEW r \in Run
      PROVE  /\ Proper(r, run'[r])
             /\ run'[r].at \in {"before", "over"}
             /\ run'[r].at = "before" => r \notin Running /\ run'[r] = run[r]
  <2> DEFINE x == [run[r] EXCEPT !.at = "over"]
  <2>1. Proper(r, run[r])
    BY DEF RunsInv, AllProper
  <2>2. CASE r \in Running
    <3>1. Proper(r, x) /\ x.at = "over"
      BY <2>1 DEF Proper, RunState, Place
    <3>2. run'[r] = x
      BY <2>2, <1>1
    <3> HIDE DEF x
    <3> QED BY <3>1, <3>2
  <2>3. CASE r \notin Running
    <3>1. run'[r] = run[r]
      BY <2>3, <1>1
    <3> QED BY <2>1, <2>3, <3>1 DEF Running
  <2> QED BY <2>2, <2>3
<1>3. Running' = {}
  BY <1>2 DEF Running
<1>4. run' \in [Run -> RunState]
  <2>1. \A r \in Run : run'[r] \in RunState
    BY <1>2 DEF Proper
  <2> QED BY <2>1, <1>1
<1>5. RunsTypeOK'
  BY <1>1, <1>4 DEF RunsTypeOK, AuditInv, RunState
<1>6. AllProper'
  BY <1>2 DEF AllProper, Proper
<1>7. BeforeFresh'
  BY <1>1, <1>2 DEF RunsInv, BeforeFresh, At
<1>8. BesideNamed' /\ SpawnerOwn' /\ SpawnerMade' /\ WorkKept'
  BY <1>3 DEF BesideNamed, SpawnerOwn, SpawnerMade, WorkKept
<1>9. TrackedByTask'
  BY <1>1 DEF TrackedByTask
<1>10. TreesOwned'
  <2> SUFFICES ASSUME NEW tree \in trees, overlapped[tree.by] = {}, tree.by \notin marred \cup Running
               PROVE  FALSE
    BY <1>1 DEF TreesOwned, Alone
  <2> QED BY DEF RunsInv, TreesOwned, Alone
<1> QED BY <1>5, <1>6, <1>7, <1>8, <1>9, <1>10 DEF RunsInv

LEMMA RunsSteps == RunsInv /\ [RunsNext]_bernsteinVars => RunsInv'
<1> SUFFICES ASSUME RunsInv, [RunsNext]_bernsteinVars PROVE RunsInv'
  OBVIOUS
<1>1. CASE UNCHANGED bernsteinVars
  <2>1. UNCHANGED auditVars /\ UNCHANGED <<spawner, tracked, trees, active, run, overlapped, marred>>
    BY <1>1 DEF bernsteinVars, runVars
  <2>2. AuditInv'
    BY <2>1, AuditSteps DEF RunsInv
  <2>3. RunsTypeOK'
    BY <2>1, <2>2 DEF RunsInv, RunsTypeOK, AuditInv
  <2>5. AllProper'
    BY <2>1 DEF RunsInv, AllProper, Proper
  <2>6. Running' = Running
    BY <2>1 DEF Running
  <2>7. BeforeFresh' /\ TrackedByTask'
    BY <2>1 DEF RunsInv, BeforeFresh, TrackedByTask, At
  <2>8. BesideNamed' /\ SpawnerOwn' /\ SpawnerMade'
    BY <2>1, <2>6 DEF RunsInv, BesideNamed, SpawnerOwn, SpawnerMade
  <2>9. \A r, t : (Works(r, t)' <=> Works(r, t)) /\ Rivals(r, t)' = Rivals(r, t)
    BY <2>1 DEF Works, Removed, Current, At, Rivals
  <2>10. WorkKept'
    BY <2>1, <2>6, <2>9 DEF RunsInv, WorkKept
  <2>11. TreesOwned'
    BY <2>1, <2>6, <2>9 DEF RunsInv, TreesOwned, Alone
  <2> QED BY <2>2, <2>3, <2>5, <2>7, <2>8, <2>10, <2>11 DEF RunsInv
<1>2. CASE RunsNext
  <2>1. AuditInv'
    BY <1>2, RunsAudited, AuditSteps DEF RunsInv
  <2>2. CASE Restart
    BY <2>1, <2>2, RestartStep
  <2>3. CASE \E r \in Run : RunStep(r)
    <3>1. PICK r \in Run : RunStep(r)
      BY <2>3
    <3> QED BY <2>1, <3>1, StartStep, RefuseStep, MakeTreeStep, SpawnFailsStep, LogSpawnStep,
               LogSpawnFailureStep, ExecuteStep, LogScheduleStep, VerifyStep, DecideStep, RemoveStep
            DEF RunStep
  <2> QED BY <1>2, <2>2, <2>3 DEF RunsNext
<1> QED BY <1>1, <1>2

LEMMA RunsAlways == RunsSpec => []RunsInv
<1> QED BY RunsStart, RunsSteps, PTL DEF RunsSpec

\* The tasks of the runs that are under way: the count of active tasks is their
\* number.
Share(r) == {r} \X (1 .. Count(r))
Shares == UNION {Share(r) : r \in Running}
CountInv == IsFiniteSet(Shares) /\ active = Cardinality(Shares)

LEMMA ShareFacts ==
    ASSUME NEW r \in Run
    PROVE  Count(r) \in Nat /\ IsFiniteSet(Share(r)) /\ Cardinality(Share(r)) = Count(r)
<1>1. Count(r) \in Nat
  BY TasksFacts, LenProperties DEF Count
<1>2. IsFiniteSet(1 .. Count(r)) /\ Cardinality(1 .. Count(r)) = Count(r)
  BY <1>1, FS_Interval
<1> DEFINE f == [k \in 1 .. Count(r) |-> <<r, k>>]
<1>3. f \in Bijection(1 .. Count(r), Share(r))
  BY DEF Share, Bijection, Injection, Surjection, IsInjective
<1>4. ExistsBijection(1 .. Count(r), Share(r))
  BY <1>3 DEF ExistsBijection
<1> QED BY <1>1, <1>2, <1>4, FS_Bijection

\* Where one run moves, and the others stay.
LEMMA RunningMoves ==
    ASSUME RunsInv, NEW r \in Running, NEW x, DOMAIN x = {"at", "todo", "spawned", "passed"},
           run' = [run EXCEPT ![r] = x]
    PROVE  Running' = IF x.at \in {"before", "over"} THEN Running \ {r} ELSE Running
<1>1. run \in [Run -> RunState] /\ r \in Run
  BY DEF RunsInv, RunsTypeOK, RunState, Running
<1>2. run'[r] = x /\ \A s \in Run : s # r => run'[s] = run[s]
  BY <1>1
<1>3. \A s \in Run : s \in Running' <=> IF s = r THEN x.at \notin {"before", "over"} ELSE s \in Running
  BY <1>2 DEF Running
<1>4. Running \subseteq Run /\ Running' \subseteq Run
  BY DEF Running
<1> QED BY <1>3, <1>4

LEMMA RunningLoops ==
    ASSUME RunsInv, NEW r \in Running, NEW c, DOMAIN c = {"at", "todo", "spawned", "passed"},
           NEW place \in Place \ {"before", "over"}, NEW next \in Place \ {"before"}, Loops(c, r, place, next)
    PROVE  Running' = IF next = "over" /\ Tail(run[r].todo) = <<>> THEN Running \ {r} ELSE Running
<1> DEFINE rest == Tail(run[r].todo)
           x == [c EXCEPT !.at = IF rest = <<>> THEN next ELSE place, !.todo = IF rest = <<>> THEN Tasks[r] ELSE rest]
<1>1. run' = [run EXCEPT ![r] = x]
  BY DEF Loops
<1>2. DOMAIN x = {"at", "todo", "spawned", "passed"} /\ x.at = IF rest = <<>> THEN next ELSE place
  OBVIOUS
<1> HIDE DEF x
<1> QED BY <1>1, <1>2, RunningMoves

\* A run joins with its share, or leaves with it.
Joins(r) == r \in Run \ Running /\ Running' = Running \cup {r} /\ active' = active + Count(r)
Leaves(r) == r \in Running /\ Running' = Running \ {r} /\ active' = active - Count(r)
Stays == Running' = Running /\ active' = active

LEMMA RunStepCounts ==
    ASSUME RunsInv, NEW r \in Run, RunStep(r)
    PROVE  Joins(r) \/ Leaves(r) \/ Stays
<1>1. Proper(r, run[r]) /\ run[r] \in RunState /\ DOMAIN run[r] = {"at", "todo", "spawned", "passed"}
  BY DEF RunsInv, AllProper, Proper, RunState
<1>2. \A place \in Place \ {"before", "over"} : r \in Running /\ Moves(r, place) => Running' = Running
  <2> SUFFICES ASSUME NEW place \in Place \ {"before", "over"}, r \in Running, Moves(r, place)
               PROVE  Running' = Running
    OBVIOUS
  <2> DEFINE x == [run[r] EXCEPT !.at = place]
  <2>1. run' = [run EXCEPT ![r] = x] /\ DOMAIN x = {"at", "todo", "spawned", "passed"} /\ x.at = place
    BY <1>1 DEF Moves
  <2> HIDE DEF x
  <2> QED BY <2>1, RunningMoves
<1>3. r \in Running /\ LogFails(r) => Leaves(r)
  <2> SUFFICES ASSUME r \in Running, LogFails(r) PROVE Leaves(r)
    OBVIOUS
  <2> DEFINE x == [run[r] EXCEPT !.at = "over"]
  <2>1. run' = [run EXCEPT ![r] = x] /\ DOMAIN x = {"at", "todo", "spawned", "passed"} /\ x.at = "over"
    BY <1>1 DEF LogFails, Moves
  <2> HIDE DEF x
  <2> QED BY <2>1, RunningMoves DEF Leaves, LogFails
<1>4. CASE Start(r)
  <2> DEFINE x == [run[r] EXCEPT !.at = "spawning"]
  <2>1. run' = [run EXCEPT ![r] = x] /\ x \in RunState /\ x.at = "spawning"
    BY <1>1, <1>4 DEF Start, Moves, RunState, Place
  <2> HIDE DEF x
  <2>2. Running' = Running \cup {r}
    BY <2>1, RunMoves
  <2> QED BY <1>4, <2>2 DEF Start, At, Running, Joins
<1>5. CASE Refuse(r)
  <2> DEFINE x == [run[r] EXCEPT !.at = "over"]
  <2>1. run' = [run EXCEPT ![r] = x] /\ x \in RunState /\ x.at = "over" /\ UNCHANGED active
    BY <1>1, <1>5 DEF Refuse, Moves, RunState, Place
  <2> HIDE DEF x
  <2>2. Running' = Running \ {r} /\ r \notin Running
    BY <1>5, <2>1, RunMoves DEF Refuse, At, Running
  <2>3. Running' = Running
    BY <2>2
  <2> QED BY <2>1, <2>3 DEF Stays
<1>6. CASE MakeTree(r) \/ SpawnFails(r) \/ Execute(r)
  <2>1. r \in Running /\ UNCHANGED active
    BY <1>6 DEF MakeTree, SpawnFails, Execute, At, Running
  <2>2. CASE Moves(r, "spawned") \/ Moves(r, "unspawned")
    BY <2>1, <2>2, <1>2 DEF Stays, Place
  <2>3. CASE Execute(r)
    <3>1. PICK S : run' = [run EXCEPT ![r].at = "scheduled", ![r].passed = S]
      BY <2>3 DEF Execute
    <3> DEFINE x == [run[r] EXCEPT !.at = "scheduled", !.passed = S]
    <3>2. run' = [run EXCEPT ![r] = x] /\ DOMAIN x = {"at", "todo", "spawned", "passed"} /\ x.at = "scheduled"
      BY <3>1, <1>1 DEF RunsInv, RunsTypeOK
    <3> HIDE DEF x
    <3> QED BY <3>2, <2>1, RunningMoves DEF Stays
  <2> QED BY <1>6, <2>2, <2>3 DEF MakeTree, SpawnFails
<1>7. CASE LogSpawn(r)
  <2>1. r \in Running /\ UNCHANGED active
    BY <1>7 DEF LogSpawn, LogDecision, LogRaises, At, Running
  <2> DEFINE c == [run[r] EXCEPT !.spawned = @ \cup {Current(r)}]
  <2>2. DOMAIN c = {"at", "todo", "spawned", "passed"}
    BY <1>1
  <2>3. Loops(c, r, "spawning", "executing") \/ Moves(r, "unspawned")
    BY <1>7 DEF LogSpawn
  <2> HIDE DEF c
  <2> QED BY <1>2, <2>1, <2>2, <2>3, RunningLoops DEF Stays, Place
<1>8. CASE LogSpawnFailure(r) \/ LogSchedule(r)
  <2>1. r \in Running
    BY <1>8 DEF LogSpawnFailure, LogSchedule, At, Running
  <2>2. \/ LogFails(r)
        \/ UNCHANGED active /\ (Loops(run[r], r, "spawning", "executing") \/ Loops(run[r], r, "scheduled", "verifying"))
    BY <1>8 DEF LogSpawnFailure, LogSchedule
  <2>3. \A place, next \in Place \ {"before", "over"} : Loops(run[r], r, place, next) => Running' = Running
    BY <1>1, <2>1, RunningLoops
  <2>4. {"spawning", "executing", "scheduled", "verifying"} \subseteq Place \ {"before", "over"}
    BY DEF Place
  <2> QED BY <1>3, <2>1, <2>2, <2>3, <2>4 DEF Stays
<1>9. CASE Verify(r)
  <2>1. r \in Running
    BY <1>9 DEF Verify, At, Running
  <2>2. CASE LogFails(r)
    BY <1>3, <2>1, <2>2
  <2>3. CASE UNCHANGED active /\ \E gone : Loops([run[r] EXCEPT !.passed = @ \ gone], r, "verifying", "merging")
    <3>1. PICK gone : Loops([run[r] EXCEPT !.passed = @ \ gone], r, "verifying", "merging")
      BY <2>3
    <3> DEFINE c == [run[r] EXCEPT !.passed = @ \ gone]
    <3>2. DOMAIN c = {"at", "todo", "spawned", "passed"} /\ Loops(c, r, "verifying", "merging")
      BY <1>1, <3>1
    <3>3. "verifying" \in Place \ {"before", "over"} /\ "merging" \in Place \ {"before"} /\ "merging" # "over"
      BY DEF Place
    <3> HIDE DEF c
    <3>4. Running' = Running
      BY <2>1, <3>2, <3>3, RunningLoops
    <3> QED BY <2>3, <3>4 DEF Stays
  <2> QED BY <1>9, <2>2, <2>3 DEF Verify
<1>10. CASE Decide(r)
  <2>1. r \in Running
    BY <1>10 DEF Decide, At, Running
  <2>2. LogFails(r) \/ (UNCHANGED active /\ Moves(r, "removing"))
    BY <1>10 DEF Decide
  <2> QED BY <1>2, <1>3, <2>1, <2>2 DEF Stays, Place
<1>11. CASE Remove(r)
  <2>1. r \in Running /\ Loops(run[r], r, "merging", "over")
        /\ active' = IF Tail(run[r].todo) = <<>> THEN active - Count(r) ELSE active
    BY <1>11 DEF Remove, Returns, At, Running
  <2>2. Running' = IF Tail(run[r].todo) = <<>> THEN Running \ {r} ELSE Running
    BY <1>1, <2>1, RunningLoops DEF Place
  <2> QED BY <2>1, <2>2 DEF Leaves, Stays
<1> QED BY <1>4, <1>5, <1>6, <1>7, <1>8, <1>9, <1>10, <1>11 DEF RunStep

LEMMA CountStarts == RunsInit => CountInv
<1> SUFFICES ASSUME RunsInit PROVE CountInv
  OBVIOUS
<1>1. Running = {} /\ active = 0
  BY DEF RunsInit, Running
<1>2. Shares = {}
  BY <1>1 DEF Shares
<1> QED BY <1>1, <1>2, FS_EmptySet DEF CountInv

LEMMA CountSteps == RunsInv /\ CountInv /\ [RunsNext]_bernsteinVars => CountInv'
<1> SUFFICES ASSUME RunsInv, CountInv, [RunsNext]_bernsteinVars PROVE CountInv'
  OBVIOUS
<1> USE DEF CountInv
<1>1. CASE Stays
  <2>1. Shares' = Shares
    BY <1>1 DEF Stays, Shares, Share, Count
  <2> QED BY <1>1, <2>1 DEF Stays
<1>2. ASSUME NEW r, Joins(r) PROVE CountInv'
  <2>1. r \in Run /\ Shares' = Shares \cup Share(r) /\ Shares \cap Share(r) = {}
    BY <1>2 DEF Joins, Shares, Share, Count
  <2>2. IsFiniteSet(Share(r)) /\ Cardinality(Share(r)) = Count(r) /\ Count(r) \in Nat /\ Cardinality(Shares) \in Nat
    BY <2>1, ShareFacts, FS_CardinalityType
  <2>3. IsFiniteSet(Shares') /\ Cardinality(Shares') = Cardinality(Shares) + Count(r) - Cardinality(Shares \cap Share(r))
    BY <2>1, <2>2, FS_Union
  <2>4. Cardinality(Shares \cap Share(r)) = 0
    BY <2>1, FS_EmptySet
  <2>5. active' = Cardinality(Shares) + Count(r)
    BY <1>2 DEF Joins
  <2> QED BY <2>2, <2>3, <2>4, <2>5
<1>3. ASSUME NEW r, Leaves(r) PROVE CountInv'
  <2>1. r \in Run /\ Shares' = Shares \ Share(r) /\ Shares \cap Share(r) = Share(r)
    BY <1>3 DEF Leaves, Shares, Share, Count, Running
  <2>2. Cardinality(Share(r)) = Count(r)
    BY <2>1, ShareFacts
  <2>3. IsFiniteSet(Shares') /\ Cardinality(Shares') = Cardinality(Shares) - Cardinality(Shares \cap Share(r))
    BY <2>1, FS_Difference
  <2> QED BY <1>3, <2>1, <2>2, <2>3 DEF Leaves
<1>4. CASE Restart
  <2>1. Running' = {} /\ active' = 0
    <3>1. \A r \in Run : run'[r].at \in {"before", "over"}
      <4> SUFFICES ASSUME NEW r \in Run PROVE run'[r].at \in {"before", "over"}
        OBVIOUS
      <4>1. run'[r] = IF r \in Running THEN [run[r] EXCEPT !.at = "over"] ELSE run[r]
        BY <1>4 DEF Restart
      <4>2. run[r] \in RunState
        BY DEF RunsInv, RunsTypeOK, RunState
      <4> QED BY <4>1, <4>2 DEF Running, RunState
    <3> QED BY <3>1, <1>4 DEF Running, Restart
  <2>2. Shares' = {}
    BY <2>1 DEF Shares
  <2> QED BY <2>1, <2>2, FS_EmptySet
<1>5. CASE UNCHANGED bernsteinVars
  BY <1>1, <1>5 DEF bernsteinVars, runVars, Stays, Running
<1>6. CASE \E r \in Run : RunStep(r)
  BY <1>1, <1>2, <1>3, <1>6, RunStepCounts
<1> QED BY <1>4, <1>5, <1>6 DEF RunsNext

\* However the runs interleave, fail and are ended by a restart, the spawner, the
\* worktrees and what is left to each run are of their types.
THEOREM RunsTypeCorrect == RunsSpec => []RunsTypeOK
<1>1. RunsInv => RunsTypeOK
  BY DEF RunsInv
<1> QED BY <1>1, RunsAlways, PTL

\* A run keeps the worktrees it works in unless one that ran beside it has a task
\* of the same name, and a run alone whose log could be written leaves none
\* behind; the count of active tasks is that of the runs under way.  Of
\* orchestrate() and the spawner all its calls share, for any runs and tasks.
THEOREM RunsStayApart == RunsSpec => []RunsIsolated
<1>1. RunsInv => TreesKept
  <2> SUFFICES ASSUME RunsInv, NEW r \in Running, NEW t \in run[r].spawned \ Removed(r)
               PROVE  [by |-> r, task |-> t] \in trees \/ Rivals(r, t) # {}
    BY DEF TreesKept
  <2>1. r \in Run /\ Works(r, t)
    BY DEF Running, Works
  <2>2. t \in TaskId
    BY <2>1, WorkFacts
  <2> QED BY <2>1, <2>2 DEF RunsInv, WorkKept
<1>2. RunsInv => NoTreeLeft
  <2> SUFFICES ASSUME RunsInv, NEW tree \in trees, At(tree.by, "over"), Alone(tree.by) PROVE FALSE
    BY DEF NoTreeLeft, Alone
  <2> QED BY DEF RunsInv, TreesOwned, Running, At
<1>3. CountInv => CountReturned
  <2> SUFFICES ASSUME CountInv, Running = {} PROVE active = 0
    BY DEF CountReturned
  <2>1. Shares = {}
    BY DEF Shares
  <2> QED BY <2>1, FS_EmptySet DEF CountInv
<1>4. RunsSpec => []CountInv
  <2>1. RunsSpec => []RunsInv
    BY RunsAlways
  <2> QED BY <2>1, CountStarts, CountSteps, PTL DEF RunsSpec
<1> QED BY <1>1, <1>2, <1>3, <1>4, RunsAlways, PTL DEF RunsIsolated

\* The log stays honest when concurrent runs write to it and a restart ends them.
THEOREM RunsLogHonest == RunsSpec => []ChainHonest
<1>1. RunsInv => ChainHonest
  BY NoGap, NoAlarm DEF RunsInv, AuditInv, ChainHonest
<1> QED BY <1>1, RunsAlways, PTL

------------------------------------------------------------------------------
(***************************************************************************)
(* The schedules and their ticks.                                          *)
(***************************************************************************)
\* An id that was never in two hands is in one at most, and there once.
OneHand ==
    \A t, u \in Ticker : \A o \in InHand(t), p \in InHand(u) :
        made[o].id = made[p].id /\ made[o].id \notin mixed => t = u /\ o = p
NotAgain == \A t \in Ticker : tick[t].on \notin tick[t].todo
Named == \A i \in Schedule : schedules[i] # Absent => made[schedules[i]].id = i
Unfired == \A o \in Made : o > Len(made) => fired[o] = {}

\* What was registered anew while an older registration is in hand has not been
\* fired yet, so that any last_fire_at will do for it.
NewUntouched ==
    \A t \in Ticker : \A o \in InHand(t) :
        LET p == schedules[made[o].id]
        IN made[o].id \notin mixed /\ p # Absent /\ p # o => fired[p] = {}

\* All windows a registration was fired for are behind the anchor of the tick
\* that has it, or else behind its last_fire_at.
UpTo(o, m) == \A n \in fired[o] : n <= m
Sound(o) == ~made[o].opaque /\ made[o].id \notin mixed
BehindAnchor ==
    \A t \in Ticker : tick[t].on # Absent /\ Sound(tick[t].on) => UpTo(tick[t].on, tick[t].anchor)
BehindLastFire ==
    \A o \in 1 .. Len(made) :
        /\ Sound(o)
        /\ o = schedules[made[o].id] \/ \E t \in Ticker : o \in tick[t].todo
        /\ \A t \in Ticker : tick[t].on # o
        => UpTo(o, lastFire[o])

TicksInv ==
    /\ SchedulesTypeOK
    /\ OneHand /\ NotAgain /\ Named /\ Unfired /\ NewUntouched
    /\ BehindAnchor /\ BehindLastFire
    /\ FiredOnce

Hand == [now : 0 .. MaxMinute, todo : SUBSET (1 .. Len(made)), on : (1 .. Len(made)) \cup {Absent},
         anchor : 0 .. MaxMinute, fires : Nat, skipped : SUBSET (1 .. MaxMinute)]

LEMMA NumbersOfMade ==
    ASSUME SchedulesTypeOK
    PROVE  /\ Len(made) \in Nat /\ 1 .. Len(made) \subseteq Made /\ Absent \notin 1 .. Len(made)
           /\ \A o \in 1 .. Len(made) : made[o] \in Registration
<1>1. Len(made) \in Nat /\ Len(made) <= MaxMade /\ MaxMade \in Nat
  BY SchedulesAssumption DEF SchedulesTypeOK
<1>2. 1 .. Len(made) \subseteq Made
  BY <1>1 DEF Made
<1>3. Absent \notin 1 .. Len(made)
  BY <1>1, SchedulesAssumption
<1>4. \A o \in 1 .. Len(made) : made[o] \in Registration
  BY <1>1 DEF SchedulesTypeOK
<1> QED BY <1>1, <1>2, <1>3, <1>4

LEMMA HandFacts ==
    ASSUME SchedulesTypeOK, NEW t \in Ticker
    PROVE  /\ tick[t] \in Hand
           /\ InHand(t) \subseteq 1 .. Len(made)
           /\ tick[t].todo \subseteq InHand(t)
           /\ tick[t].on # Absent => tick[t].on \in InHand(t) /\ tick[t].on \in 1 .. Len(made)
BY DEF SchedulesTypeOK, Hand, InHand

\* The windows that are due lie between the anchor and the tick; their first
\* and last are among them.
LEMMA DueFacts ==
    ASSUME SchedulesTypeOK, NEW t \in Ticker, tick[t].on # Absent
    PROVE  /\ Due(t) \subseteq 1 .. MaxMinute
           /\ \A m \in Due(t) : tick[t].anchor < m
           /\ Due(t) # {} => Earliest(Due(t)) \in Due(t) /\ Latest(Due(t)) \in Due(t)
           /\ Reached(t) \in 0 .. MaxMinute /\ tick[t].anchor <= Reached(t)
<1>1. /\ tick[t].now \in 0 .. MaxMinute /\ tick[t].anchor \in 0 .. MaxMinute /\ MaxMinute \in Nat
      /\ tick[t].on \in 1 .. Len(made)
  BY HandFacts, SchedulesAssumption DEF Hand
<1>2. made[tick[t].on].cron \subseteq Nat
  BY <1>1, NumbersOfMade, SchedulesAssumption DEF Registration
<1>3. /\ Due(t) \subseteq 1 .. MaxMinute /\ Due(t) \subseteq Nat
      /\ \A m \in Due(t) : tick[t].anchor < m
  BY <1>1, <1>2 DEF Due
<1>4. ASSUME Due(t) # {} PROVE Earliest(Due(t)) \in Due(t) /\ Latest(Due(t)) \in Due(t)
  <2>1. \E m \in Due(t) : \A n \in Due(t) : m <= n
    BY <1>3, <1>4, LeastExists
  <2>2. Due(t) \in SUBSET (0 .. MaxMinute)
    BY <1>3
  <2>3. \E m \in Due(t) : \A n \in Due(t) : n <= m
    BY <2>2, <1>1, <1>4, GreatestExists
  <2> QED BY <2>1, <2>3 DEF Earliest, Latest
<1>5. Reached(t) \in 0 .. MaxMinute /\ tick[t].anchor <= Reached(t)
  <2> DEFINE T == {tick[t].anchor} \cup Due(t)
  <2>1. T \in SUBSET (0 .. MaxMinute) /\ T # {}
    BY <1>1, <1>3
  <2>2. \E m \in T : \A n \in T : n <= m
    <3> HIDE DEF T
    <3> QED BY <2>1, <1>1, GreatestExists
  <2>3. Latest(T) \in T /\ \A n \in T : n <= Latest(T)
    BY <2>2 DEF Latest
  <2> QED BY <2>1, <2>3 DEF Reached
<1> QED BY <1>3, <1>4, <1>5

LEMMA TicksStart == SchedulesInit => TicksInv
<1> SUFFICES ASSUME SchedulesInit PROVE TicksInv
  OBVIOUS
<1> USE SchedulesAssumption DEF SchedulesInit
<1>1. Len(made) = 0
  OBVIOUS
<1>2. \A t \in Ticker : tick[t] = NoTick /\ InHand(t) = {}
  BY DEF InHand, NoTick
<1>3. SchedulesTypeOK
  BY <1>1, <1>2 DEF SchedulesTypeOK, NoTick
<1>4. BehindAnchor /\ NotAgain
  BY <1>2 DEF BehindAnchor, NotAgain, NoTick
<1>5. OneHand /\ NewUntouched
  BY <1>2 DEF OneHand, NewUntouched
<1>6. Named /\ Unfired /\ BehindLastFire /\ FiredOnce
  BY <1>1 DEF Named, Unfired, BehindLastFire, FiredOnce
<1> QED BY <1>3, <1>4, <1>5, <1>6 DEF TicksInv

\* A new registration has not been fired yet, whatever was under its id.
LEMMA RegisterStep ==
    ASSUME TicksInv, NEW i \in Schedule, NEW c \in Cron, NEW catchUp \in BOOLEAN, NEW opaque \in BOOLEAN,
           Register(i, c, catchUp, opaque)
    PROVE  TicksInv'
<1> DEFINE new == [id |-> i, cron |-> c, catchUp |-> catchUp, opaque |-> opaque, at |-> now]
<1>1. /\ Len(made) < MaxMade /\ made' = Append(made, new)
      /\ schedules' = [schedules EXCEPT ![i] = Len(made) + 1]
      /\ UNCHANGED <<now, lastFire, tick, fired, logged, repeated, mixed>>
  BY DEF Register
<1>2. SchedulesTypeOK
  BY DEF TicksInv
<1>3. new \in Registration
  BY <1>2, SchedulesAssumption DEF SchedulesTypeOK, Registration
<1>4. /\ made' \in Seq(Registration) /\ Len(made') = Len(made) + 1
      /\ \A o \in 1 .. Len(made) : made'[o] = made[o]
      /\ made'[Len(made) + 1] = new
      /\ made \in Seq(Registration) /\ Len(made) \in Nat /\ MaxMade \in Nat
  <2> HIDE DEF new
  <2> QED BY <1>1, <1>2, <1>3, SchedulesAssumption DEF SchedulesTypeOK
<1>5. \A t \in Ticker : InHand(t)' = InHand(t) /\ InHand(t) \subseteq 1 .. Len(made)
  BY <1>1, <1>2, HandFacts DEF InHand
<1>6. /\ 1 .. Len(made) \subseteq 1 .. Len(made') /\ Len(made) + 1 \in 1 .. Len(made')
      /\ Absent \notin 1 .. Len(made') /\ Len(made') <= MaxMade
  BY <1>1, <1>4, SchedulesAssumption
<1>7. SchedulesTypeOK'
  <2>1. schedules' \in [Schedule -> (1 .. Len(made')) \cup {Absent}]
    BY <1>1, <1>2, <1>6 DEF SchedulesTypeOK
  <2>2. \A t \in Ticker : tick'[t] \in Hand'
    BY <1>1, <1>2, <1>6, HandFacts DEF Hand
  <2>3. tick' \in [Ticker -> Hand']
    BY <2>2, <1>1, <1>2 DEF SchedulesTypeOK
  <2>4. \A t \in Ticker : InHand(t)' # {} => tick'[t].now > 0
    BY <1>1, <1>2, <1>5 DEF SchedulesTypeOK
  <2>5. repeated' \subseteq 1 .. Len(made')
    BY <1>1, <1>2, <1>6 DEF SchedulesTypeOK
  <2> QED BY <2>1, <2>3, <2>4, <2>5, <1>1, <1>2, <1>4, <1>6 DEF SchedulesTypeOK, Hand
<1>8. Named'
  BY <1>1, <1>2, <1>4 DEF TicksInv, Named, SchedulesTypeOK
<1>9. OneHand' /\ NotAgain'
  BY <1>1, <1>4, <1>5 DEF TicksInv, OneHand, NotAgain
<1>10. fired[Len(made) + 1] = {}
  BY <1>1, <1>4 DEF TicksInv, Unfired, Made
<1>11. Unfired'
  BY <1>1, <1>4 DEF TicksInv, Unfired, Made
<1>12. NewUntouched'
  <2> SUFFICES ASSUME NEW t \in Ticker, NEW o \in InHand(t)', made'[o].id \notin mixed',
                      schedules'[made'[o].id] # Absent, schedules'[made'[o].id] # o
               PROVE  fired'[schedules'[made'[o].id]] = {}
    BY DEF NewUntouched
  <2>1. o \in InHand(t) /\ o \in 1 .. Len(made) /\ made'[o] = made[o] /\ made[o].id \in Schedule
    BY <1>2, <1>4, <1>5, NumbersOfMade DEF Registration
  <2>2. CASE made[o].id = i
    BY <2>1, <2>2, <1>1, <1>2, <1>10 DEF SchedulesTypeOK
  <2>3. CASE made[o].id # i
    BY <2>1, <2>3, <1>1, <1>2 DEF SchedulesTypeOK, TicksInv, NewUntouched
  <2> QED BY <2>2, <2>3
<1>13. BehindAnchor'
  <2> SUFFICES ASSUME NEW t \in Ticker, tick'[t].on # Absent, Sound(tick[t].on)'
               PROVE  UpTo(tick[t].on, tick[t].anchor)'
    BY DEF BehindAnchor
  <2>1. tick[t].on \in 1 .. Len(made) /\ tick' = tick /\ fired' = fired /\ mixed' = mixed
    BY <1>1, <1>2, HandFacts
  <2> QED BY <2>1, <1>4 DEF TicksInv, BehindAnchor, Sound, UpTo
<1>14. BehindLastFire'
  <2> SUFFICES ASSUME NEW o \in 1 .. Len(made'), Sound(o)',
                      o = schedules'[made'[o].id] \/ \E t \in Ticker : o \in tick'[t].todo,
                      \A t \in Ticker : tick'[t].on # o
               PROVE  UpTo(o, lastFire[o])'
    BY DEF BehindLastFire
  <2>1. CASE o = Len(made) + 1
    BY <2>1, <1>1, <1>10 DEF UpTo
  <2>2. CASE o # Len(made) + 1
    <3>1. o \in 1 .. Len(made) /\ made'[o] = made[o] /\ made[o].id \in Schedule
      <4>1. o \in 1 .. Len(made)
        BY <2>2, <1>4
      <4> QED BY <4>1, <1>2, <1>4, NumbersOfMade DEF Registration
    <3>2. o = schedules'[made[o].id] => o = schedules[made[o].id]
      BY <3>1, <2>2, <1>1, <1>2 DEF SchedulesTypeOK
    <3>3. o = schedules[made[o].id] \/ \E t \in Ticker : o \in tick[t].todo
      BY <3>1, <3>2, <1>1
    <3> QED BY <3>1, <3>3, <1>1 DEF TicksInv, BehindLastFire, Sound, UpTo
  <2> QED BY <2>1, <2>2
<1>15. FiredOnce'
  BY <1>1, <1>2, <1>4 DEF TicksInv, FiredOnce, SchedulesTypeOK
<1> QED BY <1>7, <1>8, <1>9, <1>11, <1>12, <1>13, <1>14, <1>15 DEF TicksInv

\* A registration goes, or time passes.
LEMMA QuietStep ==
    ASSUME TicksInv, UNCHANGED <<made, lastFire, tick, fired, logged, repeated, mixed>>,
           \/ now' = now /\ \E i \in Schedule : schedules' = [schedules EXCEPT ![i] = Absent]
           \/ schedules' = schedules /\ now' \in 1 .. MaxMinute
    PROVE  TicksInv'
<1>1. SchedulesTypeOK
  BY DEF TicksInv
<1>2. /\ schedules' \in [Schedule -> (1 .. Len(made)) \cup {Absent}] /\ now' \in 1 .. MaxMinute
      /\ \A j \in Schedule : schedules'[j] # Absent => schedules'[j] = schedules[j]
  BY <1>1 DEF SchedulesTypeOK
<1>3. \A t \in Ticker : InHand(t)' = InHand(t) /\ InHand(t) \subseteq 1 .. Len(made)
  BY <1>1, HandFacts DEF InHand
<1>4. SchedulesTypeOK'
  BY <1>1, <1>2, <1>3 DEF SchedulesTypeOK
<1>5. \A o \in 1 .. Len(made) : made[o].id \in Schedule
  BY <1>1, NumbersOfMade DEF Registration
<1>6. Absent \notin 1 .. Len(made)
  BY <1>1, NumbersOfMade
<1>7. OneHand' /\ NotAgain' /\ Named' /\ Unfired' /\ FiredOnce'
  BY <1>2, <1>3 DEF TicksInv, OneHand, NotAgain, Named, Unfired, FiredOnce
<1>8. NewUntouched'
  BY <1>2, <1>3, <1>5 DEF TicksInv, NewUntouched
<1>9. BehindAnchor'
  BY DEF TicksInv, BehindAnchor, Sound, UpTo
<1>10. BehindLastFire'
  BY <1>2, <1>5, <1>6 DEF TicksInv, BehindLastFire, Sound, UpTo
<1> QED BY <1>4, <1>7, <1>8, <1>9, <1>10 DEF TicksInv

\* What a step that changes one tick does to the hands of all.
LEMMA HandMoves ==
    ASSUME SchedulesTypeOK, NEW t \in Ticker, NEW h \in Hand, tick' = [tick EXCEPT ![t] = h]
    PROVE  /\ tick' \in [Ticker -> Hand] /\ tick'[t] = h
           /\ \A u \in Ticker : u # t => tick'[u] = tick[u] /\ InHand(u)' = InHand(u)
           /\ InHand(t)' = h.todo \cup ({h.on} \ {Absent})
BY DEF SchedulesTypeOK, Hand, InHand

LEMMA BeginStep ==
    ASSUME TicksInv, NEW t \in Ticker, Begin(t)
    PROVE  TicksInv'
<1> DEFINE registered == {schedules[i] : i \in Schedule} \ {Absent}
           h == [tick[t] EXCEPT !.now = now, !.todo = registered]
<1>1. /\ tick[t] = NoTick /\ registered # {}
      /\ mixed' = mixed \cup (Ids(registered) \cap UNION {Ids(InHand(u)) : u \in Ticker \ {t}})
      /\ UNCHANGED <<now, schedules, made, lastFire, fired, logged, repeated>>
  BY DEF Begin
<1>2. SchedulesTypeOK
  BY DEF TicksInv
<1>3. tick' = [tick EXCEPT ![t] = h]
  <2>1. tick \in [Ticker -> Hand]
    BY <1>2 DEF SchedulesTypeOK, Hand
  <2> HIDE DEF registered
  <2> QED BY <2>1 DEF Begin, registered, Hand
<1>4. /\ registered \subseteq 1 .. Len(made)
      /\ \A o \in registered : schedules[made[o].id] = o /\ made[o].id \in Schedule
  BY <1>2 DEF TicksInv, Named, SchedulesTypeOK
<1>5. /\ h \in Hand /\ h.todo = registered /\ h.on = Absent /\ h.now > 0
  <2>1. now \in 1 .. MaxMinute /\ MaxMinute \in Nat /\ registered \in SUBSET (1 .. Len(made))
    BY <1>2, <1>4, SchedulesAssumption DEF SchedulesTypeOK
  <2>2. tick[t] \in Hand /\ tick[t].on = Absent
    BY <1>1, <1>2, HandFacts DEF NoTick
  <2>3. now \in 0 .. MaxMinute /\ now > 0
    BY <2>1
  <2> HIDE DEF registered
  <2>4. h \in Hand
    BY <2>1, <2>2, <2>3 DEF Hand
  <2> QED BY <2>2, <2>3, <2>4 DEF Hand
<1>6. /\ tick' \in [Ticker -> Hand] /\ tick'[t] = h /\ InHand(t)' = registered
      /\ \A u \in Ticker : u # t => tick'[u] = tick[u] /\ InHand(u)' = InHand(u)
      /\ tick[t].on = Absent /\ tick[t].todo = {}
  <2>1. tick[t].on = Absent /\ tick[t].todo = {}
    BY <1>1 DEF NoTick
  <2> HIDE DEF h, registered
  <2>2. tick' \in [Ticker -> Hand] /\ tick'[t] = h /\ InHand(t)' = h.todo \cup ({h.on} \ {Absent})
    BY <1>2, <1>3, <1>5, HandMoves
  <2>3. h.todo \cup ({h.on} \ {Absent}) = registered
    BY <1>5
  <2> QED BY <2>1, <2>2, <2>3, <1>2, <1>3, <1>5, HandMoves
<1>7. /\ mixed \subseteq mixed' /\ mixed' \subseteq Schedule
      /\ \A u \in Ticker \ {t} : \A o \in registered, p \in InHand(u) :
            made[o].id = made[p].id => made[o].id \in mixed'
  <2>1. \A o \in registered : made[o].id \in Ids(registered)
    BY DEF Ids
  <2>2. \A u \in Ticker : \A p \in InHand(u) : made[p].id \in Ids(InHand(u))
    BY DEF Ids
  <2>3. Ids(registered) \subseteq Schedule
    BY <1>4 DEF Ids
  <2> HIDE DEF registered
  <2> QED BY <1>1, <1>2, <2>1, <2>2, <2>3 DEF SchedulesTypeOK
<1> HIDE DEF h, registered
<1>8. SchedulesTypeOK'
  <2>1. \A u \in Ticker : InHand(u)' # {} => tick'[u].now > 0
    BY <1>2, <1>5, <1>6 DEF SchedulesTypeOK
  <2> QED BY <2>1, <1>1, <1>2, <1>6, <1>7 DEF SchedulesTypeOK, Hand
<1>9. OneHand'
  <2> SUFFICES ASSUME NEW u \in Ticker, NEW v \in Ticker, NEW o \in InHand(u)', NEW p \in InHand(v)',
                      made[o].id = made[p].id, made[o].id \notin mixed'
               PROVE  u = v /\ o = p
    BY <1>1 DEF OneHand
  <2>1. CASE u = t /\ v = t
    BY <2>1, <1>4, <1>6
  <2>2. CASE u = t /\ v # t
    BY <2>2, <1>6, <1>7
  <2>3. CASE u # t /\ v = t
    BY <2>3, <1>6, <1>7
  <2>4. CASE u # t /\ v # t
    BY <2>4, <1>6, <1>7 DEF TicksInv, OneHand
  <2> QED BY <2>1, <2>2, <2>3, <2>4
<1>10. NotAgain'
  BY <1>4, <1>5, <1>6, <1>2, NumbersOfMade DEF TicksInv, NotAgain
<1>11. Named' /\ Unfired'
  BY <1>1 DEF TicksInv, Named, Unfired
<1>12. NewUntouched'
  BY <1>1, <1>4, <1>6, <1>7 DEF TicksInv, NewUntouched
<1>13. BehindAnchor'
  <2> SUFFICES ASSUME NEW u \in Ticker, tick'[u].on # Absent, Sound(tick[u].on)'
               PROVE  UpTo(tick[u].on, tick[u].anchor)'
    BY DEF BehindAnchor
  <2>1. u # t /\ tick'[u] = tick[u]
    BY <1>5, <1>6
  <2> QED BY <2>1, <1>1, <1>7 DEF TicksInv, BehindAnchor, Sound, UpTo
<1>14. BehindLastFire'
  <2> SUFFICES ASSUME NEW o \in 1 .. Len(made), Sound(o)',
                      o = schedules[made[o].id] \/ \E u \in Ticker : o \in tick'[u].todo,
                      \A u \in Ticker : tick'[u].on # o
               PROVE  UpTo(o, lastFire[o])
    BY <1>1 DEF BehindLastFire, UpTo
  <2>1. o = schedules[made[o].id] \/ \E u \in Ticker : o \in tick[u].todo
    BY <1>4, <1>5, <1>6
  <2>2. \A u \in Ticker : tick[u].on # o
    BY <1>2, <1>6, NumbersOfMade
  <2>3. Sound(o)
    BY <1>1, <1>7 DEF Sound
  <2> QED BY <2>1, <2>2, <2>3 DEF TicksInv, BehindLastFire
<1>15. FiredOnce'
  BY <1>1, <1>7 DEF TicksInv, FiredOnce
<1> QED BY <1>8, <1>9, <1>10, <1>11, <1>12, <1>13, <1>14, <1>15 DEF TicksInv

LEMMA TakeStep ==
    ASSUME TicksInv, NEW t \in Ticker, NEW o \in Made, Take(t, o)
    PROVE  TicksInv'
<1> DEFINE anchor == IF lastFire[o] # 0 THEN lastFire[o] ELSE tick[t].now - 1
           h == [tick[t] EXCEPT !.todo = @ \ {o}, !.on = o, !.fires = 0, !.skipped = {}, !.anchor = anchor]
<1>1. /\ tick[t].on = Absent /\ o \in tick[t].todo
      /\ UNCHANGED <<now, schedules, made, lastFire, fired, logged, repeated, mixed>>
  BY DEF Take
<1>2. SchedulesTypeOK /\ tick[t] \in Hand /\ o \in 1 .. Len(made) /\ o # Absent /\ o \in InHand(t)
  BY <1>1, HandFacts, NumbersOfMade DEF TicksInv, Hand
<1>3. tick' = [tick EXCEPT ![t] = h]
  BY <1>1, <1>2 DEF Take, SchedulesTypeOK, Hand
<1>4. tick[t].now \in 1 .. MaxMinute /\ lastFire[o] \in 0 .. MaxMinute /\ anchor \in 0 .. MaxMinute
  <2>1. tick[t].now > 0 /\ tick[t].now \in 0 .. MaxMinute /\ MaxMinute \in Nat
    BY <1>1, <1>2, SchedulesAssumption DEF SchedulesTypeOK, Hand, InHand
  <2>2. lastFire[o] \in 0 .. MaxMinute
    BY <1>2, NumbersOfMade DEF SchedulesTypeOK
  <2> QED BY <2>1, <2>2
<1>5. h \in Hand /\ h.todo = tick[t].todo \ {o} /\ h.on = o /\ h.anchor = anchor /\ h.now = tick[t].now
  <2> HIDE DEF anchor
  <2> QED BY <1>2, <1>4 DEF Hand
<1>6. /\ tick' \in [Ticker -> Hand] /\ tick'[t] = h /\ InHand(t)' = InHand(t)
      /\ \A u \in Ticker : u # t => tick'[u] = tick[u]
      /\ \A u \in Ticker : InHand(u)' = InHand(u)
  <2>1. h.todo \cup ({h.on} \ {Absent}) = InHand(t)
    BY <1>1, <1>2, <1>5 DEF InHand
  <2> HIDE DEF h
  <2> QED BY <2>1, <1>2, <1>3, <1>5, HandMoves
<1> HIDE DEF h
<1>7. SchedulesTypeOK'
  <2>1. \A u \in Ticker : InHand(u)' # {} => tick'[u].now > 0
    BY <1>2, <1>4, <1>5, <1>6 DEF SchedulesTypeOK
  <2> QED BY <2>1, <1>1, <1>2, <1>6 DEF SchedulesTypeOK, Hand
<1>8. OneHand' /\ Named' /\ Unfired' /\ FiredOnce'
  BY <1>1, <1>6 DEF TicksInv, OneHand, Named, Unfired, FiredOnce
<1>9. NotAgain'
  BY <1>5, <1>6 DEF TicksInv, NotAgain
<1>10. NewUntouched'
  BY <1>1, <1>6 DEF TicksInv, NewUntouched
<1>11. Sound(o) => UpTo(o, lastFire[o])
  <2> SUFFICES ASSUME Sound(o) PROVE UpTo(o, lastFire[o])
    OBVIOUS
  <2>1. ASSUME NEW u \in Ticker, tick[u].on = o PROVE FALSE
    <3>1. o \in InHand(u)
      BY <2>1, <1>2 DEF InHand
    <3>2. u = t
      BY <3>1, <1>2 DEF TicksInv, OneHand, Sound
    <3> QED BY <3>2, <2>1, <1>1, <1>2
  <2> QED BY <2>1, <1>1, <1>2 DEF TicksInv, BehindLastFire
<1>12. Sound(o) => UpTo(o, anchor)
  <2>1. fired[o] \subseteq 1 .. MaxMinute
    BY <1>2, NumbersOfMade DEF SchedulesTypeOK
  <2> QED BY <2>1, <1>11, <1>4 DEF UpTo
<1> HIDE DEF anchor
<1>13. BehindAnchor'
  <2> SUFFICES ASSUME NEW u \in Ticker, tick'[u].on # Absent, Sound(tick[u].on)'
               PROVE  UpTo(tick[u].on, tick[u].anchor)'
    BY DEF BehindAnchor
  <2>1. CASE u = t
    BY <2>1, <1>1, <1>5, <1>6, <1>12 DEF Sound, UpTo
  <2>2. CASE u # t
    BY <2>2, <1>1, <1>6 DEF TicksInv, BehindAnchor, Sound, UpTo
  <2> QED BY <2>1, <2>2
<1>14. BehindLastFire'
  <2> SUFFICES ASSUME NEW p \in 1 .. Len(made), Sound(p),
                      p = schedules[made[p].id] \/ \E u \in Ticker : p \in tick'[u].todo,
                      \A u \in Ticker : tick'[u].on # p
               PROVE  UpTo(p, lastFire[p])
    BY <1>1 DEF BehindLastFire, UpTo, Sound
  <2>1. p # o
    BY <1>5, <1>6
  <2>2. p = schedules[made[p].id] \/ \E u \in Ticker : p \in tick[u].todo
    BY <1>5, <1>6
  <2>3. \A u \in Ticker : tick[u].on # p
    BY <1>1, <1>2, <1>6, NumbersOfMade
  <2> QED BY <2>2, <2>3 DEF TicksInv, BehindLastFire
<1> QED BY <1>7, <1>8, <1>9, <1>10, <1>13, <1>14 DEF TicksInv

LEMMA LeftFacts ==
    ASSUME SchedulesTypeOK, NEW t \in Ticker, tick[t].on # Absent
    PROVE  /\ Left(t) \in Hand /\ Left(t).todo = tick[t].todo /\ Left(t).on = Absent
           /\ Left(t).todo # {} => Left(t).now > 0
<1>1. tick[t] \in Hand /\ tick[t].now > 0 /\ MaxMinute \in Nat
  BY HandFacts, SchedulesAssumption DEF SchedulesTypeOK
<1>2. CASE tick[t].todo = {}
  BY <1>1, <1>2 DEF Left, NoTick, Hand
<1>3. CASE tick[t].todo # {}
  BY <1>1, <1>3 DEF Left, Hand
<1> QED BY <1>2, <1>3

LEMMA FireStep ==
    ASSUME TicksInv, NEW t \in Ticker, Fire(t)
    PROVE  TicksInv'
<1> DEFINE o == tick[t].on
           m == IF made[o].catchUp THEN Earliest(Due(t)) ELSE Latest(Due(t))
           go == [tick[t] EXCEPT !.anchor = m, !.fires = @ + 1, !.skipped = @ \cup {n \in Due(t) : n < m}]
           h == IF made[o].opaque THEN Left(t) ELSE go
<1>1. /\ o # Absent /\ Due(t) # {}
      /\ fired' = [fired EXCEPT ![o] = @ \cup {m}]
      /\ repeated' = IF \E n \in fired[o] : n >= m THEN repeated \cup {o} ELSE repeated
      /\ UNCHANGED <<now, schedules, made, lastFire, logged, mixed>>
  BY DEF Fire
<1>2. /\ SchedulesTypeOK /\ tick[t] \in Hand /\ o \in 1 .. Len(made) /\ o \in InHand(t) /\ o \in Made
      /\ tick[t].now > 0
  BY <1>1, HandFacts, NumbersOfMade DEF TicksInv, SchedulesTypeOK
<1>3. m \in Due(t) /\ m \in 1 .. MaxMinute /\ tick[t].anchor < m /\ Due(t) \subseteq 1 .. MaxMinute
  BY <1>1, <1>2, DueFacts
<1>4. /\ h \in Hand /\ h.todo = tick[t].todo /\ (h.todo \cup ({h.on} \ {Absent}) # {} => h.now > 0)
      /\ made[o].opaque => h.on = Absent
      /\ ~made[o].opaque => h.on = o /\ h.anchor = m
  <2>1. /\ go \in Hand /\ go.todo = tick[t].todo /\ go.on = o /\ go.anchor = m /\ go.now = tick[t].now
    <3> HIDE DEF m
    <3> DEFINE k == tick[t].fires + 1
               skipped == tick[t].skipped \cup {n \in Due(t) : n < m}
    <3>1. k \in Nat /\ skipped \in SUBSET (1 .. MaxMinute) /\ m \in 0 .. MaxMinute
      BY <1>2, <1>3, SchedulesAssumption DEF Hand
    <3>2. go = [tick[t] EXCEPT !.anchor = m, !.fires = k, !.skipped = skipped]
      BY <1>2 DEF Hand
    <3> HIDE DEF k, skipped, go
    <3> QED BY <3>1, <3>2, <1>2 DEF Hand
  <2>2. /\ Left(t) \in Hand /\ Left(t).todo = tick[t].todo /\ Left(t).on = Absent
        /\ Left(t).todo # {} => Left(t).now > 0
    BY <1>1, <1>2, LeftFacts
  <2> HIDE DEF go, m
  <2> QED BY <2>1, <2>2, <1>2
<1>5. tick' = [tick EXCEPT ![t] = h]
  BY <1>1 DEF Fire
<1>6. /\ tick' \in [Ticker -> Hand] /\ tick'[t] = h
      /\ \A u \in Ticker : u # t => tick'[u] = tick[u] /\ InHand(u)' = InHand(u)
      /\ InHand(t)' = h.todo \cup ({h.on} \ {Absent})
      /\ \A u \in Ticker : InHand(u)' \subseteq InHand(u) /\ tick'[u].todo = tick[u].todo
  <2> HIDE DEF h
  <2>1. /\ tick' \in [Ticker -> Hand] /\ tick'[t] = h
        /\ \A u \in Ticker : u # t => tick'[u] = tick[u] /\ InHand(u)' = InHand(u)
        /\ InHand(t)' = h.todo \cup ({h.on} \ {Absent})
    BY <1>2, <1>4, <1>5, HandMoves
  <2>2. h.todo \cup ({h.on} \ {Absent}) \subseteq InHand(t)
    BY <1>1, <1>4 DEF InHand
  <2> QED BY <2>1, <2>2, <1>4
<1> HIDE DEF h, go, m
<1>7. SchedulesTypeOK'
  <2>1. fired' \in [Made -> SUBSET (1 .. MaxMinute)]
    BY <1>1, <1>2, <1>3 DEF SchedulesTypeOK
  <2>2. \A u \in Ticker : InHand(u)' # {} => tick'[u].now > 0
    BY <1>2, <1>4, <1>6 DEF SchedulesTypeOK
  <2>3. repeated' \subseteq 1 .. Len(made)
    BY <1>1, <1>2 DEF SchedulesTypeOK
  <2> QED BY <2>1, <2>2, <2>3, <1>1, <1>2, <1>6 DEF SchedulesTypeOK, Hand
<1>8. OneHand' /\ Named'
  BY <1>1, <1>6 DEF TicksInv, OneHand, Named
<1>9. NotAgain'
  <2>1. tick[t].on \notin tick[t].todo /\ Absent \notin tick[t].todo
    BY <1>2, NumbersOfMade DEF TicksInv, NotAgain, Hand
  <2> QED BY <2>1, <1>4, <1>6 DEF TicksInv, NotAgain
<1>10. \A p \in Made : p # o => fired'[p] = fired[p]
  BY <1>1, <1>2 DEF SchedulesTypeOK
<1>11. Unfired'
  <2>1. Len(made) \in Nat /\ o \in Nat /\ o <= Len(made)
    BY <1>2, NumbersOfMade
  <2> QED BY <2>1, <1>1, <1>10 DEF TicksInv, Unfired, Made
<1>12. NewUntouched'
  <2> SUFFICES ASSUME NEW u \in Ticker, NEW p \in InHand(u), made[p].id \notin mixed,
                      schedules[made[p].id] # Absent, schedules[made[p].id] # p
               PROVE  fired'[schedules[made[p].id]] = {}
    BY <1>1, <1>6 DEF NewUntouched
  <2> DEFINE q == schedules[made[p].id]
  <2>1. p \in 1 .. Len(made) /\ made[p].id \in Schedule
    BY <1>2, HandFacts, NumbersOfMade DEF Registration
  <2>2. q \in 1 .. Len(made) /\ made[q].id = made[p].id /\ q \in Made
    BY <2>1, <1>2, NumbersOfMade DEF TicksInv, Named, SchedulesTypeOK
  <2>3. q # o
    BY <2>2, <1>2 DEF TicksInv, OneHand
  <2> QED BY <2>2, <2>3, <1>10 DEF TicksInv, NewUntouched
<1>13. Sound(o) => UpTo(o, tick[t].anchor)
  BY <1>1 DEF TicksInv, BehindAnchor
<1>14. fired[o] \subseteq 1 .. MaxMinute /\ fired'[o] = fired[o] \cup {m} /\ tick[t].anchor \in 0 .. MaxMinute
  BY <1>1, <1>2 DEF SchedulesTypeOK, Hand
<1>15. BehindAnchor'
  <2> SUFFICES ASSUME NEW u \in Ticker, tick'[u].on # Absent, Sound(tick[u].on)'
               PROVE  UpTo(tick[u].on, tick[u].anchor)'
    BY DEF BehindAnchor
  <2>1. CASE u = t
    <3>1. ~made[o].opaque /\ tick'[u].on = o /\ tick'[u].anchor = m /\ Sound(o)
      BY <2>1, <1>1, <1>4, <1>6 DEF Sound
    <3>2. \A n \in fired[o] \cup {m} : n <= m
      BY <3>1, <1>3, <1>13, <1>14 DEF UpTo
    <3> QED BY <3>1, <3>2, <1>14 DEF UpTo
  <2>2. CASE u # t
    <3>1. tick'[u] = tick[u] /\ tick[u].on \in InHand(u) /\ Sound(tick[u].on) /\ tick[u].on \in Made
      BY <2>2, <1>1, <1>2, <1>6, HandFacts, NumbersOfMade DEF Sound
    <3>2. tick[u].on # o
      BY <3>1, <2>2, <1>2 DEF TicksInv, OneHand, Sound
    <3> QED BY <3>1, <3>2, <1>10 DEF TicksInv, BehindAnchor, UpTo
  <2> QED BY <2>1, <2>2
<1>16. BehindLastFire'
  <2> SUFFICES ASSUME NEW p \in 1 .. Len(made), Sound(p),
                      p = schedules[made[p].id] \/ \E u \in Ticker : p \in tick[u].todo,
                      \A u \in Ticker : tick'[u].on # p
               PROVE  UpTo(p, lastFire[p])'
    BY <1>1, <1>6 DEF BehindLastFire, Sound
  <2>1. p # o
    BY <1>4, <1>6 DEF Sound
  <2>2. \A u \in Ticker : tick[u].on # p
    BY <2>1, <1>6
  <2>3. p \in Made
    BY <1>2, NumbersOfMade
  <2> QED BY <2>1, <2>2, <2>3, <1>1, <1>10 DEF TicksInv, BehindLastFire, UpTo
<1>17. FiredOnce'
  <2>1. Sound(o) => ~ \E n \in fired[o] : n >= m
    BY <1>3, <1>13, <1>14 DEF UpTo
  <2> QED BY <2>1, <1>1 DEF TicksInv, FiredOnce, Sound
<1> QED BY <1>7, <1>8, <1>9, <1>11, <1>12, <1>15, <1>16, <1>17 DEF TicksInv

LEMMA EndStep ==
    ASSUME TicksInv, NEW t \in Ticker, End(t)
    PROVE  TicksInv'
<1> DEFINE o == tick[t].on
           i == made[o].id
<1>1. /\ o # Absent /\ logged' = [logged EXCEPT ![o] = @ \cup Passed(t)]
      /\ lastFire' = IF schedules[i] = Absent THEN lastFire
                     ELSE [lastFire EXCEPT ![schedules[i]] = Reached(t)]
      /\ tick' = [tick EXCEPT ![t] = Left(t)]
      /\ UNCHANGED <<now, schedules, made, fired, repeated, mixed>>
  BY DEF End, Finished
<1>2. /\ SchedulesTypeOK /\ tick[t] \in Hand /\ o \in 1 .. Len(made) /\ o \in InHand(t) /\ o \in Made
      /\ i \in Schedule
  BY <1>1, HandFacts, NumbersOfMade DEF TicksInv, Registration
<1>3. /\ Left(t) \in Hand /\ Left(t).todo = tick[t].todo /\ Left(t).on = Absent
      /\ Left(t).todo # {} => Left(t).now > 0
  BY <1>1, <1>2, LeftFacts
<1>4. Reached(t) \in 0 .. MaxMinute /\ tick[t].anchor <= Reached(t) /\ Passed(t) \subseteq 1 .. MaxMinute
  BY <1>1, <1>2, DueFacts DEF Passed, Hand
<1>5. /\ tick' \in [Ticker -> Hand] /\ tick'[t] = Left(t)
      /\ \A u \in Ticker : u # t => tick'[u] = tick[u] /\ InHand(u)' = InHand(u)
      /\ InHand(t)' = tick[t].todo
      /\ \A u \in Ticker : InHand(u)' \subseteq InHand(u) /\ tick'[u].todo = tick[u].todo
  <2>1. /\ tick' \in [Ticker -> Hand] /\ tick'[t] = Left(t)
        /\ \A u \in Ticker : u # t => tick'[u] = tick[u] /\ InHand(u)' = InHand(u)
        /\ InHand(t)' = Left(t).todo \cup ({Left(t).on} \ {Absent})
    BY <1>1, <1>2, <1>3, HandMoves
  <2>2. Left(t).todo \cup ({Left(t).on} \ {Absent}) = tick[t].todo
    BY <1>3
  <2>3. tick[t].todo \subseteq InHand(t)
    BY DEF InHand
  <2> QED BY <2>1, <2>2, <2>3, <1>3
<1> HIDE DEF i
<1>6. SchedulesTypeOK'
  <2>1. logged' \in [Made -> SUBSET (1 .. MaxMinute)]
    BY <1>1, <1>2, <1>4 DEF SchedulesTypeOK
  <2>2. lastFire' \in [Made -> 0 .. MaxMinute]
    <3>1. schedules[i] # Absent => schedules[i] \in Made
      BY <1>2, NumbersOfMade DEF SchedulesTypeOK
    <3> QED BY <3>1, <1>1, <1>2, <1>4 DEF SchedulesTypeOK
  <2>3. \A u \in Ticker : InHand(u)' # {} => tick'[u].now > 0
    BY <1>2, <1>3, <1>5 DEF SchedulesTypeOK
  <2> QED BY <2>1, <2>2, <2>3, <1>1, <1>2, <1>5 DEF SchedulesTypeOK, Hand
<1>7. OneHand' /\ Named' /\ Unfired' /\ FiredOnce'
  BY <1>1, <1>5 DEF TicksInv, OneHand, Named, Unfired, FiredOnce
<1>8. NotAgain'
  <2>1. Absent \notin tick[t].todo
    BY <1>2, NumbersOfMade DEF Hand
  <2> QED BY <2>1, <1>3, <1>5 DEF TicksInv, NotAgain
<1>9. NewUntouched'
  BY <1>1, <1>5 DEF TicksInv, NewUntouched
<1>10. BehindAnchor'
  <2> SUFFICES ASSUME NEW u \in Ticker, tick'[u].on # Absent, Sound(tick[u].on)'
               PROVE  UpTo(tick[u].on, tick[u].anchor)'
    BY DEF BehindAnchor
  <2>1. u # t /\ tick'[u] = tick[u]
    BY <1>3, <1>5
  <2> QED BY <2>1, <1>1 DEF TicksInv, BehindAnchor, Sound, UpTo
<1>11. BehindLastFire'
  <2> SUFFICES ASSUME NEW p \in 1 .. Len(made), Sound(p),
                      p = schedules[made[p].id] \/ \E u \in Ticker : p \in tick[u].todo,
                      \A u \in Ticker : tick'[u].on # p
               PROVE  UpTo(p, lastFire'[p])
    BY <1>1, <1>5 DEF BehindLastFire, Sound, UpTo
  <2>1. p \in Made /\ p # Absent /\ fired[p] \subseteq 1 .. MaxMinute
    BY <1>2, NumbersOfMade DEF SchedulesTypeOK
  <2>2. CASE p = o
    \* nobody else has o to come, so it is registered still, and gets Reached(t)
    <3>1. \A u \in Ticker : o \notin tick[u].todo
      <4> SUFFICES ASSUME NEW u \in Ticker, o \in tick[u].todo PROVE FALSE
        OBVIOUS
      <4>1. o \in InHand(u)
        BY DEF InHand
      <4>2. u = t
        BY <4>1, <2>2, <1>2 DEF TicksInv, OneHand, Sound
      <4> QED BY <4>2 DEF TicksInv, NotAgain
    <3>2. schedules[i] = o
      BY <3>1, <2>2 DEF i
    <3>3. lastFire'[o] = Reached(t)
      BY <3>2, <1>1, <1>2 DEF SchedulesTypeOK
    <3>4. UpTo(o, tick[t].anchor)
      BY <2>2, <1>1 DEF TicksInv, BehindAnchor
    <3>5. \A n \in fired[o] : n <= Reached(t)
      <4>1. tick[t].anchor \in 0 .. MaxMinute
        BY <1>2 DEF Hand
      <4> QED BY <4>1, <3>4, <2>1, <2>2, <1>4 DEF UpTo
    <3> QED BY <3>3, <3>5, <2>2 DEF UpTo
  <2>3. CASE p # o /\ p = schedules[i]
    BY <2>1, <2>3, <1>2 DEF TicksInv, NewUntouched, Named, Sound, UpTo, i
  <2>4. CASE p # o /\ p # schedules[i]
    <3>1. lastFire'[p] = lastFire[p]
      BY <2>1, <2>4, <1>1, <1>2 DEF SchedulesTypeOK
    <3>2. \A u \in Ticker : tick[u].on # p
      BY <2>4, <1>5
    <3> QED BY <3>1, <3>2 DEF TicksInv, BehindLastFire, UpTo
  <2> QED BY <2>2, <2>3, <2>4
<1> QED BY <1>6, <1>7, <1>8, <1>9, <1>10, <1>11 DEF TicksInv

LEMMA TicksSteps == TicksInv /\ [SchedulesNext]_scheduleVars => TicksInv'
<1> SUFFICES ASSUME TicksInv, [SchedulesNext]_scheduleVars PROVE TicksInv'
  OBVIOUS
<1>1. ASSUME NEW i \in Schedule, Unregister(i) PROVE TicksInv'
  BY <1>1, QuietStep DEF Unregister
<1>2. ASSUME NEW i \in Schedule, NEW c \in Cron, NEW catchUp \in BOOLEAN, NEW opaque \in BOOLEAN,
             Register(i, c, catchUp, opaque)
      PROVE  TicksInv'
  BY <1>2, RegisterStep
<1>3. ASSUME NEW t \in Ticker, Begin(t) PROVE TicksInv'
  BY <1>3, BeginStep
<1>4. ASSUME NEW t \in Ticker, TickStep(t) PROVE TicksInv'
  BY <1>4, TakeStep, FireStep, EndStep DEF TickStep
<1>5. CASE Minute
  <2>1. now' \in 1 .. MaxMinute
    BY <1>5, SchedulesAssumption DEF Minute, TicksInv, SchedulesTypeOK
  <2> QED BY <2>1, <1>5, QuietStep DEF Minute
<1>6. CASE UNCHANGED scheduleVars
  <2>1. now' \in 1 .. MaxMinute /\ schedules' = schedules
    BY <1>6 DEF scheduleVars, TicksInv, SchedulesTypeOK
  <2>2. UNCHANGED <<made, lastFire, tick, fired, logged, repeated, mixed>>
    BY <1>6 DEF scheduleVars
  <2> QED BY <2>1, <2>2, QuietStep
<1> QED BY <1>1, <1>2, <1>3, <1>4, <1>5, <1>6 DEF SchedulesNext

------------------------------------------------------------------------------
\* Every reachable state of the scheduler is well typed.
THEOREM SchedulesTypeCorrect == SchedulesSafe => []SchedulesTypeOK
<1>1. TicksInv => SchedulesTypeOK
  BY DEF TicksInv
<1> QED BY <1>1, TicksStart, TicksSteps, PTL DEF SchedulesSafe

\* A registration is fired for its windows in order, none twice, for any number
\* of schedules, registrations and ticking threads.
THEOREM FiresOnce == SchedulesSafe => []FiredOnce
<1>1. TicksInv => FiredOnce
  BY DEF TicksInv
<1> QED BY <1>1, TicksStart, TicksSteps, PTL DEF SchedulesSafe
==============================================================================
