-------------------------- MODULE FleetMemory_proofs --------------------------
(***************************************************************************)
(* What the fleet keeps.  For every set of tables, agents and rows: rows   *)
(* are joined as in a semilattice, and a table holds the best of what it   *)
(* was offered.  For every bound and set of operations: what append() of   *)
(* the mesh log acknowledged since the last checkpoint stays in the files  *)
(* that recovery reads, in the order of append(), and replaying it makes   *)
(* the table again.  For every schedule of callers and maintenance: a      *)
(* query misses a row in the tiers only when a move or a lost write        *)
(* touched it.  For every segment size and every place of a crash: the     *)
(* memory log is never cut, and a restart loses the layers of checkpoint   *)
(* entries only.                                                           *)
(***************************************************************************)
EXTENDS FleetMesh, TieredStorage, MemoryLog, SequenceTheorems, FiniteSetTheorems, WellFoundedInduction, TLAPS

RowOf(a) == {e \in Entry : e.agent = a} \cup {None}

LEMMA RowFacts ==
    ASSUME NEW e \in Entry
    PROVE  e.agent \in Agent /\ e.time \in Nat /\ e.hash \in Nat /\ e # None
BY RowsAssumption

\* Rows of one agent with the same time and hash are one row: the hash stands
\* for everything else that is signed.
LEMMA BeatsTotal ==
    ASSUME NEW a, NEW x \in Entry, NEW y \in Entry, x.agent = a, y.agent = a, x # y
    PROVE  Beats(x, y) \/ Beats(y, x)
<1>1. x \in [agent : Agent, time : Nat, hash : Nat] /\ y \in [agent : Agent, time : Nat, hash : Nat]
  BY RowsAssumption
<1>2. x.time # y.time \/ x.hash # y.hash
  BY <1>1
<1>. QED BY <1>1, <1>2 DEF Beats

LEMMA BeatsTransitive ==
    ASSUME NEW x \in Entry, NEW y \in Entry, NEW z \in Entry, Beats(x, y), Beats(y, z)
    PROVE  Beats(x, z)
BY RowFacts DEF Beats

LEMMA BeatsOneWay ==
    ASSUME NEW x \in Entry, NEW y \in Entry, Beats(x, y)
    PROVE  ~Beats(y, x) /\ x # y
BY RowFacts DEF Beats

\* The rule of _crdt_winner makes a semilattice of the rows of an agent: the
\* order in which they come, how they are grouped and how often does not matter.
THEOREM WinnerSemilattice ==
    ASSUME NEW a, NEW x \in RowOf(a), NEW y \in RowOf(a), NEW z \in RowOf(a)
    PROVE  /\ Winner(x, y) = Winner(y, x)
           /\ Winner(x, Winner(y, z)) = Winner(Winner(x, y), z)
           /\ Winner(x, x) = x
<1>1. \A u, v \in Entry : u.agent = a /\ v.agent = a /\ u # v => Beats(u, v) \/ Beats(v, u)
  BY BeatsTotal
<1>2. \A u, v, w \in Entry : Beats(u, v) /\ Beats(v, w) => Beats(u, w)
  BY BeatsTransitive
<1>3. \A u, v \in Entry : Beats(u, v) => ~Beats(v, u) /\ u # v
  BY BeatsOneWay
<1>4. None \notin Entry
  BY RowsAssumption
<1>5. Winner(x, y) = Winner(y, x)
  BY <1>1, <1>3, <1>4 DEF Winner, RowOf
<1>6. Winner(x, x) = x
  BY DEF Winner
<1>7. Winner(x, Winner(y, z)) = Winner(Winner(x, y), z)
  <2>1. CASE x = None \/ y = None \/ z = None
    BY <2>1, <1>4 DEF Winner, RowOf
  <2>2. CASE x \in Entry /\ y \in Entry /\ z \in Entry
    BY <2>2, <1>1, <1>2, <1>3, <1>4 DEF Winner, RowOf
  <2>. QED BY <2>1, <2>2 DEF RowOf
<1>. QED BY <1>5, <1>6, <1>7
------------------------------------------------------------------------------
LEMMA ContentRow ==
    ASSUME NEW c \in Content, NEW a \in Agent
    PROVE  c[a] \in RowOf(a)
BY DEF Content, RowOf

LEMMA ContentOf ==
    ASSUME NEW c, c = [a \in Agent |-> c[a]], \A a \in Agent : c[a] \in RowOf(a)
    PROVE  c \in Content
BY RowsAssumption DEF Content, RowOf

LEMMA EmptyContent == Empty \in Content
BY ContentOf DEF Empty, RowOf

LEMMA RowContent ==
    ASSUME NEW e \in Entry
    PROVE  Row(e) \in Content
<1>1. \A a \in Agent : Row(e)[a] \in RowOf(a)
  BY DEF Row, RowOf
<1>2. Row(e) = [a \in Agent |-> Row(e)[a]]
  BY DEF Row
<1>. QED BY <1>1, <1>2, ContentOf

LEMMA JoinContent ==
    ASSUME NEW c \in Content, NEW d \in Content
    PROVE  Join(c, d) \in Content
<1>1. \A a \in Agent : Join(c, d)[a] \in RowOf(a)
  BY ContentRow DEF Join, Winner
<1>2. Join(c, d) = [a \in Agent |-> Join(c, d)[a]]
  BY DEF Join
<1>. QED BY <1>1, <1>2, ContentOf

LEMMA VerifiedContent ==
    ASSUME NEW t \in Table, NEW c \in Content
    PROVE  Verified(t, c) \in Content
<1>1. \A a \in Agent : Verified(t, c)[a] \in RowOf(a)
  BY ContentRow DEF Verified, RowOf
<1>2. Verified(t, c) = [a \in Agent |-> Verified(t, c)[a]]
  BY DEF Verified
<1>. QED BY <1>1, <1>2, ContentOf

LEMMA RowsEntry ==
    ASSUME NEW c \in Content
    PROVE  Rows(c) \in SUBSET Entry /\ \A a \in Agent : {e \in Rows(c) : e.agent = a} = {c[a]} \ {None}
<1>1. \A e \in Rows(c) : \E a \in Agent : e = c[a] /\ e # None
  BY DEF Rows
<1>2. \A a \in Agent : c[a] \in Entry \cup {None} /\ (c[a] # None => c[a].agent = a)
  BY DEF Content
<1>3. Rows(c) \in SUBSET Entry
  BY <1>1, <1>2
<1>4. ASSUME NEW a \in Agent PROVE {e \in Rows(c) : e.agent = a} = {c[a]} \ {None}
  <2>1. ASSUME NEW e \in Rows(c), e.agent = a PROVE e \in {c[a]} \ {None}
    BY <2>1, <1>1, <1>2
  <2>2. ASSUME c[a] # None PROVE c[a] \in Rows(c) /\ c[a].agent = a
    BY <2>2, <1>2 DEF Rows
  <2>. QED BY <2>1, <2>2
<1>. QED BY <1>3, <1>4
------------------------------------------------------------------------------
\* The best of a set of rows of one agent, as HoldsBest says it.
Best(r, offered) ==
    IF offered = {} THEN r = None
    ELSE r \in offered /\ \A e \in offered : e = r \/ Beats(r, e)

LEMMA BestJoined ==
    ASSUME NEW a, NEW S \in SUBSET {e \in Entry : e.agent = a}, NEW r, Best(r, S), NEW x \in RowOf(a)
    PROVE  Best(Winner(r, x), S \cup ({x} \ {None}))
<1>1. \A u, v \in Entry : u.agent = a /\ v.agent = a /\ u # v => Beats(u, v) \/ Beats(v, u)
  BY BeatsTotal
<1>2. \A u, v, w \in Entry : Beats(u, v) /\ Beats(v, w) => Beats(u, w)
  BY BeatsTransitive
<1>3. None \notin Entry
  BY RowsAssumption
<1>4. CASE x = None
  BY <1>4, <1>3 DEF Winner, Best
<1>5. CASE x # None /\ S = {}
  BY <1>5, <1>3 DEF Winner, Best
<1>6. CASE x # None /\ S # {}
  <2>1. r \in S /\ r \in Entry /\ r.agent = a /\ x \in Entry /\ x.agent = a /\ \A e \in S : e = r \/ Beats(r, e)
    BY <1>6 DEF Best, RowOf
  <2>2. r # None
    BY <2>1, <1>3
  <2>3. CASE Beats(x, r)
    <3>1. Winner(r, x) = x
      BY <2>3, <1>6 DEF Winner
    <3>2. \A e \in S : e = x \/ Beats(x, e)
      BY <2>1, <2>3, <1>2
    <3>. QED BY <3>1, <3>2, <1>6 DEF Best
  <2>4. CASE ~Beats(x, r)
    <3>1. Winner(r, x) = r
      BY <2>4, <2>2 DEF Winner
    <3>2. x = r \/ Beats(r, x)
      BY <2>4, <2>1, <1>1
    <3>. QED BY <3>1, <3>2, <2>1, <1>6 DEF Best
  <2>. QED BY <2>3, <2>4
<1>. QED BY <1>4, <1>5, <1>6
------------------------------------------------------------------------------
LEMMA OfferedRows ==
    ASSUME NEW t \in Table, NEW c \in Content, TablesTypeOK, Offer(t, c)
    PROVE  /\ table' \in [Table -> Content] /\ seen' \in [Table -> SUBSET Entry]
           /\ HoldsBest => HoldsBest'
<1>1. Join(table[t], c) \in Content
  BY JoinContent DEF TablesTypeOK
<1>2. Rows(c) \in SUBSET Entry /\ \A a \in Agent : {e \in Rows(c) : e.agent = a} = {c[a]} \ {None}
  BY RowsEntry
<1>3. table' \in [Table -> Content] /\ seen' \in [Table -> SUBSET Entry]
  BY <1>1, <1>2 DEF TablesTypeOK, Offer
<1>4. ASSUME HoldsBest, NEW u \in Table, NEW a \in Agent
      PROVE  Best(table'[u][a], {e \in seen'[u] : e.agent = a})
  <2>1. Best(table[u][a], {e \in seen[u] : e.agent = a})
    BY <1>4 DEF HoldsBest, Best
  <2>2. CASE u = t
    <3>1. table'[t][a] = Winner(table[t][a], c[a])
      BY DEF Offer, TablesTypeOK, Join
    <3>2. seen'[t] = seen[t] \cup Rows(c)
      BY DEF Offer, TablesTypeOK
    <3>3. {e \in seen'[t] : e.agent = a} = {e \in seen[t] : e.agent = a} \cup ({c[a]} \ {None})
      BY <3>2, <1>2
    <3>4. {e \in seen[t] : e.agent = a} \in SUBSET {e \in Entry : e.agent = a}
      BY DEF TablesTypeOK
    <3>5. c[a] \in RowOf(a)
      BY ContentRow
    <3>. QED BY <2>1, <2>2, <3>1, <3>3, <3>4, <3>5, BestJoined
  <2>3. CASE u # t
    BY <2>1, <2>3 DEF Offer, TablesTypeOK
  <2>. QED BY <2>2, <2>3
<1>. QED BY <1>3, <1>4 DEF HoldsBest, Best

LEMMA DroppedRows ==
    ASSUME NEW t \in Table, NEW D \in SUBSET Agent, TablesTypeOK, Drop(t, D)
    PROVE  /\ table' \in [Table -> Content] /\ seen' \in [Table -> SUBSET Entry]
           /\ HoldsBest => HoldsBest'
<1> DEFINE c == [a \in Agent |-> IF a \in D THEN None ELSE table[t][a]]
<1>1. table[t] \in Content
  BY DEF TablesTypeOK
<1>2. \A a \in Agent : c[a] \in RowOf(a)
  BY <1>1, ContentRow DEF RowOf
<1>3. c \in Content
  BY <1>2, ContentOf
<1>4. table' = [table EXCEPT ![t] = c]
  BY DEF Drop
<1>5. seen' = [seen EXCEPT ![t] = {e \in seen[t] : e.agent \notin D}]
  BY DEF Drop
<1>6. table' \in [Table -> Content] /\ seen' \in [Table -> SUBSET Entry]
  BY <1>3, <1>4, <1>5 DEF TablesTypeOK
<1>7. ASSUME HoldsBest, NEW u \in Table, NEW a \in Agent
      PROVE  Best(table'[u][a], {e \in seen'[u] : e.agent = a})
  <2>1. Best(table[u][a], {e \in seen[u] : e.agent = a})
    BY <1>7 DEF HoldsBest, Best
  <2>2. CASE u = t /\ a \in D
    <3>1. {e \in seen'[u] : e.agent = a} = {}
      BY <1>5, <2>2 DEF TablesTypeOK
    <3>2. table'[u][a] = None
      BY <1>4, <2>2 DEF TablesTypeOK
    <3>. QED BY <3>1, <3>2 DEF Best
  <2>3. CASE u = t /\ a \notin D
    <3>1. {e \in seen'[u] : e.agent = a} = {e \in seen[u] : e.agent = a}
      BY <1>5, <2>3 DEF TablesTypeOK
    <3>2. table'[u][a] = table[u][a]
      BY <1>4, <2>3 DEF TablesTypeOK
    <3>. QED BY <2>1, <3>1, <3>2
  <2>4. CASE u # t
    BY <2>1, <2>4, <1>4, <1>5 DEF TablesTypeOK
  <2>. QED BY <2>2, <2>3, <2>4
<1>. QED BY <1>6, <1>7 DEF HoldsBest, Best

LEMMA LoadedRows ==
    ASSUME NEW t \in Table, NEW c \in Content, TablesTypeOK, Load(t, c)
    PROVE  /\ table' \in [Table -> Content] /\ seen' \in [Table -> SUBSET Entry]
           /\ HoldsBest => HoldsBest'
<1>1. Rows(c) \in SUBSET Entry /\ \A a \in Agent : {e \in Rows(c) : e.agent = a} = {c[a]} \ {None}
  BY RowsEntry
<1>2. table' \in [Table -> Content] /\ seen' \in [Table -> SUBSET Entry]
  BY <1>1 DEF Load, TablesTypeOK
<1>3. ASSUME HoldsBest, NEW u \in Table, NEW a \in Agent
      PROVE  Best(table'[u][a], {e \in seen'[u] : e.agent = a})
  <2>1. Best(table[u][a], {e \in seen[u] : e.agent = a})
    BY <1>3 DEF HoldsBest, Best
  <2>2. CASE u = t
    <3>1. table'[u][a] = c[a] /\ seen'[u] = Rows(c)
      BY <2>2 DEF Load, TablesTypeOK
    <3>2. {e \in seen'[u] : e.agent = a} = {c[a]} \ {None}
      BY <3>1, <1>1
    <3>. QED BY <3>1, <3>2 DEF Best
  <2>3. CASE u # t
    BY <2>1, <2>3 DEF Load, TablesTypeOK
  <2>. QED BY <2>2, <2>3
<1>. QED BY <1>2, <1>3 DEF HoldsBest, Best
------------------------------------------------------------------------------
LEMMA TablesInitial == TablesInit => TablesTypeOK /\ HoldsBest
<1> SUFFICES ASSUME TablesInit PROVE TablesTypeOK /\ HoldsBest
  OBVIOUS
<1>1. Empty \in Content
  BY EmptyContent
<1>2. TablesTypeOK
  BY <1>1, RowsAssumption, TablesAssumption DEF TablesInit, TablesTypeOK
<1>3. HoldsBest
  BY DEF TablesInit, HoldsBest, Empty
<1>. QED BY <1>2, <1>3

LEMMA TablesStep ==
    ASSUME TablesTypeOK, TablesNext
    PROVE  TablesTypeOK' /\ (HoldsBest => HoldsBest')
<1>1. CASE Lose
  <2>1. Empty \in Content
    BY EmptyContent
  <2>2. TablesTypeOK'
    BY <1>1, <2>1, RowsAssumption, TablesAssumption DEF Lose, TablesTypeOK
  <2>3. HoldsBest'
    BY <1>1 DEF Lose, HoldsBest, Empty
  <2>. QED BY <2>2, <2>3
<1>2. ASSUME NEW t \in Table, NEW e \in Entry, NEW verify \in BOOLEAN, Insert(t, e, verify)
      PROVE  TablesTypeOK' /\ (HoldsBest => HoldsBest')
  <2>1. Row(e) \in Content /\ Offer(t, Row(e)) /\ UNCHANGED <<sent, merging, fetched>>
    BY <1>2, RowContent DEF Insert
  <2>. QED BY <2>1, OfferedRows DEF TablesTypeOK
<1>3. ASSUME NEW t \in Table, GetSyncPayload(t)
      PROVE  TablesTypeOK' /\ (HoldsBest => HoldsBest')
  <2>1. TablesTypeOK'
    BY <1>3 DEF GetSyncPayload, TablesTypeOK
  <2>2. UNCHANGED <<table, seen>>
    BY <1>3 DEF GetSyncPayload
  <2>. QED BY <2>1, <2>2 DEF HoldsBest
<1>4. ASSUME NEW t \in Table, NEW c \in sent, ApplySyncPayload(t, c)
      PROVE  TablesTypeOK' /\ (HoldsBest => HoldsBest')
  <2>1. Verified(t, c) \in Content /\ Offer(t, Verified(t, c)) /\ UNCHANGED <<sent, merging, fetched>>
    BY <1>4, VerifiedContent DEF ApplySyncPayload, TablesTypeOK
  <2>. QED BY <2>1, OfferedRows DEF TablesTypeOK
<1>5. ASSUME NEW t \in Table, NEW u \in Table, StartMerge(t, u)
      PROVE  TablesTypeOK' /\ (HoldsBest => HoldsBest')
  <2>1. TablesTypeOK'
    BY <1>5, RowsAssumption, TablesAssumption DEF StartMerge, TablesTypeOK
  <2>2. UNCHANGED <<table, seen>>
    BY <1>5 DEF StartMerge
  <2>. QED BY <2>1, <2>2 DEF HoldsBest
<1>6. ASSUME NEW t \in Table, Fetch(t)
      PROVE  TablesTypeOK' /\ (HoldsBest => HoldsBest')
  <2>1. merging[t] \in Table /\ table[merging[t]] \in Content
    BY <1>6 DEF Fetch, TablesTypeOK
  <2>2. TablesTypeOK'
    BY <1>6, <2>1, RowsAssumption, TablesAssumption DEF Fetch, TablesTypeOK
  <2>3. UNCHANGED <<table, seen>>
    BY <1>6 DEF Fetch
  <2>. QED BY <2>2, <2>3 DEF HoldsBest
<1>7. ASSUME NEW t \in Table, FinishMerge(t)
      PROVE  TablesTypeOK' /\ (HoldsBest => HoldsBest')
  <2>1. fetched[t] \in Content /\ Offer(t, fetched[t])
    BY <1>7 DEF FinishMerge, TablesTypeOK
  <2>2. table' \in [Table -> Content] /\ seen' \in [Table -> SUBSET Entry] /\ (HoldsBest => HoldsBest')
    BY <2>1, OfferedRows
  <2>3. fetched' \in [Table -> Content \cup {None}] /\ UNCHANGED <<sent, merging>>
    BY <1>7 DEF FinishMerge, TablesTypeOK
  <2>. QED BY <2>2, <2>3 DEF TablesTypeOK
<1>8. ASSUME NEW t \in Table, NEW D \in SUBSET Agent, Drop(t, D)
      PROVE  TablesTypeOK' /\ (HoldsBest => HoldsBest')
  BY <1>8, DroppedRows DEF Drop, TablesTypeOK
<1>9. ASSUME NEW t \in Table, NEW c \in Content, Load(t, c)
      PROVE  TablesTypeOK' /\ (HoldsBest => HoldsBest')
  BY <1>9, LoadedRows DEF Load, TablesTypeOK
<1>. QED BY <1>1, <1>2, <1>3, <1>4, <1>5, <1>6, <1>7, <1>8, <1>9 DEF TablesNext

\* Whatever is inserted, merged, repeated, late, dropped or restored, the state
\* of the tables stays well typed.
THEOREM TablesTypeCorrect == TablesSpec => []TablesTypeOK
<1>1. TablesInit => TablesTypeOK
  BY TablesInitial
<1>2. TablesTypeOK /\ [TablesNext]_tableVars => TablesTypeOK'
  BY TablesStep DEF TablesTypeOK, tableVars
<1>. QED BY <1>1, <1>2, PTL DEF TablesSpec

\* For every set of tables and rows a table holds the best row it was offered
\* of each agent, in whatever order, from whomever and however often they come.
THEOREM TablesHoldBest == TablesSpec => []HoldsBest
<1>1. TablesInit => TablesTypeOK /\ HoldsBest
  BY TablesInitial
<1>2. (TablesTypeOK /\ HoldsBest) /\ [TablesNext]_tableVars => (TablesTypeOK /\ HoldsBest)'
  <2>1. CASE TablesNext
    BY <2>1, TablesStep
  <2>2. CASE UNCHANGED tableVars
    BY <2>2 DEF tableVars, TablesTypeOK, HoldsBest
  <2>. QED BY <2>1, <2>2
<1>. QED BY <1>1, <1>2, PTL DEF TablesSpec
------------------------------------------------------------------------------
Cell == Whole \cup Torn
Longer(s, t) ==
    /\ t \in Seq(Cell)
    /\ Len(s) <= Len(t)
    /\ \A p \in 1 .. Len(s) : t[p] = s[p]

LEMMA ConcatLonger ==
    ASSUME NEW s \in Seq(Cell), NEW b \in Seq(Whole)
    PROVE  Longer(s, s \o b)
<1>1. b \in Seq(Cell)
  BY DEF Cell
<1>. QED BY <1>1, ConcatProperties DEF Longer

LEMMA AppendLonger ==
    ASSUME NEW s \in Seq(Cell), NEW c \in Cell
    PROVE  Longer(s, Append(s, c)) /\ Len(Append(s, c)) = Len(s) + 1 /\ Append(s, c)[Len(s) + 1] = c
BY AppendProperties DEF Longer

LEMMA LongerTransitive ==
    ASSUME NEW s \in Seq(Cell), NEW t, NEW u, Longer(s, t), Longer(t, u)
    PROVE  Longer(s, u)
<1>1. Len(s) \in Nat /\ Len(t) \in Nat /\ Len(u) \in Nat
  BY LenProperties DEF Longer
<1>. QED BY <1>1 DEF Longer
------------------------------------------------------------------------------
\* The inductive invariant: the current file is the last one, the checkpoint
\* points into a file that is there, and what is owed stands behind it.
CurrentIsLast == \E f \in onDisk : \A g \in onDisk : g <= f
CheckpointOnDisk ==
    checkpoint # Garbled => checkpoint.file \in onDisk /\ checkpoint.offset <= Len(files[checkpoint.file])
Placed(k) == \E f \in ToReplay : \E p \in Start(f) .. Len(files[f]) : files[f][p] = [nr |-> k]
AllPlaced == \A k \in DOMAIN history : history[k].owed => Placed(k)
LogInv == WalTypeOK /\ CurrentIsLast /\ CheckpointOnDisk /\ AllPlaced

LEMMA CurrentFacts ==
    ASSUME WalTypeOK, CurrentIsLast
    PROVE  Current \in onDisk /\ Current \in File /\ \A g \in onDisk : g <= Current
BY DEF WalTypeOK, CurrentIsLast, Current

LEMMA FlushedFacts ==
    ASSUME WalTypeOK, CurrentIsLast
    PROVE  Flushed \in [File -> Seq(Cell)] /\ \A f \in File : Longer(files[f], Flushed[f])
<1>1. Current \in File /\ files \in [File -> Seq(Cell)] /\ buffer \in Seq(Whole)
  BY CurrentFacts DEF WalTypeOK, Cell
<1>2. Longer(files[Current], files[Current] \o buffer)
  BY <1>1, ConcatLonger
<1>3. \A f \in File : Longer(files[f], files[f])
  BY <1>1, LenProperties DEF Longer
<1>. QED BY <1>1, <1>2, <1>3 DEF Flushed, Longer

LEMMA StartFacts ==
    ASSUME WalTypeOK, CheckpointOnDisk
    PROVE  /\ \A f \in File : Start(f) \in Nat \ {0} /\ Start(f) <= Len(files[f]) + 1
           /\ ToReplay \subseteq onDisk
<1>1. \A f \in File : Len(files[f]) \in Nat
  BY LenProperties DEF WalTypeOK
<1>2. checkpoint # Garbled => checkpoint \in [file : File, offset : Nat]
  BY DEF WalTypeOK
<1>. QED BY <1>1, <1>2 DEF Start, ToReplay, HasCheckpoint, CheckpointOnDisk

\* Records stay in place while files only grow and the checkpoint stands.
LEMMA StaysPlaced ==
    ASSUME WalTypeOK, CheckpointOnDisk, UNCHANGED checkpoint, onDisk \subseteq onDisk',
           \A f \in onDisk : Longer(files[f], files'[f])
    PROVE  CheckpointOnDisk' /\ \A k \in Nat : Placed(k) => Placed(k)'
<1>1. \A f \in onDisk : files[f] \in Seq(Cell) /\ files'[f] \in Seq(Cell)
                        /\ Len(files[f]) \in Nat /\ Len(files'[f]) \in Nat
  BY LenProperties DEF WalTypeOK, Longer, Cell
<1>2. checkpoint # Garbled => checkpoint.file \in onDisk /\ checkpoint \in [file : File, offset : Nat]
  BY DEF CheckpointOnDisk, WalTypeOK
<1>3. CheckpointOnDisk'
  BY <1>1, <1>2 DEF CheckpointOnDisk, Longer
<1>4. HasCheckpoint' <=> HasCheckpoint
  BY <1>2 DEF HasCheckpoint
<1>5. ToReplay \subseteq ToReplay' /\ ToReplay \subseteq onDisk /\ \A f \in onDisk : Start(f)' = Start(f)
  BY <1>4 DEF ToReplay, Start
<1>6. \A f \in onDisk : Start(f) \in Nat \ {0}
  BY StartFacts DEF WalTypeOK
<1>7. ASSUME NEW k \in Nat, Placed(k) PROVE Placed(k)'
  <2>1. PICK f \in ToReplay : \E p \in Start(f) .. Len(files[f]) : files[f][p] = [nr |-> k]
    BY <1>7 DEF Placed
  <2>2. PICK p \in Start(f) .. Len(files[f]) : files[f][p] = [nr |-> k]
    BY <2>1
  <2>3. p \in 1 .. Len(files[f]) /\ f \in onDisk
    BY <1>1, <1>5, <1>6, <2>2
  <2>4. files'[f][p] = [nr |-> k] /\ p \in Start(f)' .. Len(files'[f])
    BY <2>2, <2>3, <1>1, <1>5, <1>6 DEF Longer
  <2>. QED BY <2>4, <1>5 DEF Placed
<1>. QED BY <1>3, <1>7
------------------------------------------------------------------------------
LEMMA NewNumber ==
    ASSUME WalTypeOK, Number <= MaxRecords
    PROVE  [nr |-> Number] \in Whole /\ [nr |-> Number] \in Cell
<1>1. Len(history) \in Nat
  BY LenProperties DEF WalTypeOK
<1>. QED BY <1>1, LogAssumption DEF Number, Whole, Cell

LEMMA HistoryGrows ==
    ASSUME WalTypeOK, NEW w \in Op, NEW o \in BOOLEAN, Recorded(w, o), Number <= MaxRecords
    PROVE  /\ history' \in Seq([op : Op, owed : BOOLEAN]) /\ Len(history') <= MaxRecords
           /\ DOMAIN history' = 1 .. Number /\ history'[Number].owed = o
           /\ \A k \in 1 .. Number - 1 : k \in DOMAIN history /\ history'[k] = history[k]
           /\ Number \in Nat
<1> DEFINE R == [op : Op, owed : BOOLEAN]
           r == [op |-> w, owed |-> o]
<1>1. history \in Seq(R) /\ r \in R
  BY DEF WalTypeOK
<1>2. history' = Append(history, r)
  BY DEF Recorded
<1>3. Append(history, r) \in Seq(R) /\ Len(Append(history, r)) = Len(history) + 1
      /\ DOMAIN Append(history, r) = 1 .. Len(history) + 1
      /\ (\A k \in 1 .. Len(history) : Append(history, r)[k] = history[k])
      /\ Append(history, r)[Len(history) + 1] = r
  BY <1>1, AppendProperties
<1>4. Len(history) \in Nat /\ DOMAIN history = 1 .. Len(history)
  BY <1>1, LenProperties
<1>. QED BY <1>2, <1>3, <1>4 DEF Number

LEMMA TornKeeps ==
    ASSUME WalTypeOK, CurrentIsLast, NEW s \in [File -> Seq(Cell)], TornEnd(s),
           \A f \in File : Longer(files[f], s[f])
    PROVE  files' \in [File -> Seq(Cell)] /\ \A f \in File : Longer(files[f], files'[f])
<1>1. Current \in File /\ \A f \in File : files[f] \in Seq(Cell)
  BY CurrentFacts DEF WalTypeOK, Cell
<1>2. PICK n \in Gap : files' = [s EXCEPT ![Current] = Append(s[Current], [gap |-> n])]
  BY DEF TornEnd
<1>3. [gap |-> n] \in Cell
  BY DEF Torn, Cell
<1>4. Longer(s[Current], Append(s[Current], [gap |-> n]))
  BY <1>1, <1>3, AppendLonger
<1>5. Longer(files[Current], Append(s[Current], [gap |-> n]))
  BY <1>1, <1>4, LongerTransitive
<1>6. Append(s[Current], [gap |-> n]) \in Seq(Cell)
  BY <1>4 DEF Longer
<1>. QED BY <1>1, <1>2, <1>5, <1>6

\* Every step but an acknowledged append and a checkpoint that succeeds leaves
\* what is owed and where it stands.
LEMMA NothingNewOwed ==
    ASSUME LogInv, files' \in [File -> Seq(Cell)], \A f \in File : Longer(files[f], files'[f]),
           UNCHANGED <<onDisk, checkpoint>>, WalTypeOK',
           \A k \in DOMAIN history' : history'[k].owed => k \in DOMAIN history /\ history[k].owed
    PROVE  LogInv'
<1>1. onDisk \subseteq File
  BY DEF LogInv, WalTypeOK
<1>2. CheckpointOnDisk' /\ \A k \in Nat : Placed(k) => Placed(k)'
  BY <1>1, StaysPlaced DEF LogInv
<1>3. CurrentIsLast'
  BY DEF LogInv, CurrentIsLast
<1>4. DOMAIN history \subseteq Nat
  BY LenProperties DEF LogInv, WalTypeOK
<1>5. AllPlaced'
  BY <1>2, <1>4 DEF AllPlaced, LogInv
<1>. QED BY <1>2, <1>3, <1>5 DEF LogInv

\* A record at the end of a file that is the last one stands behind the checkpoint.
LEMMA LastIsPlaced ==
    ASSUME NEW n, NEW t \in onDisk', NEW p \in Nat \ {0}, p = Len(files'[t]), files'[t][p] = [nr |-> n],
           WalTypeOK', \A g \in onDisk' : g <= t,
           checkpoint # Garbled => checkpoint.file \in onDisk /\ (checkpoint.file = t => checkpoint.offset < p),
           onDisk \subseteq onDisk', UNCHANGED checkpoint
    PROVE  Placed(n)'
<1>1. checkpoint # Garbled => checkpoint \in [file : File, offset : Nat] /\ checkpoint.file <= t
  BY DEF WalTypeOK
<1>2. t \in ToReplay'
  BY <1>1 DEF ToReplay, HasCheckpoint, WalTypeOK, File
<1>3. Start(t)' \in Nat /\ Start(t)' <= p
  BY <1>1 DEF Start, HasCheckpoint
<1>4. p \in Start(t)' .. Len(files'[t])
  BY <1>3
<1>. QED BY <1>2, <1>4 DEF Placed

LEMMA AppendRecordStep ==
    ASSUME LogInv, NEW w \in Op, NEW rotate \in BOOLEAN, AppendRecord(w, rotate)
    PROVE  LogInv'
<1> DEFINE T == Target(rotate)
           c == [nr |-> Number]
<1>1. WalTypeOK /\ CurrentIsLast /\ CheckpointOnDisk /\ AllPlaced
  BY DEF LogInv
<1>2. Current \in onDisk /\ Current \in File /\ \A g \in onDisk : g <= Current
  BY <1>1, CurrentFacts
<1>3. Flushed \in [File -> Seq(Cell)] /\ \A f \in File : Longer(files[f], Flushed[f])
  BY <1>1, FlushedFacts
<1>4. T \in File /\ Number <= MaxRecords /\ onDisk' = onDisk \cup {T} /\ UNCHANGED <<checkpoint, open>>
      /\ buffer' = <<>> /\ Recorded(w, TRUE)
      /\ files' = [Flushed EXCEPT ![T] = IF rotate THEN <<c>> ELSE Append(Flushed[T], c)]
  BY DEF AppendRecord
<1>5. c \in Cell /\ c \in Whole
  BY <1>1, <1>4, NewNumber
<1>6. rotate => T \notin onDisk
  BY <1>2, <1>4 DEF Target, File
<1>7. <<c>> \in Seq(Cell) /\ Len(<<c>>) = 1 /\ <<c>>[1] = c
  BY <1>5
<1>8. Longer(Flushed[T], Append(Flushed[T], c)) /\ Append(Flushed[T], c) \in Seq(Cell)
      /\ Len(Append(Flushed[T], c)) = Len(Flushed[T]) + 1 /\ Append(Flushed[T], c)[Len(Flushed[T]) + 1] = c
  BY <1>3, <1>4, <1>5, AppendLonger DEF Longer
<1>9. files' \in [File -> Seq(Cell)]
  BY <1>3, <1>4, <1>7, <1>8
<1>10. \A f \in onDisk : Longer(files[f], files'[f])
  <2>1. ASSUME NEW f \in onDisk PROVE Longer(files[f], files'[f])
    <3>1. f \in File /\ files[f] \in Seq(Cell)
      BY <1>1 DEF WalTypeOK, Cell
    <3>2. CASE f = T
      <4>1. files'[f] = Append(Flushed[T], c)
        BY <1>3, <1>4, <1>6, <3>1, <3>2
      <4>. QED BY <4>1, <1>3, <1>8, <3>1, <3>2, LongerTransitive
    <3>3. CASE f # T
      BY <1>3, <1>4, <3>1, <3>3
    <3>. QED BY <3>2, <3>3
  <2>. QED BY <2>1
<1>11. CheckpointOnDisk' /\ \A k \in Nat : Placed(k) => Placed(k)'
  BY <1>1, <1>4, <1>10, StaysPlaced
<1>12. CurrentIsLast'
  <2>1. \A g \in onDisk' : g <= T
    BY <1>2, <1>4 DEF Target, File
  <2>. QED BY <2>1, <1>4 DEF CurrentIsLast
<1>13. /\ history' \in Seq([op : Op, owed : BOOLEAN]) /\ Len(history') <= MaxRecords
       /\ DOMAIN history' = 1 .. Number /\ Number \in Nat
       /\ \A k \in 1 .. Number - 1 : k \in DOMAIN history /\ history'[k] = history[k]
  BY <1>1, <1>4, HistoryGrows
<1>14. WalTypeOK'
  <2>1. onDisk' \subseteq File /\ onDisk' # {} /\ buffer' \in Seq(Whole) /\ files' \in [File -> Seq(Whole \cup Torn)]
    BY <1>1, <1>4, <1>9 DEF WalTypeOK, Cell
  <2>. QED BY <2>1, <1>1, <1>4, <1>13 DEF WalTypeOK
<1>15. \A n \in Nat : n = Number => Placed(n)'
  <2>1. ASSUME NEW n \in Nat, n = Number, NEW t \in File, t = T PROVE Placed(n)'
    <3>1. files[t] \in Seq(Cell) /\ Len(files[t]) \in Nat /\ Flushed[t] \in Seq(Cell) /\ Len(Flushed[t]) \in Nat
      BY <1>1, <1>3, LenProperties DEF WalTypeOK, Cell
    <3>2. Len(files[t]) <= Len(Flushed[t])
      BY <1>3 DEF Longer
    <3>3. files'[t] = IF rotate THEN <<c>> ELSE Append(Flushed[t], c)
      BY <1>3, <1>4, <2>1
    <3>4. PICK p \in Nat \ {0} : p = Len(files'[t]) /\ files'[t][p] = [nr |-> n] /\ (~rotate => p > Len(files[t]))
      <4>1. CASE rotate
        BY <4>1, <3>3, <1>7, <2>1
      <4>2. CASE ~rotate
        BY <4>2, <3>1, <3>2, <3>3, <1>8, <2>1
      <4>. QED BY <4>1, <4>2
    <3>5. t \in onDisk' /\ (\A g \in onDisk' : g <= t) /\ onDisk \subseteq onDisk'
      BY <1>2, <1>4, <2>1 DEF Target, File
    <3>6. checkpoint # Garbled => checkpoint.file \in onDisk /\ checkpoint.offset <= Len(files[checkpoint.file])
                                  /\ checkpoint \in [file : File, offset : Nat]
      BY <1>1 DEF CheckpointOnDisk, WalTypeOK
    <3>7. checkpoint # Garbled => checkpoint.file \in onDisk /\ (checkpoint.file = t => checkpoint.offset < p)
      BY <3>1, <3>4, <3>6, <1>6, <2>1
    <3>. QED BY <3>4, <3>5, <3>7, <1>4, <1>14, LastIsPlaced
  <2>. QED BY <2>1, <1>4
<1>16. AllPlaced'
  <2>1. ASSUME NEW k \in DOMAIN history', history'[k].owed PROVE Placed(k)'
    <3>1. CASE k = Number
      BY <3>1, <1>13, <1>15
    <3>2. CASE k # Number
      <4>1. k \in DOMAIN history /\ history[k].owed /\ k \in Nat
        BY <3>2, <2>1, <1>13
      <4>. QED BY <4>1, <1>1, <1>11 DEF AllPlaced
    <3>. QED BY <3>1, <3>2
  <2>. QED BY <2>1 DEF AllPlaced
<1>. QED BY <1>11, <1>12, <1>14, <1>16 DEF LogInv
------------------------------------------------------------------------------
LEMMA CheckpointStep ==
    ASSUME LogInv, Checkpoint
    PROVE  LogInv'
<1> DEFINE here == [file |-> Current, offset |-> Len(Flushed[Current])]
<1>1. WalTypeOK /\ CurrentIsLast
  BY DEF LogInv
<1>2. Current \in onDisk /\ Current \in File /\ \A g \in onDisk : g <= Current
  BY <1>1, CurrentFacts
<1>3. Flushed \in [File -> Seq(Cell)]
  BY <1>1, FlushedFacts
<1>4. PICK kept \in SUBSET (onDisk \ Newest(2)) : onDisk' = Newest(2) \cup kept
  BY DEF Checkpoint
<1>5. files' = Flushed /\ buffer' = <<>> /\ checkpoint' = here /\ SettledAll /\ open' = open
  BY DEF Checkpoint
<1>6. Current \in onDisk' /\ onDisk' \subseteq onDisk
  <2>1. {g \in onDisk : g > Current} = {}
    <3>1. onDisk \subseteq Int
      BY <1>1 DEF WalTypeOK, File
    <3>2. \A g \in onDisk : ~ (g > Current)
      BY <1>2, <3>1
    <3>. QED BY <3>2
  <2>2. Current \in Newest(2)
    BY <1>2, <2>1, FS_EmptySet DEF Newest
  <2>. QED BY <1>4, <2>2 DEF Newest
<1>7. Len(Flushed[Current]) \in Nat
  BY <1>2, <1>3, LenProperties
<1>8. history' \in Seq([op : Op, owed : BOOLEAN]) /\ Len(history') = Len(history)
      /\ \A k \in DOMAIN history' : history'[k].owed = FALSE
  <2> DEFINE R == [op : Op, owed : BOOLEAN]
  <2>1. history \in Seq(R) /\ Len(history) \in Nat /\ DOMAIN history = 1 .. Len(history)
    BY <1>1, LenProperties DEF WalTypeOK
  <2>2. history' = [k \in 1 .. Len(history) |-> [history[k] EXCEPT !.owed = FALSE]]
    BY <1>5, <2>1 DEF SettledAll
  <2>3. \A k \in 1 .. Len(history) : history[k] \in R
    BY <2>1, ElementOfSeq
  <2>4. \A h \in R : [h EXCEPT !.owed = FALSE] \in R /\ [h EXCEPT !.owed = FALSE].owed = FALSE
    OBVIOUS
  <2>5. \A k \in 1 .. Len(history) : history'[k] \in R /\ history'[k].owed = FALSE
    BY <2>2, <2>3, <2>4
  <2>6. history' \in [1 .. Len(history) -> R]
    BY <2>2, <2>3, <2>4
  <2>7. history' \in Seq(R)
    BY <2>1, <2>6, SeqDef
  <2>8. Len(history') = Len(history)
    BY <2>1, <2>6, <2>7, LenProperties
  <2>. QED BY <2>1, <2>5, <2>7, <2>8, LenProperties
<1>9. here \in [file : File, offset : Nat]
  BY <1>2, <1>7
<1>10. WalTypeOK'
  <2>1. onDisk' \subseteq File /\ onDisk' # {} /\ open' \in BOOLEAN
    BY <1>1, <1>5, <1>6 DEF WalTypeOK
  <2>2. files' \in [File -> Seq(Whole \cup Torn)] /\ buffer' \in Seq(Whole)
    BY <1>3, <1>5 DEF Cell
  <2>3. Len(history') <= MaxRecords
    BY <1>1, <1>8 DEF WalTypeOK
  <2>. QED BY <2>1, <2>2, <2>3, <1>5, <1>8, <1>9 DEF WalTypeOK
<1>11. CurrentIsLast'
  BY <1>2, <1>6 DEF CurrentIsLast
<1>12. CheckpointOnDisk'
  BY <1>5, <1>6, <1>7 DEF CheckpointOnDisk
<1>13. AllPlaced'
  BY <1>8 DEF AllPlaced
<1>. QED BY <1>10, <1>11, <1>12, <1>13 DEF LogInv

\* A checkpoint file that is lost makes recovery read everything.
LEMMA CheckpointFailsStep ==
    ASSUME LogInv, CheckpointFails
    PROVE  LogInv'
<1>1. WalTypeOK /\ CurrentIsLast /\ CheckpointOnDisk /\ AllPlaced
  BY DEF LogInv
<1>2. Flushed \in [File -> Seq(Cell)] /\ \A f \in File : Longer(files[f], Flushed[f])
  BY <1>1, FlushedFacts
<1>3. files' = Flushed /\ buffer' = <<>> /\ checkpoint' = Garbled /\ UNCHANGED <<onDisk, open, history>>
  BY DEF CheckpointFails
<1>4. WalTypeOK'
  BY <1>1, <1>2, <1>3 DEF WalTypeOK, Cell
<1>5. CurrentIsLast' /\ CheckpointOnDisk'
  BY <1>1, <1>3 DEF CurrentIsLast, CheckpointOnDisk
<1>6. ASSUME NEW k \in DOMAIN history, Placed(k) PROVE Placed(k)'
  <2>1. PICK f \in ToReplay : \E p \in Start(f) .. Len(files[f]) : files[f][p] = [nr |-> k]
    BY <1>6 DEF Placed
  <2>2. PICK p \in Start(f) .. Len(files[f]) : files[f][p] = [nr |-> k]
    BY <2>1
  <2>3. f \in onDisk /\ f \in File /\ Start(f) \in Nat \ {0}
    BY <1>1, StartFacts DEF WalTypeOK
  <2>4. Longer(files[f], files'[f]) /\ files[f] \in Seq(Cell)
    BY <1>1, <1>2, <1>3, <2>3 DEF WalTypeOK, Cell
  <2>5. p \in 1 .. Len(files'[f]) /\ files'[f][p] = [nr |-> k]
    BY <2>2, <2>3, <2>4, LenProperties DEF Longer
  <2>6. f \in ToReplay' /\ Start(f)' = 1
    BY <1>3, <2>3 DEF ToReplay, Start, HasCheckpoint
  <2>. QED BY <2>5, <2>6 DEF Placed
<1>7. AllPlaced'
  BY <1>1, <1>3, <1>6 DEF AllPlaced
<1>. QED BY <1>4, <1>5, <1>7 DEF LogInv

LEMMA OtherSteps ==
    ASSUME LogInv,
           \/ \E w \in Op : AppendDelayed(w)
           \/ AppendTorn \/ Close \/ CrashLog \/ Reopen \/ UNCHANGED logVars
    PROVE  LogInv'
<1>1. WalTypeOK /\ CurrentIsLast /\ Current \in File
  BY CurrentFacts DEF LogInv
<1>2. Flushed \in [File -> Seq(Cell)] /\ \A f \in File : Longer(files[f], Flushed[f])
  BY <1>1, FlushedFacts
<1>3. files \in [File -> Seq(Cell)] /\ \A f \in File : Longer(files[f], files[f])
  <2>1. files \in [File -> Seq(Cell)]
    BY <1>1 DEF WalTypeOK, Cell
  <2>. QED BY <2>1, LenProperties DEF Longer
<1>4. ASSUME NEW w \in Op, AppendDelayed(w) PROVE LogInv'
  <2>1. Recorded(w, FALSE) /\ Number <= MaxRecords /\ buffer' = Append(buffer, [nr |-> Number])
        /\ UNCHANGED <<onDisk, files, checkpoint, open>>
    BY <1>4 DEF AppendDelayed
  <2>2. /\ history' \in Seq([op : Op, owed : BOOLEAN]) /\ Len(history') <= MaxRecords
        /\ DOMAIN history' = 1 .. Number /\ history'[Number].owed = FALSE
        /\ \A k \in 1 .. Number - 1 : k \in DOMAIN history /\ history'[k] = history[k]
        /\ Number \in Nat
    BY <1>1, <2>1, HistoryGrows
  <2>3. [nr |-> Number] \in Whole
    BY <1>1, <2>1, NewNumber
  <2>4. buffer' \in Seq(Whole)
    BY <1>1, <2>1, <2>3, AppendProperties DEF WalTypeOK
  <2>5. WalTypeOK'
    BY <1>1, <2>1, <2>2, <2>4 DEF WalTypeOK
  <2>6. \A k \in DOMAIN history' : history'[k].owed => k \in DOMAIN history /\ history[k].owed
    BY <2>2
  <2>. QED BY <1>3, <2>1, <2>5, <2>6, NothingNewOwed
<1>5. CASE AppendTorn
  <2>1. files' \in [File -> Seq(Cell)] /\ \A f \in File : Longer(files[f], files'[f])
    BY <1>5, <1>1, <1>2, TornKeeps DEF AppendTorn
  <2>2. WalTypeOK'
    BY <1>5, <1>1, <2>1 DEF AppendTorn, WalTypeOK, Cell
  <2>. QED BY <1>5, <2>1, <2>2, NothingNewOwed DEF AppendTorn
<1>6. CASE Close
  <2>1. WalTypeOK'
    <3>1. files' \in [File -> Seq(Whole \cup Torn)] /\ buffer' \in Seq(Whole)
      BY <1>6, <1>2 DEF Close, Cell
    <3>. QED BY <1>6, <1>1, <3>1 DEF Close, WalTypeOK
  <2>. QED BY <1>6, <1>2, <2>1, NothingNewOwed DEF Close
<1>7. CASE CrashLog
  <2>1. files' \in [File -> Seq(Cell)] /\ \A f \in File : Longer(files[f], files'[f])
    BY <1>7, <1>1, <1>3, TornKeeps DEF CrashLog
  <2>2. WalTypeOK'
    <3>1. files' \in [File -> Seq(Whole \cup Torn)] /\ buffer' \in Seq(Whole)
      BY <1>7, <2>1 DEF CrashLog, Cell
    <3>. QED BY <1>7, <1>1, <3>1 DEF CrashLog, WalTypeOK
  <2>. QED BY <1>7, <2>1, <2>2, NothingNewOwed DEF CrashLog
<1>8. CASE Reopen
  <2>1. WalTypeOK'
    BY <1>8, <1>1 DEF Reopen, WalTypeOK
  <2>. QED BY <1>8, <1>3, <2>1, NothingNewOwed DEF Reopen
<1>9. CASE UNCHANGED logVars
  <2>1. WalTypeOK'
    BY <1>9, <1>1 DEF logVars, WalTypeOK
  <2>. QED BY <1>9, <1>3, <2>1, NothingNewOwed DEF logVars
<1>. QED BY <1>4, <1>5, <1>6, <1>7, <1>8, <1>9

LEMMA LogStarts ==
    ASSUME WalInit
    PROVE  LogInv
<1>1. 1 \in File
  BY LogAssumption DEF File
<1>2. <<>> \in Seq(Whole \cup Torn) /\ <<>> \in Seq(Whole) /\ <<>> \in Seq([op : Op, owed : BOOLEAN])
  BY EmptySeq
<1>3. Len(history) = 0 /\ DOMAIN history = {}
  BY DEF WalInit
<1>4. WalTypeOK
  BY <1>1, <1>2, <1>3, LogAssumption DEF WalInit, WalTypeOK
<1>. QED BY <1>3, <1>4 DEF WalInit, LogInv, CurrentIsLast, CheckpointOnDisk, AllPlaced

LEMMA LogSteps == LogInv /\ [WalNext]_logVars => LogInv'
<1>. SUFFICES ASSUME LogInv, [WalNext]_logVars PROVE LogInv'
  OBVIOUS
<1>1. CASE \E w \in Op : \E rotate \in BOOLEAN : AppendRecord(w, rotate)
  BY <1>1, AppendRecordStep
<1>2. CASE Checkpoint
  BY <1>2, CheckpointStep
<1>3. CASE CheckpointFails
  BY <1>3, CheckpointFailsStep
<1>4. CASE \/ \E w \in Op : AppendDelayed(w)
           \/ AppendTorn \/ Close \/ CrashLog \/ Reopen \/ UNCHANGED logVars
  BY <1>4, OtherSteps
<1>. QED BY <1>1, <1>2, <1>3, <1>4 DEF WalNext

\* A record that stands where the reader comes by is replayed, unless a torn one
\* comes before it.
LEMMA PlacedIsRead == LogInv => DueRecovered
<1>. SUFFICES ASSUME LogInv, NEW k \in DOMAIN history, history[k].owed
              PROVE  \E f \in ToReplay : \E p \in Start(f) .. Len(files[f]) :
                         files[f][p] = [nr |-> k] /\ (p \in Replayed(f) \/ BehindTorn(f, p))
  BY DEF DueRecovered
<1>1. Placed(k)
  BY DEF LogInv, AllPlaced
<1>2. PICK f \in ToReplay : \E p \in Start(f) .. Len(files[f]) : files[f][p] = [nr |-> k]
  BY <1>1 DEF Placed
<1>3. PICK p \in Start(f) .. Len(files[f]) : files[f][p] = [nr |-> k]
  BY <1>2
<1>4. f \in File /\ Start(f) \in Nat /\ Len(files[f]) \in Nat
  <2>1. f \in File /\ Start(f) \in Nat
    BY StartFacts DEF LogInv, WalTypeOK
  <2>. QED BY <2>1, LenProperties DEF LogInv, WalTypeOK
<1>5. ~IsTorn(files[f][p])
  BY <1>3 DEF IsTorn
<1>6. ASSUME ~BehindTorn(f, p) PROVE p \in Replayed(f)
  <2>1. \A i \in TornFrom(files[f], Start(f)) : ~ (i < p)
    BY <1>3, <1>4, <1>6 DEF TornFrom, BehindTorn
  <2>. QED BY <1>3, <1>5, <2>1 DEF Replayed
<1>. QED BY <1>2, <1>3, <1>6

\* The log is always well-typed: its current file is one of those it may create,
\* and the checkpoint names a file and a length (__init__, append, checkpoint).
THEOREM WalTypeCorrect == WalSpec => []WalTypeOK
<1>1. LogInv => WalTypeOK
  BY DEF LogInv
<1>. QED BY <1>1, LogStarts, LogSteps, PTL DEF WalSpec

\* What append() acknowledged since the last checkpoint is read back by recover()
\* from the files that are left, whatever was rotated, unlinked, torn or reopened
\* in between; only a torn record before it in its own file can hide it.
THEOREM DueIsRecovered == WalSpec => []DueRecovered
BY LogStarts, LogSteps, PlacedIsRead, PTL DEF WalSpec

\* Bound to a table, the log does nothing but what it does alone.
LEMMA MeshStepsLog == [MeshNext]_meshVars => [WalNext]_logVars
<1> SUFFICES ASSUME [MeshNext]_meshVars PROVE [WalNext]_logVars
  OBVIOUS
<1>1. ASSUME NEW w \in Op, NEW rotate \in BOOLEAN, LoggedWrite(w, rotate) PROVE WalNext
  BY <1>1 DEF LoggedWrite, WalNext
<1>2. CASE WriteRefused
  BY <1>2 DEF WriteRefused, WalNext
<1>3. CASE TableStep \/ \E t \in Table : EndMerge(t)
  BY <1>3 DEF TableStep, EndMerge
<1>4. CASE TakeCheckpoint \/ MissCheckpoint \/ Crash \/ Stop \/ Restart
  BY <1>4 DEF TakeCheckpoint, MissCheckpoint, Crash, Stop, Restart, WalNext
<1>5. CASE UNCHANGED meshVars
  BY <1>5 DEF meshVars
<1> QED
  BY <1>1, <1>2, <1>3, <1>4, <1>5 DEF MeshNext

\* A table that writes to its log as MeshTableStore and the callers do, crashes and
\* recovers drives the log as MeshWAL says, and so loses no record that is due.
THEOREM MeshKeepsLog == MeshSafe => WalSpec /\ []DueRecovered
<1>1. MeshSafe => WalSpec
  BY MeshStepsLog, PTL DEF MeshSafe, MeshInit, WalSpec
<1> QED
  BY <1>1, DueIsRecovered, PTL
------------------------------------------------------------------------------
\* The order of the log (MeshWAL): the numbers of the records grow from place to
\* place and from file to file, and those in the buffer come after all of them.
Ascending(F) ==
    \A f, g \in File : \A p \in 1 .. Len(F[f]), q \in 1 .. Len(F[g]) :
        F[f][p] \in Whole /\ F[g][q] \in Whole /\ (f < g \/ (f = g /\ p < q)) => F[f][p].nr < F[g][q].nr
UpTo(F, n) == \A f \in File : \A p \in 1 .. Len(F[f]) : F[f][p] \in Whole => F[f][p].nr <= n
NothingBehind(F, t) == \A f \in File : f > t => F[f] = <<>>
Follows(b, F, n) ==
    \A p \in 1 .. Len(b) : b[p] \in Whole =>
        /\ b[p].nr <= n
        /\ \A f \in File : \A q \in 1 .. Len(F[f]) : F[f][q] \in Whole => F[f][q].nr < b[p].nr
        /\ \A q \in p + 1 .. Len(b) : b[q] \in Whole => b[p].nr < b[q].nr
Orderly(F, n, t) == F \in [File -> Seq(Cell)] /\ Ascending(F) /\ UpTo(F, n) /\ NothingBehind(F, t)
InOrder == Orderly(files, Len(history), Current) /\ Follows(buffer, files, Len(history))
Behind(F, t, b) == [F EXCEPT ![t] = F[t] \o b]

LEMMA WholeNumber ==
    ASSUME NEW c \in Whole
    PROVE  c.nr \in Nat \ {0} /\ c.nr <= MaxRecords /\ ~IsTorn(c) /\ c \in Cell /\ c = [nr |-> c.nr]
BY LogAssumption DEF Whole, IsTorn, Cell

\* What follows all records may be written behind them, in the last file used.
LEMMA ExtendedInOrder ==
    ASSUME NEW F, NEW n \in Nat, NEW m \in Nat, n <= m, NEW t \in File, NEW b \in Seq(Cell),
           Orderly(F, n, t), Follows(b, F, m)
    PROVE  Orderly(Behind(F, t, b), m, t)
<1> DEFINE G == Behind(F, t, b)
<1> F \in [File -> Seq(Cell)] /\ Ascending(F) /\ UpTo(F, n) /\ NothingBehind(F, t)
  BY DEF Orderly
<1> G = [F EXCEPT ![t] = F[t] \o b]
  BY DEF Behind
<1> HIDE DEF G
<1> DEFINE Old(f, p) == p \in 1 .. Len(F[f]) /\ G[f][p] = F[f][p]
           New(f, p) == f = t /\ p > Len(F[t]) /\ p - Len(F[t]) \in 1 .. Len(b) /\ G[f][p] = b[p - Len(F[t])]
<1>1. F[t] \in Seq(Cell) /\ Len(F[t]) \in Nat /\ Len(b) \in Nat /\ File \subseteq Nat
  BY LenProperties DEF File
<1>2. F[t] \o b \in Seq(Cell) /\ Len(F[t] \o b) = Len(F[t]) + Len(b)
      /\ \A p \in 1 .. Len(F[t]) + Len(b) :
            (F[t] \o b)[p] = IF p <= Len(F[t]) THEN F[t][p] ELSE b[p - Len(F[t])]
  BY <1>1, ConcatProperties
<1>3. G \in [File -> Seq(Cell)]
  BY <1>2
<1>4. ASSUME NEW f \in File, NEW p \in 1 .. Len(G[f]) PROVE p \in Nat /\ (Old(f, p) \/ New(f, p))
  <2>1. CASE f = t
    <3>1. G[f] = F[t] \o b
      BY <2>1
    <3>2. p \in 1 .. Len(F[t]) + Len(b) /\ p \in Nat
      BY <3>1, <1>1, <1>2
    <3>. QED BY <3>1, <3>2, <1>1, <1>2, <2>1
  <2>2. CASE f # t
    <3>1. G[f] = F[f] /\ Len(G[f]) \in Nat
      BY <2>2, <1>3, LenProperties
    <3>. QED BY <3>1
  <2>. QED BY <2>1, <2>2
<1>5. UpTo(G, m)
  <2>1. ASSUME NEW f \in File, NEW p \in 1 .. Len(G[f]), G[f][p] \in Whole PROVE G[f][p].nr <= m
    <3>1. G[f][p].nr \in Nat
      BY <2>1, WholeNumber
    <3>2. CASE Old(f, p)
      <4>1. G[f][p].nr <= n
        BY <2>1, <3>2 DEF UpTo
      <4>. QED BY <3>1, <4>1
    <3>3. CASE New(f, p)
      BY <2>1, <3>1, <3>3 DEF Follows
    <3>. QED BY <1>4, <3>2, <3>3
  <2>. QED BY <2>1 DEF UpTo
<1>6. NothingBehind(G, t)
  BY <1>1 DEF NothingBehind
<1>7. Ascending(G)
  <2>1. ASSUME NEW f \in File, NEW g \in File, NEW p \in 1 .. Len(G[f]), NEW q \in 1 .. Len(G[g]),
               G[f][p] \in Whole, G[g][q] \in Whole, f < g \/ (f = g /\ p < q)
        PROVE  G[f][p].nr < G[g][q].nr
    <3>1. p \in Nat /\ q \in Nat /\ f \in Nat /\ g \in Nat
      BY <1>1, <1>4
    <3>2. CASE Old(f, p) /\ Old(g, q)
      BY <2>1, <3>2 DEF Ascending
    <3>3. CASE Old(f, p) /\ New(g, q)
      BY <2>1, <3>3 DEF Follows
    <3>4. CASE New(f, p) /\ Old(g, q)
      <4>1. g > t => F[g] = <<>>
        BY <3>1 DEF NothingBehind
      <4>2. Len(<<>>) = 0
        OBVIOUS
      <4>3. ~ (g > t)
        BY <4>1, <4>2, <3>4
      <4>. QED BY <1>1, <2>1, <3>1, <3>4, <4>3
    <3>5. CASE New(f, p) /\ New(g, q)
      <4>1. q - Len(F[t]) \in (p - Len(F[t])) + 1 .. Len(b)
        BY <1>1, <2>1, <3>1, <3>5
      <4>. QED BY <2>1, <3>5, <4>1 DEF Follows
    <3>. QED BY <1>4, <3>2, <3>3, <3>4, <3>5
  <2>. QED BY <2>1 DEF Ascending
<1>. QED BY <1>3, <1>5, <1>6, <1>7 DEF Orderly, G

LEMMA OneFollows ==
    ASSUME NEW F, NEW c \in Cell, NEW m \in Nat,
           c \in Whole => c.nr <= m /\ \A f \in File : \A q \in 1 .. Len(F[f]) : F[f][q] \in Whole => F[f][q].nr < c.nr
    PROVE  <<c>> \in Seq(Cell) /\ Follows(<<c>>, F, m)
<1>1. <<c>> \in Seq(Cell) /\ Len(<<c>>) = 1 /\ <<c>>[1] = c
  OBVIOUS
<1>. QED BY <1>1 DEF Follows

\* flush(): the buffer comes to the end of the current file.
LEMMA FlushedInOrder ==
    ASSUME LogInv, InOrder
    PROVE  Orderly(Flushed, Len(history), Current) /\ Len(history) \in Nat /\ Current \in File
<1>1. Current \in File /\ Len(history) \in Nat
  BY CurrentFacts, LenProperties DEF LogInv, WalTypeOK
<1>2. buffer \in Seq(Cell)
  BY DEF LogInv, WalTypeOK, Cell
<1>3. Flushed = Behind(files, Current, buffer)
  BY DEF Flushed, Behind
<1>4. Len(history) <= Len(history)
  BY <1>1
<1>. QED BY <1>1, <1>2, <1>3, <1>4, ExtendedInOrder DEF InOrder

LEMMA NoneFollows == \A F, n : Follows(<<>>, F, n)
BY DEF Follows

LEMMA OneBehind ==
    ASSUME NEW s \in Seq(Cell), NEW c \in Cell
    PROVE  Append(s, c) = s \o <<c>> /\ <<>> \o <<c>> = <<c>>
<1>1. <<c>> \in Seq(Cell) /\ Len(<<c>>) = 1 /\ <<c>>[1] = c /\ <<>> \in Seq(Cell)
  OBVIOUS
<1>. QED BY <1>1

\* A torn record at the end of the current file.
LEMMA TornInOrder ==
    ASSUME WalTypeOK, CurrentIsLast, NEW s, NEW n \in Nat, TornEnd(s), Orderly(s, n, Current)
    PROVE  Orderly(files', n, Current)
<1>1. Current \in File /\ s \in [File -> Seq(Cell)]
  BY CurrentFacts DEF Orderly
<1>2. PICK k \in Gap : files' = [s EXCEPT ![Current] = Append(s[Current], [gap |-> k])]
  BY DEF TornEnd
<1>3. [gap |-> k] \in Cell /\ [gap |-> k] \notin Whole
  BY DEF Torn, Cell, Whole
<1>4. <<[gap |-> k]>> \in Seq(Cell) /\ Follows(<<[gap |-> k]>>, s, n)
  BY <1>3, OneFollows
<1>5. s[Current] \in Seq(Cell)
  BY <1>1
<1>6. files' = Behind(s, Current, <<[gap |-> k]>>)
  BY <1>2, <1>3, <1>5, OneBehind DEF Behind
<1>7. n <= n
  OBVIOUS
<1>. QED BY <1>1, <1>4, <1>6, <1>7, ExtendedInOrder

------------------------------------------------------------------------------
LEMMA AppendRecordInOrder ==
    ASSUME LogInv, InOrder, NEW w \in Op, NEW rotate \in BOOLEAN, AppendRecord(w, rotate), Current' = Target(rotate)
    PROVE  InOrder'
<1> DEFINE T == Target(rotate)
           c == [nr |-> Number]
<1>1. WalTypeOK /\ CurrentIsLast
  BY DEF LogInv
<1>2. Orderly(Flushed, Len(history), Current) /\ Len(history) \in Nat /\ Current \in File
  BY FlushedInOrder
<1>3. T \in File /\ Number <= MaxRecords /\ buffer' = <<>> /\ Recorded(w, TRUE)
      /\ files' = [Flushed EXCEPT ![T] = IF rotate THEN <<c>> ELSE Append(Flushed[T], c)]
  BY DEF AppendRecord
<1>4. c \in Cell /\ c \in Whole /\ c.nr = Number
  BY <1>1, <1>3, NewNumber
<1>5. Orderly(Flushed, Len(history), T) /\ Flushed[T] \in Seq(Cell) /\ (rotate => Flushed[T] = <<>>)
  <2>1. File \subseteq Nat /\ (T = Current \/ (rotate /\ T > Current)) /\ (rotate => T > Current)
    BY <1>2 DEF File, Target
  <2>2. Flushed \in [File -> Seq(Cell)] /\ Ascending(Flushed) /\ UpTo(Flushed, Len(history))
        /\ \A f \in File : f > Current => Flushed[f] = <<>>
    BY <1>2 DEF Orderly, NothingBehind
  <2>3. \A f \in File : f > T => f > Current
    <3> HIDE DEF T
    <3>. QED BY <2>1, <1>2, <1>3
  <2>. QED BY <2>1, <2>2, <2>3, <1>3 DEF Orderly, NothingBehind
<1>6. files' = Behind(Flushed, T, <<c>>)
  <2>1. <<c>> = <<>> \o <<c>> /\ Append(Flushed[T], c) = Flushed[T] \o <<c>>
    BY <1>4, <1>5, OneBehind
  <2>. QED BY <2>1, <1>3, <1>5 DEF Behind
<1>7. <<c>> \in Seq(Cell) /\ Follows(<<c>>, Flushed, Number)
  <2>1. Number \in Nat /\ Number = Len(history) + 1
    BY <1>2 DEF Number
  <2>2. ASSUME NEW f \in File, NEW q \in 1 .. Len(Flushed[f]), Flushed[f][q] \in Whole
        PROVE  Flushed[f][q].nr < Number
    <3>1. Flushed[f][q].nr \in Nat
      BY <2>2, WholeNumber
    <3>2. Flushed[f][q].nr <= Len(history)
      BY <2>2, <1>2 DEF Orderly, UpTo
    <3>. QED BY <1>2, <2>1, <3>1, <3>2
  <2>. QED BY <1>4, <2>1, <2>2, OneFollows
<1>8. Number \in Nat /\ Len(history) <= Number
  BY <1>2 DEF Number
<1>9. Orderly(files', Number, T)
  <2> HIDE DEF T, c
  <2>1. Orderly(Behind(Flushed, T, <<c>>), Number, T)
    BY <1>2, <1>3, <1>5, <1>7, <1>8, ExtendedInOrder
  <2>. QED BY <2>1, <1>6
<1>10. Len(history') = Number
  <2>1. history \in Seq([op : Op, owed : BOOLEAN]) /\ [op |-> w, owed |-> TRUE] \in [op : Op, owed : BOOLEAN]
    BY <1>1 DEF WalTypeOK
  <2>. QED BY <2>1, <1>3, AppendProperties DEF Recorded, Number
<1>11. Follows(buffer', files', Len(history'))
  BY <1>3, NoneFollows
<1>. QED BY <1>9, <1>10, <1>11 DEF InOrder

LEMMA AppendDelayedInOrder ==
    ASSUME LogInv, InOrder, NEW w \in Op, AppendDelayed(w), Current' = Current
    PROVE  InOrder'
<1> DEFINE c == [nr |-> Number]
<1>1. buffer' = Append(buffer, c) /\ Recorded(w, FALSE) /\ Number <= MaxRecords /\ files' = files
  BY DEF AppendDelayed
<1>2. WalTypeOK /\ Len(history) \in Nat /\ buffer \in Seq(Whole) /\ Len(buffer) \in Nat
  BY LenProperties DEF LogInv, WalTypeOK
<1>3. c \in Whole /\ c.nr = Number /\ Number = Len(history) + 1 /\ Number \in Nat
  BY <1>1, <1>2, NewNumber DEF Number
<1>4. Len(history') = Number
  <2>1. history \in Seq([op : Op, owed : BOOLEAN]) /\ [op |-> w, owed |-> FALSE] \in [op : Op, owed : BOOLEAN]
    BY <1>2 DEF WalTypeOK
  <2>. QED BY <2>1, <1>1, AppendProperties DEF Recorded, Number
<1>5. Len(buffer') = Len(buffer) + 1 /\ buffer'[Len(buffer) + 1] = c
      /\ \A p \in 1 .. Len(buffer) : buffer'[p] = buffer[p] /\ buffer[p] \in Whole
  BY <1>1, <1>2, <1>3, AppendProperties
<1>6. Orderly(files, Len(history), Current) /\ Follows(buffer, files, Len(history))
  BY DEF InOrder
<1>7. Orderly(files, Number, Current)
  <2>1. ASSUME NEW f \in File, NEW p \in 1 .. Len(files[f]), files[f][p] \in Whole PROVE files[f][p].nr <= Number
    <3>1. files[f][p].nr \in Nat /\ files[f][p].nr <= Len(history)
      BY <1>6, <2>1, WholeNumber DEF Orderly, UpTo
    <3>. QED BY <3>1, <1>2, <1>3
  <2>. QED BY <1>6, <2>1 DEF Orderly, UpTo
<1>8. Follows(buffer', files, Number)
  <2>1. ASSUME NEW p \in 1 .. Len(buffer'), NEW f \in File, NEW q \in 1 .. Len(files[f]), files[f][q] \in Whole
        PROVE  files[f][q].nr < buffer'[p].nr
    <3>1. files[f][q].nr \in Nat /\ files[f][q].nr <= Len(history)
      BY <1>6, <2>1, WholeNumber DEF Orderly, UpTo
    <3>2. CASE p = Len(buffer) + 1
      BY <3>1, <3>2, <1>2, <1>3, <1>5
    <3>3. CASE p # Len(buffer) + 1
      <4>1. p \in 1 .. Len(buffer)
        BY <3>3, <1>2, <1>5
      <4>. QED BY <4>1, <2>1, <1>5, <1>6 DEF Follows
    <3>. QED BY <3>2, <3>3
  <2>2. ASSUME NEW p \in 1 .. Len(buffer'), p # Len(buffer) + 1
        PROVE  /\ p \in 1 .. Len(buffer) /\ buffer'[p] = buffer[p] /\ buffer[p] \in Whole
               /\ buffer[p].nr \in Nat /\ buffer[p].nr <= Len(history)
    <3>1. p \in 1 .. Len(buffer)
      BY <2>2, <1>2, <1>5
    <3>2. buffer[p] \in Whole /\ buffer'[p] = buffer[p]
      BY <3>1, <1>5
    <3>. QED BY <3>1, <3>2, <1>6, WholeNumber DEF Follows
  <2>3. ASSUME NEW p \in 1 .. Len(buffer') PROVE buffer'[p].nr <= Number
    <3>1. CASE p = Len(buffer) + 1
      BY <3>1, <1>3, <1>5
    <3>2. CASE p # Len(buffer) + 1
      BY <3>2, <2>2, <1>2, <1>3
    <3>. QED BY <3>1, <3>2
  <2>4. ASSUME NEW p \in 1 .. Len(buffer'), NEW q \in p + 1 .. Len(buffer') PROVE buffer'[p].nr < buffer'[q].nr
    <3>1. p # Len(buffer) + 1 /\ q \in 1 .. Len(buffer')
      BY <1>2, <1>5
    <3>2. CASE q = Len(buffer) + 1
      BY <3>1, <3>2, <2>2, <1>2, <1>3, <1>5
    <3>3. CASE q # Len(buffer) + 1
      <4>1. q \in p + 1 .. Len(buffer)
        BY <3>3, <1>2, <1>5
      <4>. QED BY <4>1, <3>1, <3>3, <2>2, <1>6 DEF Follows
    <3>. QED BY <3>2, <3>3
  <2>. QED BY <2>1, <2>3, <2>4 DEF Follows
<1>. QED BY <1>1, <1>4, <1>7, <1>8 DEF InOrder

LEMMA LastIsCurrent ==
    ASSUME NEW t \in onDisk', \A g \in onDisk' : g \in Nat /\ g <= t
    PROVE  Current' = t
BY DEF Current

\* The current file is the last one, whatever a checkpoint unlinks.
LEMMA CurrentMoves ==
    ASSUME LogInv, [WalNext]_logVars
    PROVE  /\ \A w \in Op, rotate \in BOOLEAN : AppendRecord(w, rotate) => Current' = Target(rotate)
           /\ (~ \E w \in Op, rotate \in BOOLEAN : AppendRecord(w, rotate)) => Current' = Current
<1>1. Current \in onDisk /\ Current \in File /\ \A g \in onDisk : g <= Current
  BY CurrentFacts DEF LogInv
<1>2. onDisk \subseteq File /\ File \subseteq Nat
  BY DEF LogInv, WalTypeOK, File
<1>3. ASSUME NEW w \in Op, NEW rotate \in BOOLEAN, AppendRecord(w, rotate) PROVE Current' = Target(rotate)
  <2>1. onDisk' = onDisk \cup {Target(rotate)} /\ Target(rotate) \in Nat /\ Current <= Target(rotate)
    BY <1>1, <1>2, <1>3 DEF AppendRecord, Target
  <2>2. Target(rotate) \in onDisk' /\ \A g \in onDisk' : g \in Nat /\ g <= Target(rotate)
    BY <2>1, <1>1, <1>2
  <2>. QED BY <2>2, LastIsCurrent
<1>4. ASSUME Checkpoint PROVE Current' = Current
  <2>1. {g \in onDisk : g > Current} = {}
    <3>1. \A g \in onDisk : ~ (g > Current)
      BY <1>1, <1>2
    <3>. QED BY <3>1
  <2>2. Current \in Newest(2)
    BY <1>1, <2>1, FS_EmptySet DEF Newest
  <2>3. Current \in onDisk' /\ onDisk' \subseteq onDisk
    BY <1>4, <2>2 DEF Checkpoint, Newest
  <2>4. \A g \in onDisk' : g \in Nat /\ g <= Current
    BY <2>3, <1>1, <1>2
  <2>. QED BY <2>3, <2>4, LastIsCurrent
<1>5. ASSUME onDisk' = onDisk PROVE Current' = Current
  BY <1>1, <1>2, <1>5, LastIsCurrent
<1>6. (~ \E w \in Op, rotate \in BOOLEAN : AppendRecord(w, rotate)) => Checkpoint \/ onDisk' = onDisk
  BY DEF WalNext, AppendDelayed, AppendTorn, CheckpointFails, Close, CrashLog, Reopen, logVars
<1>. QED BY <1>3, <1>4, <1>5, <1>6

LEMMA InOrderStep == LogInv /\ InOrder /\ [WalNext]_logVars => InOrder'
<1>. SUFFICES ASSUME LogInv, InOrder, [WalNext]_logVars PROVE InOrder'
  OBVIOUS
<1>1. CASE \E w \in Op, rotate \in BOOLEAN : AppendRecord(w, rotate)
  BY <1>1, CurrentMoves, AppendRecordInOrder
<1>2. SUFFICES ASSUME ~ \E w \in Op, rotate \in BOOLEAN : AppendRecord(w, rotate) PROVE InOrder'
  BY <1>1
<1>3. Current' = Current
  BY <1>2, CurrentMoves
<1>4. CASE \E w \in Op : AppendDelayed(w)
  BY <1>3, <1>4, AppendDelayedInOrder
<1>5. WalTypeOK /\ CurrentIsLast /\ Len(history) \in Nat
  BY LenProperties DEF LogInv, WalTypeOK
<1>6. Orderly(Flushed, Len(history), Current)
  BY FlushedInOrder
<1>7. CASE AppendTorn
  <2>1. Orderly(files', Len(history), Current)
    BY <1>5, <1>6, <1>7, TornInOrder DEF AppendTorn
  <2>. QED BY <2>1, <1>3, <1>7, NoneFollows DEF AppendTorn, InOrder
<1>8. CASE Checkpoint \/ CheckpointFails \/ Close
  <2>1. files' = Flushed /\ buffer' = <<>> /\ (history' = history \/ SettledAll)
    BY <1>8 DEF Checkpoint, CheckpointFails, Close
  <2>2. Len(history') = Len(history)
    <3>1. ASSUME SettledAll PROVE Len(history') = Len(history)
      BY <1>5, <3>1, LenProperties DEF SettledAll, WalTypeOK
    <3>. QED BY <2>1, <3>1
  <2>. QED BY <2>1, <2>2, <1>3, <1>6, NoneFollows DEF InOrder
<1>9. CASE CrashLog
  <2>1. buffer' = <<>> /\ history' = history /\ (files' = files \/ TornEnd(files))
    BY <1>9 DEF CrashLog
  <2>2. Orderly(files', Len(history), Current)
    BY <1>5, <2>1, TornInOrder DEF InOrder
  <2>. QED BY <2>1, <2>2, <1>3, NoneFollows DEF InOrder
<1>10. CASE Reopen \/ UNCHANGED logVars
  BY <1>3, <1>10 DEF Reopen, logVars, InOrder
<1>. QED BY <1>2, <1>4, <1>7, <1>8, <1>9, <1>10 DEF WalNext

LEMMA InOrderStarts == WalInit => InOrder
<1>. SUFFICES ASSUME WalInit PROVE InOrder
  OBVIOUS
<1>1. files = [f \in File |-> <<>>] /\ buffer = <<>> /\ <<>> \in Seq(Cell) /\ Len(<<>>) = 0
  BY DEF WalInit
<1>2. \A f \in File : files[f] = <<>>
  BY <1>1
<1>3. files \in [File -> Seq(Cell)]
  BY <1>1
<1>. QED BY <1>1, <1>2, <1>3, NoneFollows DEF InOrder, Orderly, Ascending, UpTo, NothingBehind
------------------------------------------------------------------------------
\* A set of numbers that is not empty has a least member.
LEMMA LeastNumber ==
    ASSUME NEW S \in SUBSET Nat, S # {}
    PROVE  \E m \in S : \A j \in S : m <= j
<1> DEFINE R == OpToRel(<, Nat)
<1>1. IsWellFoundedOn(R, Nat)
  BY NatLessThanWellFounded
<1>2. \A i, j \in Nat : <<i, j>> \in R <=> i < j
  BY DEF OpToRel
<1> HIDE DEF R
<1>3. PICK m \in S : \A j \in S : ~(<<j, m>> \in R)
  BY <1>1, WFMin
<1>4. ASSUME NEW j \in S PROVE m <= j
  <2>1. m \in Nat /\ j \in Nat /\ ~(j < m)
    BY <1>2, <1>3
  <2>. QED BY <2>1
<1>. QED BY <1>4

\* Induction up to N, over the set of the numbers of which something holds.
LEMMA InductionTo ==
    ASSUME NEW N \in Nat, NEW S, 0 \in S, \A n \in 1 .. N : n - 1 \in S => n \in S
    PROVE  \A n \in 0 .. N : n \in S
<1>. SUFFICES ASSUME {n \in 0 .. N : n \notin S} # {} PROVE FALSE
  OBVIOUS
<1>1. PICK m \in {n \in 0 .. N : n \notin S} : \A j \in {n \in 0 .. N : n \notin S} : m <= j
  <2>1. {n \in 0 .. N : n \notin S} \in SUBSET Nat
    OBVIOUS
  <2>. QED BY <2>1, LeastNumber
<1>2. m \in 1 .. N /\ m - 1 \in 0 .. N /\ m - 1 < m
  BY <1>1
<1>3. m - 1 \in S
  BY <1>1, <1>2
<1>. QED BY <1>1, <1>2, <1>3

\* A function that is defined by recursion on a number exists, step s[n] making
\* its value at n of the one before, and all its values are in X.
Recursion(r, N, X, c, s) == r \in [0 .. N -> X] /\ r[0] = c /\ \A n \in 1 .. N : r[n] = s[n][r[n - 1]]
LEMMA RecursionExists ==
    ASSUME NEW N \in Nat, NEW X, NEW c \in X, NEW s \in [1 .. N -> [X -> X]]
    PROVE  \E r : Recursion(r, N, X, c, s)
<1> DEFINE Good(n, r) == r \in [0 .. n -> X] /\ r[0] = c /\ \A m \in 1 .. n : r[m] = s[m][r[m - 1]]
           S == {n \in 0 .. N : \E r : Good(n, r)}
<1>1. 0 \in S
  <2>1. Good(0, [i \in 0 .. 0 |-> c])
    OBVIOUS
  <2> HIDE DEF Good
  <2>. QED BY <2>1
<1>2. ASSUME NEW n \in 1 .. N, n - 1 \in S PROVE n \in S
  <2>1. PICK r : Good(n - 1, r)
    BY <1>2
  <2> DEFINE q == [i \in 0 .. n |-> IF i = n THEN s[n][r[n - 1]] ELSE r[i]]
  <2>2. r[n - 1] \in X /\ s[n][r[n - 1]] \in X
    BY <2>1
  <2>3. q \in [0 .. n -> X] /\ q[0] = c
    BY <2>1, <2>2
  <2>4. ASSUME NEW m \in 1 .. n PROVE q[m] = s[m][q[m - 1]]
    <3>1. m - 1 \in 0 .. n /\ m - 1 # n /\ q[m - 1] = r[m - 1]
      OBVIOUS
    <3>2. CASE m = n
      BY <3>1, <3>2
    <3>3. CASE m # n
      <4>1. m \in 1 .. n - 1 /\ q[m] = r[m]
        BY <3>3
      <4>. QED BY <2>1, <3>1, <4>1
    <3>. QED BY <3>2, <3>3
  <2>5. Good(n, q)
    BY <2>3, <2>4
  <2> HIDE DEF Good
  <2>. QED BY <2>5
<1> HIDE DEF S
<1>3. N \in S
  <2>1. \A n \in 0 .. N : n \in S
    BY <1>1, <1>2, InductionTo
  <2>. QED BY <2>1
<1>. QED BY <1>3 DEF S, Recursion
------------------------------------------------------------------------------
LEMMA EffectContent ==
    ASSUME NEW w \in Op, NEW c \in Content
    PROVE  Effect(w, c) \in Content
<1>1. w.add \in Content
  BY MeshAssumption
<1>2. \A a \in Agent : c[a] \in RowOf(a) /\ w.add[a] \in RowOf(a)
  BY <1>1, ContentRow
<1>3. \A a \in Agent : Effect(w, c)[a] \in RowOf(a)
  BY <1>2 DEF Effect, Winner, RowOf
<1>4. Effect(w, c) = [a \in Agent |-> Effect(w, c)[a]]
  BY DEF Effect
<1>. QED BY <1>3, <1>4, ContentOf

\* Every record that is replayed has its operation in the history.
LEMMA ReplayedFacts ==
    ASSUME LogInv, InOrder, NEW f \in File, NEW p \in Replayed(f)
    PROVE  /\ p \in 1 .. Len(files[f]) /\ files[f][p] \in Whole
           /\ files[f][p].nr \in DOMAIN history /\ history[files[f][p].nr].op \in Op
<1>1. files[f] \in Seq(Cell) /\ Len(files[f]) \in Nat /\ Start(f) \in Nat \ {0}
  BY StartFacts, LenProperties DEF LogInv, WalTypeOK, Cell
<1>2. p \in 1 .. Len(files[f]) /\ ~IsTorn(files[f][p])
  BY <1>1 DEF Replayed
<1>3. files[f][p] \in Whole
  <2>1. files[f][p] \in Cell
    BY <1>1, <1>2, ElementOfSeq
  <2>. QED BY <1>2, <2>1 DEF Cell, Torn, IsTorn
<1>4. files[f][p].nr <= Len(history) /\ files[f][p].nr \in Nat \ {0}
  BY <1>2, <1>3, WholeNumber DEF InOrder, Orderly, UpTo
<1>5. history \in Seq([op : Op, owed : BOOLEAN]) /\ DOMAIN history = 1 .. Len(history) /\ Len(history) \in Nat
  BY LenProperties DEF LogInv, WalTypeOK
<1>6. files[f][p].nr \in 1 .. Len(history)
  BY <1>4, <1>5
<1>7. history[files[f][p].nr] \in [op : Op, owed : BOOLEAN]
  BY <1>5, <1>6, ElementOfSeq
<1>. QED BY <1>2, <1>3, <1>5, <1>6, <1>7

\* recover() in one file, record by record.
LEMMA ReadFileSteps ==
    ASSUME LogInv, InOrder, NEW f \in File, NEW c \in Content
    PROVE  \E r \in [0 .. Len(files[f]) -> Content] :
              /\ r[0] = c /\ ReadFile(f, c) = r[Len(files[f])]
              /\ \A p \in 1 .. Len(files[f]) :
                    r[p] = IF p \in Replayed(f) THEN Effect(history[files[f][p].nr].op, r[p - 1]) ELSE r[p - 1]
<1> DEFINE N == Len(files[f])
           Made(p, x) == IF p \in Replayed(f) THEN Effect(history[files[f][p].nr].op, x) ELSE x
           s == [p \in 1 .. N |-> [x \in Content |-> Made(p, x)]]
           Is(r) == r = [p \in 0 .. N |-> IF p = 0 THEN c
                            ELSE IF p \in Replayed(f) THEN Effect(history[files[f][p].nr].op, r[p - 1]) ELSE r[p - 1]]
           read == CHOOSE r : Is(r)
<1>1. N \in Nat
  BY LenProperties DEF LogInv, WalTypeOK
<1>2. \A p \in 1 .. N, x \in Content : Made(p, x) \in Content
  BY ReplayedFacts, EffectContent
<1>3. s \in [1 .. N -> [Content -> Content]]
  BY <1>2
<1>4. PICK r \in [0 .. N -> Content] : r[0] = c /\ \A n \in 1 .. N : r[n] = s[n][r[n - 1]]
  <2> HIDE DEF N, s
  <2>1. PICK r : Recursion(r, N, Content, c, s)
    BY <1>1, <1>3, RecursionExists
  <2>. QED BY <2>1 DEF Recursion
<1>5. Is(r)
  <2>1. ASSUME NEW n \in 1 .. N PROVE n - 1 \in 0 .. N /\ r[n] = Made(n, r[n - 1])
    <3>1. n - 1 \in 0 .. N
      BY <1>1
    <3>2. \A x \in Content : s[n][x] = Made(n, x)
      OBVIOUS
    <3> HIDE DEF s, Made
    <3>. QED BY <1>4, <3>1, <3>2
  <2>2. \A n \in 0 .. N : n = 0 \/ n \in 1 .. N
    BY <1>1
  <2>. QED BY <1>4, <2>1, <2>2
<1>6. Is(read)
  <2> HIDE DEF Is
  <2>. QED BY <1>5, Zenon
<1>7. ReadFile(f, c) = read[N]
  BY DEF ReadFile
<1> HIDE DEF read
<1>8. read[0] = c /\ \A n \in 1 .. N : read[n] = Made(n, read[n - 1])
  BY <1>1, <1>6
<1>9. \A n \in 0 .. N : n \in {i \in 0 .. N : read[i] \in Content}
  <2> DEFINE S == {i \in 0 .. N : read[i] \in Content}
  <2>1. 0 \in S
    BY <1>1, <1>8
  <2>2. \A n \in 1 .. N : n - 1 \in S => n \in S
    BY <1>1, <1>2, <1>8
  <2> HIDE DEF S
  <2>. QED BY <1>1, <2>1, <2>2, InductionTo DEF S
<1>10. read \in [0 .. N -> Content]
  BY <1>6, <1>9
<1>. QED BY <1>7, <1>8, <1>10

\* recover(), file by file.
LEMMA RecoveredSteps ==
    ASSUME LogInv, InOrder
    PROVE  \E r \in [0 .. MaxFiles -> Content] :
              /\ r[0] = Empty /\ Recovered = r[MaxFiles]
              /\ \A f \in File : r[f] = IF f \in ToReplay THEN ReadFile(f, r[f - 1]) ELSE r[f - 1]
<1> DEFINE N == MaxFiles
           Made(f, x) == IF f \in ToReplay THEN ReadFile(f, x) ELSE x
           s == [f \in 1 .. N |-> [x \in Content |-> Made(f, x)]]
           Is(r) == r = [f \in 0 .. N |-> IF f = 0 THEN Empty
                            ELSE IF f \in ToReplay THEN ReadFile(f, r[f - 1]) ELSE r[f - 1]]
           read == CHOOSE r : Is(r)
<1>1. N \in Nat /\ File = 1 .. N /\ Empty \in Content
  BY LogAssumption, EmptyContent DEF File
<1>2. \A f \in 1 .. N, x \in Content : Made(f, x) \in Content
  <2>1. ASSUME NEW f \in File, NEW x \in Content PROVE ReadFile(f, x) \in Content
    <3>1. Len(files[f]) \in Nat
      BY LenProperties DEF LogInv, WalTypeOK
    <3>. QED BY <3>1, ReadFileSteps
  <2>. QED BY <2>1, <1>1
<1>3. s \in [1 .. N -> [Content -> Content]]
  BY <1>2
<1>4. PICK r \in [0 .. N -> Content] : r[0] = Empty /\ \A n \in 1 .. N : r[n] = s[n][r[n - 1]]
  <2> HIDE DEF N, s
  <2>1. PICK r : Recursion(r, N, Content, Empty, s)
    BY <1>1, <1>3, RecursionExists
  <2>. QED BY <2>1 DEF Recursion
<1>5. Is(r)
  <2>1. ASSUME NEW n \in 1 .. N PROVE n - 1 \in 0 .. N /\ r[n] = Made(n, r[n - 1])
    <3>1. n - 1 \in 0 .. N
      BY <1>1
    <3>2. \A x \in Content : s[n][x] = Made(n, x)
      OBVIOUS
    <3> HIDE DEF s, Made
    <3>. QED BY <1>4, <3>1, <3>2
  <2>2. \A n \in 0 .. N : n = 0 \/ n \in 1 .. N
    BY <1>1
  <2>. QED BY <1>4, <2>1, <2>2
<1>6. Is(read)
  <2> HIDE DEF Is
  <2>. QED BY <1>5, Zenon
<1>7. Recovered = read[N]
  BY DEF Recovered
<1> HIDE DEF read
<1>8. read[0] = Empty /\ \A n \in 1 .. N : read[n] = Made(n, read[n - 1])
  BY <1>1, <1>6
<1>9. \A n \in 0 .. N : n \in {i \in 0 .. N : read[i] \in Content}
  <2> DEFINE S == {i \in 0 .. N : read[i] \in Content}
  <2>1. 0 \in S
    BY <1>1, <1>8
  <2>2. \A n \in 1 .. N : n - 1 \in S => n \in S
    BY <1>1, <1>2, <1>8
  <2> HIDE DEF S
  <2>. QED BY <1>1, <2>1, <2>2, InductionTo DEF S
<1>10. read \in [0 .. N -> Content]
  BY <1>6, <1>9
<1>. QED BY <1>1, <1>7, <1>8, <1>10
------------------------------------------------------------------------------
\* The tables that the writes make one after the other: r[k] is the table of those
\* of the first k that are owed.
Written(e, c) == IF e.owed THEN Effect(e.op, c) ELSE c
Stages(r, h) ==
    /\ r \in [0 .. Len(h) -> Content] /\ r[0] = Empty
    /\ \A k \in 1 .. Len(h) : r[k] = Written(h[k], r[k - 1])
DurableMade == \E r : Stages(r, history) /\ durable = r[Len(history)]

LEMMA StagesGrow ==
    ASSUME NEW h \in Seq([op : Op, owed : BOOLEAN]), NEW r, Stages(r, h), NEW e \in [op : Op, owed : BOOLEAN],
           NEW g, g = Append(h, e)
    PROVE  \E q : Stages(q, g) /\ q[Len(g)] = Written(e, r[Len(h)])
<1> DEFINE n == Len(h) + 1
           x == Written(e, r[Len(h)])
           q == [k \in 0 .. n |-> IF k = n THEN x ELSE r[k]]
<1>1. Len(h) \in Nat /\ n \in Nat /\ Len(g) = n /\ g[n] = e /\ \A k \in 1 .. Len(h) : g[k] = h[k]
  BY LenProperties, AppendProperties
<1>2. r \in [0 .. Len(h) -> Content] /\ r[0] = Empty
      /\ \A k \in 1 .. Len(h) : r[k] = Written(h[k], r[k - 1])
  BY DEF Stages
<1>3. x \in Content
  <2>1. r[Len(h)] \in Content
    BY <1>1, <1>2
  <2>. QED BY <2>1, EffectContent DEF Written
<1>4. q \in [0 .. n -> Content] /\ q[0] = Empty /\ q[n] = x
  BY <1>1, <1>2, <1>3
<1>5. ASSUME NEW k \in 1 .. n PROVE q[k] = Written(g[k], q[k - 1])
  <2>1. k - 1 \in 0 .. n /\ k - 1 # n /\ q[k - 1] = r[k - 1]
    BY <1>1
  <2>2. CASE k = n
    <3>1. q[k] = x /\ g[k] = e /\ k - 1 = Len(h)
      BY <1>1, <1>4, <2>2
    <3> HIDE DEF q, n
    <3>. QED BY <2>1, <3>1
  <2>3. CASE k # n
    <3>1. k \in 1 .. Len(h) /\ q[k] = r[k] /\ g[k] = h[k]
      BY <1>1, <2>3
    <3> HIDE DEF q, n
    <3>. QED BY <2>1, <3>1, <1>2
  <2>. QED BY <2>2, <2>3
<1> HIDE DEF n, q
<1>6. Stages(q, g) /\ q[Len(g)] = x
  BY <1>1, <1>4, <1>5 DEF Stages
<1>. QED BY <1>6

\* The table at a number is the one at an earlier number when nothing between is owed.
LEMMA NothingBetween ==
    ASSUME NEW h, NEW n \in Nat, Len(h) = n, NEW r, Stages(r, h), NEW i \in 0 .. n, NEW k \in i .. n,
           \A j \in i + 1 .. k : ~ h[j].owed
    PROVE  r[k] = r[i]
<1> DEFINE S == {d \in 0 .. k - i : r[i + d] = r[i]}
<1>1. k - i \in Nat /\ i \in Nat /\ i + (k - i) = k /\ k - i \in 0 .. k - i
  OBVIOUS
<1>2. 0 \in S
  BY <1>1
<1>3. ASSUME NEW d \in 1 .. k - i, d - 1 \in S PROVE d \in S
  <2>1. i + d \in 1 .. n /\ i + d \in i + 1 .. k /\ (i + d) - 1 = i + (d - 1) /\ d \in 0 .. k - i
    BY <1>1
  <2>2. r[i + d] = r[(i + d) - 1]
    BY <2>1 DEF Stages, Written
  <2>. QED BY <1>3, <2>1, <2>2
<1> HIDE DEF S
<1>4. k - i \in S
  <2>1. \A d \in 0 .. k - i : d \in S
    BY <1>1, <1>2, <1>3, InductionTo
  <2>. QED BY <1>1, <2>1
<1>. QED BY <1>1, <1>4 DEF S

\* Nothing owed, nothing made.
LEMMA StagesEmpty ==
    ASSUME NEW h, Len(h) \in Nat, \A k \in 1 .. Len(h) : ~ h[k].owed
    PROVE  \E r : Stages(r, h) /\ Empty = r[Len(h)]
<1> DEFINE r == [k \in 0 .. Len(h) |-> Empty]
<1>1. Stages(r, h) /\ Empty = r[Len(h)]
  BY EmptyContent DEF Stages, Written
<1> HIDE DEF r
<1>. QED BY <1>1

LEMMA HistorySettles ==
    ASSUME WalTypeOK, SettledAll
    PROVE  Len(history') = Len(history) /\ Len(history) \in Nat /\ \A k \in 1 .. Len(history) : ~ history'[k].owed
<1> DEFINE R == [op : Op, owed : BOOLEAN]
<1>1. history \in Seq(R) /\ Len(history) \in Nat /\ DOMAIN history = 1 .. Len(history)
  BY LenProperties DEF WalTypeOK
<1>2. history' = [k \in 1 .. Len(history) |-> [history[k] EXCEPT !.owed = FALSE]]
  BY <1>1 DEF SettledAll
<1>3. \A k \in 1 .. Len(history) : history[k] \in R
  BY <1>1, ElementOfSeq
<1>4. \A x \in R : ~ [x EXCEPT !.owed = FALSE].owed
  OBVIOUS
<1>. QED BY <1>1, <1>2, <1>3, <1>4

\* durable is made of what is owed, whatever the tables do.
LEMMA DurableStep ==
    ASSUME LogInv, DurableMade, [MeshNext]_meshVars
    PROVE  DurableMade'
<1>1. history \in Seq([op : Op, owed : BOOLEAN]) /\ Len(history) \in Nat /\ WalTypeOK
  BY LenProperties DEF LogInv, WalTypeOK
<1>2. PICK r : Stages(r, history) /\ durable = r[Len(history)]
  BY DEF DurableMade
<1>3. ASSUME NEW e \in [op : Op, owed : BOOLEAN], history' = Append(history, e),
             durable' = Written(e, durable)
      PROVE  DurableMade'
  <2>1. PICK q : Stages(q, history') /\ q[Len(history')] = Written(e, r[Len(history)])
    BY <1>1, <1>2, <1>3, StagesGrow
  <2>. QED BY <1>2, <1>3, <2>1 DEF DurableMade, Stages
<1>4. ASSUME history' = history, durable' = durable PROVE DurableMade'
  BY <1>2, <1>4 DEF DurableMade, Stages
<1>5. ASSUME NEW w \in Op, NEW rotate \in BOOLEAN, LoggedWrite(w, rotate) PROVE DurableMade'
  <2> DEFINE e == [op |-> w, owed |-> TRUE]
  <2>1. history' = Append(history, e) /\ durable' = Effect(w, durable)
    BY <1>5 DEF LoggedWrite, AppendRecord, Recorded
  <2>2. e \in [op : Op, owed : BOOLEAN] /\ Written(e, durable) = Effect(w, durable)
    BY DEF Written
  <2> HIDE DEF e
  <2>. QED BY <1>3, <2>1, <2>2
<1>6. CASE WriteRefused
  <2>1. CASE AppendTorn
    BY <1>4, <1>6, <2>1 DEF WriteRefused, AppendTorn
  <2>2. ASSUME NEW w \in Op, AppendDelayed(w) PROVE DurableMade'
    <3> DEFINE e == [op |-> w, owed |-> FALSE]
    <3>1. history' = Append(history, e) /\ durable' = durable
      BY <1>6, <2>2 DEF WriteRefused, AppendDelayed, Recorded
    <3>2. e \in [op : Op, owed : BOOLEAN] /\ Written(e, durable) = durable
      BY DEF Written
    <3> HIDE DEF e
    <3>. QED BY <1>3, <3>1, <3>2
  <2>. QED BY <1>6, <2>1, <2>2 DEF WriteRefused
<1>7. CASE TakeCheckpoint
  <2>1. durable' = Empty /\ SettledAll
    BY <1>7 DEF TakeCheckpoint, Checkpoint
  <2>2. Len(history') \in Nat /\ \A k \in 1 .. Len(history') : ~ history'[k].owed
    BY <1>1, <2>1, HistorySettles
  <2>3. \E q : Stages(q, history') /\ Empty = q[Len(history')]
    BY <2>2, StagesEmpty
  <2>. QED BY <2>1, <2>3 DEF DurableMade, Stages
<1>8. CASE \/ TableStep \/ \E t \in Table : EndMerge(t)
           \/ MissCheckpoint \/ Crash \/ Stop \/ Restart \/ UNCHANGED meshVars
  BY <1>4, <1>8
     DEF TableStep, EndMerge, MissCheckpoint, CheckpointFails, Crash, CrashLog, Stop, Close, Restart, Reopen, logVars, meshVars
<1>. QED BY <1>5, <1>6, <1>7, <1>8 DEF MeshNext
------------------------------------------------------------------------------
\* The places the reader has come by when it has read f up to p, and the number k
\* that separates the records replayed there from the others.
NotAfter(g, q, f, p) == g < f \/ (g = f /\ q <= p)
Splits(k, f, p) == \A g \in ToReplay : \A q \in Replayed(g) : files[g][q].nr <= k <=> NotAfter(g, q, f, p)

\* When exactly what is owed is replayed, a record takes the table of the records
\* before it to the table of those up to it.
LEMMA RecordSplits ==
    ASSUME LogInv, InOrder, ReplayedNumbers = Owed, NEW r, Stages(r, history),
           NEW f \in ToReplay, NEW p \in 1 .. Len(files[f]), NEW k \in 0 .. Len(history), Splits(k, f, p)
    PROVE  IF p \in Replayed(f)
           THEN \E m \in 1 .. Len(history) : m = files[f][p].nr /\ Splits(m - 1, f, p - 1)
                                              /\ r[k] = Effect(history[m].op, r[m - 1])
           ELSE Splits(k, f, p - 1)
<1>1. ToReplay \subseteq File /\ File \subseteq Nat /\ p \in Nat /\ (\A g \in File : Len(files[g]) \in Nat)
      /\ Len(history) \in Nat /\ DOMAIN history = 1 .. Len(history)
  <2>1. ToReplay \subseteq File /\ File \subseteq Nat
    <3>1. ToReplay \subseteq File
      BY StartFacts DEF LogInv, WalTypeOK
    <3>. QED BY <3>1 DEF File
  <2>2. \A g \in File : Len(files[g]) \in Nat
    BY LenProperties DEF LogInv, WalTypeOK
  <2>3. Len(history) \in Nat /\ DOMAIN history = 1 .. Len(history)
    BY LenProperties DEF LogInv, WalTypeOK
  <2>4. p \in Nat
    BY <2>1, <2>2
  <2>. QED BY <2>1, <2>2, <2>3, <2>4
<1>2. \A g \in ToReplay : \A q \in Replayed(g) :
        /\ q \in 1 .. Len(files[g]) /\ files[g][q] \in Whole /\ g \in Nat /\ q \in Nat
        /\ files[g][q].nr \in 1 .. Len(history) /\ files[g][q].nr \in Nat
  <2>1. ASSUME NEW g \in ToReplay, NEW q \in Replayed(g)
        PROVE  /\ q \in 1 .. Len(files[g]) /\ files[g][q] \in Whole /\ g \in Nat /\ q \in Nat
               /\ files[g][q].nr \in 1 .. Len(history) /\ files[g][q].nr \in Nat
    <3>1. g \in File /\ Len(files[g]) \in Nat
      BY <1>1
    <3>2. q \in 1 .. Len(files[g]) /\ files[g][q] \in Whole /\ files[g][q].nr \in 1 .. Len(history)
      BY <3>1, ReplayedFacts
    <3>3. g \in Nat /\ q \in Nat
      <4>1. File \subseteq Nat
        BY <1>1
      <4>. QED BY <3>1, <3>2, <4>1
    <3>4. files[g][q].nr \in Nat
      <4>1. Len(history) \in Nat
        BY <1>1
      <4>. QED BY <3>2, <4>1
    <3>. QED BY <3>2, <3>3, <3>4
  <2>. QED BY <2>1
<1>3. CASE p \notin Replayed(f)
  <2>1. ASSUME NEW g \in ToReplay, NEW q \in Replayed(g) PROVE NotAfter(g, q, f, p) <=> NotAfter(g, q, f, p - 1)
    BY <1>1, <1>2, <1>3 DEF NotAfter
  <2>. QED BY <1>3, <2>1 DEF Splits
<1>4. CASE p \in Replayed(f)
  <2>1. PICK m \in 1 .. Len(history) : m = files[f][p].nr
    BY <1>2, <1>4
  <2>2. m \in Nat /\ m - 1 \in 0 .. Len(history) /\ m <= k /\ k \in Nat
    BY <1>1, <1>4, <2>1 DEF Splits, NotAfter
  <2>3. ASSUME NEW g \in ToReplay, NEW q \in Replayed(g)
        PROVE  /\ NotAfter(g, q, f, p - 1) => files[g][q].nr < m
               /\ ~ NotAfter(g, q, f, p - 1) => files[g][q].nr >= m
               /\ NotAfter(g, q, f, p) => files[g][q].nr <= m
    <3>1. /\ g \in File /\ f \in File /\ q \in 1 .. Len(files[g]) /\ files[g][q] \in Whole /\ files[f][p] \in Whole
          /\ files[g][q].nr \in Nat /\ g \in Nat /\ f \in Nat /\ q \in Nat /\ p \in Nat
      BY <1>1, <1>2, <1>4, <2>3
    <3>2. Ascending(files)
      BY DEF InOrder, Orderly
    <3>3. g < f \/ (g = f /\ q < p) => files[g][q].nr < m
      BY <2>1, <3>1, <3>2 DEF Ascending
    <3>4. f < g \/ (f = g /\ p < q) => m < files[g][q].nr
      BY <2>1, <3>1, <3>2 DEF Ascending
    <3>5. g = f /\ q = p => files[g][q].nr = m
      BY <2>1
    <3>6. NotAfter(g, q, f, p - 1) <=> (g < f \/ (g = f /\ q < p))
      BY <3>1 DEF NotAfter
    <3>7. NotAfter(g, q, f, p) <=> (g < f \/ (g = f /\ q < p)) \/ (g = f /\ q = p)
      BY <3>1 DEF NotAfter
    <3>8. (g < f \/ (g = f /\ q < p)) \/ (g = f /\ q = p) \/ (f < g \/ (f = g /\ p < q))
      BY <3>1
    <3>. QED BY <2>2, <3>1, <3>3, <3>4, <3>5, <3>6, <3>7, <3>8
  <2>4. Splits(m - 1, f, p - 1)
    <3>1. ASSUME NEW g \in ToReplay, NEW q \in Replayed(g)
          PROVE  files[g][q].nr <= m - 1 <=> NotAfter(g, q, f, p - 1)
      <4>1. files[g][q].nr \in Nat
        BY <1>2
      <4>. QED BY <2>2, <2>3, <4>1
    <3>. QED BY <3>1 DEF Splits
  <2>5. \A j \in m + 1 .. k : ~ history[j].owed
    <3>1. ASSUME NEW j \in m + 1 .. k, history[j].owed PROVE FALSE
      <4>1. j \in Owed /\ j \in Nat /\ j > m /\ j <= k
        BY <1>1, <2>2, <3>1 DEF Owed
      <4>2. PICK g \in ToReplay : \E q \in Replayed(g) : files[g][q].nr = j
        BY <4>1 DEF ReplayedNumbers
      <4>3. PICK q \in Replayed(g) : files[g][q].nr = j
        BY <4>2
      <4>4. NotAfter(g, q, f, p)
        BY <4>1, <4>3 DEF Splits
      <4>5. j <= m
        BY <2>3, <4>3, <4>4
      <4>. QED BY <2>2, <4>1, <4>5
    <3>. QED BY <3>1
  <2>6. r[k] = r[m]
    BY <1>1, <2>2, <2>5, NothingBetween
  <2>7. history[m].owed
    <3>1. m \in ReplayedNumbers
      BY <1>4, <2>1 DEF ReplayedNumbers
    <3>. QED BY <3>1 DEF Owed
  <2>8. r[m] = Effect(history[m].op, r[m - 1])
    BY <2>7 DEF Stages, Written
  <2>. QED BY <1>4, <2>1, <2>4, <2>6, <2>8
<1>. QED BY <1>3, <1>4

LEMMA FileRestores ==
    ASSUME LogInv, InOrder, ReplayedNumbers = Owed, NEW r, Stages(r, history),
           NEW f \in ToReplay, NEW c \in Content, \A k \in 0 .. Len(history) : Splits(k, f, 0) => c = r[k]
    PROVE  \A k \in 0 .. Len(history) : Splits(k, f, Len(files[f])) => ReadFile(f, c) = r[k]
<1> DEFINE N == Len(files[f])
<1>1. f \in File /\ N \in Nat /\ Len(history) \in Nat
  BY StartFacts, LenProperties DEF LogInv, WalTypeOK
<1>2. PICK read \in [0 .. N -> Content] :
         /\ read[0] = c /\ ReadFile(f, c) = read[N]
         /\ \A p \in 1 .. N :
               read[p] = IF p \in Replayed(f) THEN Effect(history[files[f][p].nr].op, read[p - 1]) ELSE read[p - 1]
  BY <1>1, ReadFileSteps
<1> DEFINE S == {p \in 0 .. N : \A k \in 0 .. Len(history) : Splits(k, f, p) => read[p] = r[k]}
<1>3. 0 \in S
  BY <1>1, <1>2
<1>4. ASSUME NEW p \in 1 .. N, p - 1 \in S PROVE p \in S
  <2>1. ASSUME NEW k \in 0 .. Len(history), Splits(k, f, p) PROVE read[p] = r[k]
    <3>1. CASE p \in Replayed(f)
      <4>1. PICK m \in 1 .. Len(history) : m = files[f][p].nr /\ Splits(m - 1, f, p - 1)
                                           /\ r[k] = Effect(history[m].op, r[m - 1])
        BY <2>1, <3>1, RecordSplits
      <4>2. m - 1 \in 0 .. Len(history)
        BY <1>1
      <4>3. read[p - 1] = r[m - 1]
        BY <1>4, <4>1, <4>2
      <4>. QED BY <1>2, <3>1, <4>1, <4>3
    <3>2. CASE p \notin Replayed(f)
      <4>1. Splits(k, f, p - 1)
        BY <2>1, <3>2, RecordSplits
      <4>2. read[p - 1] = r[k]
        BY <1>4, <4>1
      <4>. QED BY <1>2, <3>2, <4>2
    <3>. QED BY <3>1, <3>2
  <2>2. p \in 0 .. N
    BY <1>1
  <2>. QED BY <2>1, <2>2
<1> HIDE DEF S
<1>5. N \in S
  <2> HIDE DEF N
  <2>1. \A p \in 0 .. N : p \in S
    BY <1>1, <1>3, <1>4, InductionTo
  <2>. QED BY <1>1, <2>1
<1>. QED BY <1>2, <1>5 DEF S

\* Recovery makes the table of what is owed when it replays exactly that.
LEMMA RecoveredIsDurable ==
    ASSUME LogInv, InOrder, DurableMade, ReplayedNumbers = Owed
    PROVE  Recovered = durable
<1>1. PICK r : Stages(r, history) /\ durable = r[Len(history)]
  BY DEF DurableMade
<1>2. PICK read \in [0 .. MaxFiles -> Content] :
         /\ read[0] = Empty /\ Recovered = read[MaxFiles]
         /\ \A f \in File : read[f] = IF f \in ToReplay THEN ReadFile(f, read[f - 1]) ELSE read[f - 1]
  BY RecoveredSteps
<1>3. /\ MaxFiles \in Nat /\ File = 1 .. MaxFiles /\ ToReplay \subseteq File /\ Len(history) \in Nat
      /\ DOMAIN history = 1 .. Len(history) /\ \A f \in File : Len(files[f]) \in Nat
  BY LogAssumption, StartFacts, LenProperties DEF LogInv, WalTypeOK, File
<1>4. \A g \in ToReplay : \A q \in Replayed(g) :
        g \in Nat /\ q \in 1 .. Len(files[g]) /\ q \in Nat /\ files[g][q].nr \in 1 .. Len(history) /\ files[g][q].nr \in Nat
  <2>1. ASSUME NEW g \in ToReplay, NEW q \in Replayed(g)
        PROVE  q \in 1 .. Len(files[g]) /\ files[g][q].nr \in 1 .. Len(history)
    BY <1>3, ReplayedFacts
  <2>. QED BY <1>3, <2>1
<1> DEFINE Whence(k, f) == \A g \in ToReplay : \A q \in Replayed(g) : files[g][q].nr <= k <=> g <= f
           S == {f \in 0 .. MaxFiles : \A k \in 0 .. Len(history) : Whence(k, f) => read[f] = r[k]}
<1>5. 0 \in S
  <2>1. ASSUME NEW k \in 0 .. Len(history), Whence(k, 0) PROVE Empty = r[k]
    <3>1. \A j \in 1 .. k : ~ history[j].owed
      <4>1. ASSUME NEW j \in 1 .. k, history[j].owed PROVE FALSE
        <5>1. j \in Owed /\ j <= k
          BY <1>3, <4>1 DEF Owed
        <5>2. PICK g \in ToReplay : \E q \in Replayed(g) : files[g][q].nr = j
          BY <5>1 DEF ReplayedNumbers
        <5>3. PICK q \in Replayed(g) : files[g][q].nr = j
          BY <5>2
        <5>4. g <= 0 /\ g \in File
          BY <1>3, <2>1, <5>1, <5>3
        <5>. QED BY <1>3, <5>4
      <4>. QED BY <4>1
    <3>2. 0 \in 0 .. Len(history) /\ k \in 0 .. Len(history) /\ 0 + 1 = 1
      BY <1>3
    <3>3. r[k] = r[0]
      BY <1>1, <1>3, <3>1, <3>2, NothingBetween
    <3>. QED BY <1>1, <3>3 DEF Stages
  <2>. QED BY <1>2, <1>3, <2>1
<1>6. ASSUME NEW f \in 1 .. MaxFiles, f - 1 \in S PROVE f \in S
  <2>1. f \in Nat /\ f \in File /\ f - 1 \in 0 .. MaxFiles /\ f \in 0 .. MaxFiles /\ read[f - 1] \in Content
    BY <1>2, <1>3
  <2>2. ASSUME NEW k \in 0 .. Len(history), Whence(k, f) PROVE read[f] = r[k]
    <3>1. CASE f \in ToReplay
      <4>1. ASSUME NEW j \in 0 .. Len(history), Splits(j, f, 0) PROVE read[f - 1] = r[j]
        <5>1. ASSUME NEW g \in ToReplay, NEW q \in Replayed(g) PROVE NotAfter(g, q, f, 0) <=> g <= f - 1
          BY <1>4, <2>1 DEF NotAfter
        <5>2. Whence(j, f - 1)
          BY <4>1, <5>1 DEF Splits
        <5>. QED BY <1>6, <5>2
      <4>2. Splits(k, f, Len(files[f]))
        <5>1. ASSUME NEW g \in ToReplay, NEW q \in Replayed(g) PROVE NotAfter(g, q, f, Len(files[f])) <=> g <= f
          <6>1. g = f => q <= Len(files[f])
            BY <1>3, <1>4, <2>1
          <6>. QED BY <6>1, <1>4, <2>1 DEF NotAfter
        <5>. QED BY <2>2, <5>1 DEF Splits
      <4>3. ReadFile(f, read[f - 1]) = r[k]
        BY <1>1, <2>1, <3>1, <4>1, <4>2, FileRestores
      <4>. QED BY <1>2, <2>1, <3>1, <4>3
    <3>2. CASE f \notin ToReplay
      <4>1. ASSUME NEW g \in ToReplay PROVE g <= f <=> g <= f - 1
        BY <1>3, <2>1, <3>2
      <4>2. Whence(k, f - 1)
        BY <2>2, <4>1
      <4>3. read[f - 1] = r[k]
        BY <1>6, <4>2
      <4>. QED BY <1>2, <2>1, <3>2, <4>3
    <3>. QED BY <3>1, <3>2
  <2>. QED BY <2>1, <2>2
<1>7. Whence(Len(history), MaxFiles)
  BY <1>3, <1>4
<1> HIDE DEF S, Whence
<1>8. MaxFiles \in S
  <2>1. \A f \in 0 .. MaxFiles : f \in S
    BY <1>3, <1>5, <1>6, InductionTo
  <2>. QED BY <1>3, <2>1
<1>9. Len(history) \in 0 .. Len(history)
  BY <1>3
<1>. QED BY <1>1, <1>2, <1>7, <1>8, <1>9 DEF S
------------------------------------------------------------------------------
MeshLog == LogInv /\ InOrder /\ DurableMade

LEMMA MeshLogInvariant == MeshSafe => []MeshLog
<1>1. MeshInit => MeshLog
  <2>1. ASSUME MeshInit PROVE DurableMade
    <3>1. durable = Empty /\ history = <<>> /\ Len(<<>>) = 0
      BY <2>1 DEF MeshInit, WalInit
    <3>2. \E r : Stages(r, history) /\ Empty = r[Len(history)]
      BY <3>1, StagesEmpty
    <3>. QED BY <3>1, <3>2 DEF DurableMade
  <2>. QED BY <2>1, LogStarts, InOrderStarts DEF MeshInit, MeshLog
<1>2. MeshLog /\ [MeshNext]_meshVars => MeshLog'
  BY MeshStepsLog, LogSteps, InOrderStep, DurableStep DEF MeshLog
<1>. QED BY <1>1, <1>2, PTL DEF MeshSafe

\* When recover() replays exactly what append() acknowledged since the last
\* checkpoint, it makes exactly the table that these writes made, for every set of
\* operations, file count and interleaving of failures, rotations, checkpoints and
\* restarts: the files and offsets it reads in are the order of append().
THEOREM RecoveryRestores == MeshSafe => []Restorable
<1>1. MeshLog => Restorable
  BY RecoveredIsDurable DEF MeshLog, Restorable
<1>. QED BY <1>1, MeshLogInvariant, PTL

LEMMA RecoveredContent ==
    ASSUME LogInv, InOrder
    PROVE  Recovered \in Content
<1>1. MaxFiles \in 0 .. MaxFiles
  BY LogAssumption
<1>. QED BY <1>1, RecoveredSteps

\* Written through a log, crashed and recovered, the tables keep their type and the
\* best row of each agent.
LEMMA MeshTablesStep ==
    ASSUME TablesTypeOK, HoldsBest, LogInv, InOrder, [MeshNext]_meshVars
    PROVE  TablesTypeOK' /\ HoldsBest'
<1>1. CASE TablesNext
  BY <1>1, TablesStep
<1>2. CASE UNCHANGED tableVars
  BY <1>2 DEF tableVars, TablesTypeOK, HoldsBest
<1>3. ASSUME NEW w \in Op, NEW rotate \in BOOLEAN, LoggedWrite(w, rotate) PROVE TablesTypeOK' /\ HoldsBest'
  <2>1. w.add \in Content /\ w.drop \in SUBSET Agent /\ Logged \in Table
    BY MeshAssumption
  <2>2. CASE w.drop = {}
    <3>1. Offer(Logged, w.add) /\ UNCHANGED <<sent, merging, fetched>>
      BY <1>3, <2>2 DEF LoggedWrite
    <3>. QED BY <2>1, <3>1, OfferedRows DEF TablesTypeOK
  <2>3. CASE w.drop # {}
    <3>1. Drop(Logged, w.drop)
      BY <1>3, <2>3 DEF LoggedWrite
    <3>. QED BY <2>1, <3>1, DroppedRows DEF Drop, TablesTypeOK
  <2>. QED BY <2>2, <2>3
<1>4. CASE WriteRefused \/ TakeCheckpoint \/ MissCheckpoint \/ UNCHANGED meshVars
  BY <1>2, <1>4 DEF WriteRefused, TakeCheckpoint, MissCheckpoint, meshVars
<1>5. CASE TableStep \/ \E t \in Table : EndMerge(t)
  BY <1>1, <1>5 DEF TableStep, EndMerge, TablesNext
<1>6. CASE Crash \/ Stop \/ Restart
  <2>1. Restart => \E t \in Table, c \in Content : Load(t, c)
    BY MeshAssumption, RecoveredContent DEF Restart
  <2>. QED BY <1>1, <1>6, <2>1 DEF Crash, Stop, TablesNext
<1>. QED BY <1>3, <1>4, <1>5, <1>6 DEF MeshNext

\* The tables of a mesh, one of them logged and recovered after crashes, hold the
\* best row they were offered since they started or were restored.
THEOREM MeshHoldsBest == MeshSafe => []TablesTypeOK /\ []HoldsBest
<1>1. MeshInit => TablesTypeOK /\ HoldsBest
  BY TablesInitial DEF MeshInit
<1>2. (TablesTypeOK /\ HoldsBest) /\ MeshLog /\ [MeshNext]_meshVars => (TablesTypeOK /\ HoldsBest)'
  BY MeshTablesStep DEF MeshLog
<1>. QED BY <1>1, <1>2, MeshLogInvariant, PTL DEF MeshSafe

\* A mesh on a disk that takes every write whole: it crashes between writes, stops
\* and restarts all the same (WriteRefused and MissCheckpoint are left out).
FaultlessNext ==
    \/ \E w \in Op, rotate \in BOOLEAN : LoggedWrite(w, rotate)
    \/ TableStep
    \/ \E t \in Table : EndMerge(t)
    \/ TakeCheckpoint
    \/ Crash \/ Stop \/ Restart
Faultless == MeshInit /\ [][FaultlessNext]_meshVars

\* Then nothing is torn or left in the buffer, and what recovery reads is owed.
NothingTorn == buffer = <<>> /\ \A f \in File : \A p \in 1 .. Len(files[f]) : ~IsTorn(files[f][p])
ReadIsOwed == \A f \in ToReplay : \A p \in Start(f) .. Len(files[f]) : files[f][p].nr \in Owed
CleanLog == NothingTorn /\ ReadIsOwed

LEMMA FlushesNothing ==
    ASSUME WalTypeOK, CurrentIsLast, buffer = <<>>
    PROVE  Flushed = files
<1>1. Current \in File /\ files \in [File -> Seq(Cell)]
  BY CurrentFacts DEF WalTypeOK, Cell
<1>2. files[Current] \o <<>> = files[Current]
  BY <1>1, ConcatEmptySeq
<1>. QED BY <1>1, <1>2 DEF Flushed

LEMMA CleanAppend ==
    ASSUME LogInv, CleanLog, NEW w \in Op, NEW rotate \in BOOLEAN, AppendRecord(w, rotate)
    PROVE  CleanLog'
<1>. DEFINE T == Target(rotate)
            c == [nr |-> Number]
<1>1. WalTypeOK /\ CurrentIsLast /\ CheckpointOnDisk
  BY DEF LogInv
<1>2. Current \in onDisk /\ Current \in File /\ \A g \in onDisk : g <= Current
  BY <1>1, CurrentFacts
<1>3. Flushed = files /\ files \in [File -> Seq(Cell)]
  BY <1>1, FlushesNothing DEF CleanLog, NothingTorn, WalTypeOK, Cell
<1>4. /\ T \in File /\ onDisk' = onDisk \cup {T} /\ UNCHANGED checkpoint /\ buffer' = <<>>
      /\ Recorded(w, TRUE) /\ Number <= MaxRecords
      /\ files' = [files EXCEPT ![T] = IF rotate THEN <<c>> ELSE Append(files[T], c)]
  BY <1>3 DEF AppendRecord
<1>5. ~IsTorn(c) /\ c.nr = Number
  BY DEF IsTorn
<1>6. ASSUME NEW f \in File, NEW p \in 1 .. Len(files'[f])
      PROVE  \/ files'[f][p] = c
             \/ p \in 1 .. Len(files[f]) /\ files'[f][p] = files[f][p] /\ ~(rotate /\ f = T)
  <2>1. files[f] \in Seq(Cell) /\ Len(files[f]) \in Nat
    BY <1>3, LenProperties
  <2>2. CASE f # T
    BY <1>3, <1>4, <1>6, <2>1, <2>2
  <2>3. CASE f = T /\ rotate
    <3>1. files'[f] = <<c>>
      BY <1>3, <1>4, <2>3
    <3>. QED BY <1>6, <3>1
  <2>4. CASE f = T /\ ~rotate
    <3>1. files'[f] = Append(files[f], c)
      BY <1>3, <1>4, <2>4
    <3>2. c \in Cell
      BY <1>1, <1>4, NewNumber
    <3>3. /\ Len(files'[f]) = Len(files[f]) + 1 /\ files'[f][Len(files[f]) + 1] = c
          /\ \A q \in 1 .. Len(files[f]) : files'[f][q] = files[f][q]
      BY <2>1, <3>1, <3>2, AppendProperties
    <3>. QED BY <1>6, <2>1, <2>4, <3>3
  <2>. QED BY <2>2, <2>3, <2>4
<1>7. NothingTorn'
  <2>1. ASSUME NEW f \in File, NEW p \in 1 .. Len(files'[f]) PROVE ~IsTorn(files'[f][p])
    BY <1>5, <1>6 DEF CleanLog, NothingTorn
  <2>. QED BY <1>4, <2>1 DEF NothingTorn
<1>8. \A f \in File : Start(f)' = Start(f) /\ (f \in ToReplay' => f \in ToReplay \/ (rotate /\ f = T))
  <2>1. HasCheckpoint' <=> HasCheckpoint
    BY <1>1, <1>4 DEF HasCheckpoint, CheckpointOnDisk
  <2>2. T \in onDisk \/ rotate
    BY <1>2 DEF Target
  <2>. QED BY <1>4, <2>1, <2>2 DEF Start, ToReplay
<1>9. /\ Owed \subseteq Owed' /\ Number \in Owed'
  <2>1. /\ history' = Append(history, [op |-> w, owed |-> TRUE]) /\ DOMAIN history' = 1 .. Number
        /\ Number \in Nat /\ DOMAIN history = 1 .. Len(history) /\ Len(history) \in Nat
        /\ history'[Number] = [op |-> w, owed |-> TRUE]
        /\ \A k \in DOMAIN history : history'[k] = history[k]
    <3>1. history \in Seq([op : Op, owed : BOOLEAN]) /\ [op |-> w, owed |-> TRUE] \in [op : Op, owed : BOOLEAN]
      BY <1>1 DEF WalTypeOK
    <3>. QED BY <1>4, <3>1, AppendProperties, LenProperties DEF Recorded, Number
  <2>. QED BY <2>1 DEF Owed, Number
<1>10. ReadIsOwed'
  <2>1. ASSUME NEW f \in ToReplay', NEW p \in Start(f)' .. Len(files'[f]) PROVE files'[f][p].nr \in Owed'
    <3>1. f \in File /\ Start(f) \in Nat \ {0} /\ Start(f)' = Start(f)
      <4>1. f \in File
        BY <1>1, <1>4, <2>1 DEF ToReplay, WalTypeOK
      <4>. QED BY <1>1, <1>8, <4>1, StartFacts
    <3>2. Len(files'[f]) \in Nat
      <4>1. files' \in [File -> Seq(Cell)]
        <5>1. c \in Cell /\ files[T] \in Seq(Cell)
          BY <1>1, <1>3, <1>4, NewNumber
        <5>2. <<c>> \in Seq(Cell) /\ Append(files[T], c) \in Seq(Cell)
          BY <5>1
        <5>. QED BY <1>3, <1>4, <5>2
      <4>. QED BY <3>1, <4>1, LenProperties
    <3>3. p \in 1 .. Len(files'[f])
      BY <2>1, <3>1, <3>2
    <3>4. CASE files'[f][p] = c
      BY <1>5, <1>9, <3>4
    <3>5. CASE p \in 1 .. Len(files[f]) /\ files'[f][p] = files[f][p] /\ ~(rotate /\ f = T)
      <4>1. f \in ToReplay /\ p \in Start(f) .. Len(files[f])
        BY <1>8, <2>1, <3>1, <3>2, <3>5
      <4>. QED BY <1>9, <3>5, <4>1 DEF CleanLog, ReadIsOwed
    <3>. QED BY <1>6, <3>1, <3>3, <3>4, <3>5
  <2>. QED BY <2>1 DEF ReadIsOwed
<1>. QED BY <1>7, <1>10 DEF CleanLog

\* A checkpoint leaves nothing to read.
LEMMA CleanCheckpoint ==
    ASSUME LogInv, CleanLog, Checkpoint
    PROVE  CleanLog'
<1>1. WalTypeOK /\ CurrentIsLast
  BY DEF LogInv
<1>2. Current \in onDisk /\ Current \in File /\ \A g \in onDisk : g <= Current
  BY <1>1, CurrentFacts
<1>3. files' = files /\ buffer' = <<>> /\ checkpoint' = [file |-> Current, offset |-> Len(files[Current])]
  BY <1>1, FlushesNothing DEF Checkpoint, CleanLog, NothingTorn
<1>4. Current \in onDisk' /\ onDisk' \subseteq onDisk
  <2>1. PICK kept \in SUBSET (onDisk \ Newest(2)) : onDisk' = Newest(2) \cup kept
    BY DEF Checkpoint
  <2>2. {g \in onDisk : g > Current} = {}
    <3>1. onDisk \subseteq Int
      BY <1>1 DEF WalTypeOK, File
    <3>2. \A g \in onDisk : ~ (g > Current)
      BY <1>2, <3>1
    <3>. QED BY <3>2
  <2>3. Current \in Newest(2)
    BY <1>2, <2>2, FS_EmptySet DEF Newest
  <2>. QED BY <2>1, <2>3 DEF Newest
<1>5. Len(files[Current]) \in Nat
  BY <1>1, <1>2, LenProperties DEF WalTypeOK
<1>6. ASSUME NEW f \in ToReplay', NEW p \in Start(f)' .. Len(files'[f]) PROVE FALSE
  <2>1. HasCheckpoint'
    <3>1. checkpoint' \in [file : Nat, offset : Nat]
      BY <1>2, <1>3, <1>5 DEF File
    <3>. QED BY <1>3, <1>4, <3>1, LogAssumption DEF HasCheckpoint
  <2>2. f \in onDisk' /\ f >= Current
    BY <1>3, <1>6, <2>1 DEF ToReplay
  <2>3. f \in Int /\ Current \in Int
    BY <1>1, <1>2, <1>4, <2>2 DEF WalTypeOK, File
  <2>4. f = Current
    BY <1>2, <1>4, <2>2, <2>3
  <2>5. Start(f)' = Len(files[Current]) + 1
    BY <1>3, <2>1, <2>4 DEF Start
  <2>. QED BY <1>3, <1>5, <1>6, <2>4, <2>5
<1>7. ReadIsOwed'
  BY <1>6 DEF ReadIsOwed
<1>8. NothingTorn'
  BY <1>3 DEF CleanLog, NothingTorn
<1>. QED BY <1>7, <1>8 DEF CleanLog

LEMMA CleanNext == MeshLog /\ CleanLog /\ [FaultlessNext]_meshVars => CleanLog'
<1>. SUFFICES ASSUME MeshLog, CleanLog, [FaultlessNext]_meshVars PROVE CleanLog'
  OBVIOUS
<1>1. LogInv
  BY DEF MeshLog
<1>2. ASSUME UNCHANGED <<onDisk, files, buffer, checkpoint, history>> PROVE CleanLog'
  BY <1>2 DEF CleanLog, NothingTorn, ReadIsOwed, ToReplay, Start, HasCheckpoint, Owed
<1>3. ASSUME NEW w \in Op, NEW rotate \in BOOLEAN, LoggedWrite(w, rotate) PROVE CleanLog'
  BY <1>1, <1>3, CleanAppend DEF LoggedWrite
<1>4. CASE TakeCheckpoint
  BY <1>1, <1>4, CleanCheckpoint DEF TakeCheckpoint
<1>5. CASE TableStep \/ \E t \in Table : EndMerge(t)
  BY <1>2, <1>5 DEF TableStep, EndMerge, logVars
<1>6. CASE Crash \/ Restart
  BY <1>2, <1>6 DEF Crash, CrashLog, Restart, Reopen, CleanLog, NothingTorn
<1>7. CASE Stop
  <2>1. files' = files /\ buffer' = buffer
    BY <1>1, <1>7, FlushesNothing DEF Stop, Close, LogInv, CleanLog, NothingTorn
  <2>. QED BY <1>2, <1>7, <2>1 DEF Stop, Close
<1>8. CASE UNCHANGED meshVars
  BY <1>2, <1>8 DEF meshVars, logVars
<1>. QED BY <1>3, <1>4, <1>5, <1>6, <1>7, <1>8 DEF FaultlessNext

LEMMA CleanIsRestorable == MeshLog /\ CleanLog => ReplayedNumbers = Owed
<1>. SUFFICES ASSUME MeshLog, CleanLog PROVE ReplayedNumbers = Owed
  OBVIOUS
<1>1. WalTypeOK /\ CheckpointOnDisk /\ DueRecovered
  BY PlacedIsRead DEF MeshLog, LogInv
<1>2. ASSUME NEW f \in ToReplay
      PROVE  f \in File /\ Start(f) \in Nat \ {0} /\ Len(files[f]) \in Nat
  <2>1. f \in File
    BY <1>1, StartFacts DEF WalTypeOK
  <2>. QED BY <1>1, <2>1, StartFacts, LenProperties DEF WalTypeOK
<1>3. ASSUME NEW k \in Owed PROVE k \in ReplayedNumbers
  <2>0. PICK f \in ToReplay : \E p \in Start(f) .. Len(files[f]) :
            files[f][p] = [nr |-> k] /\ (p \in Replayed(f) \/ BehindTorn(f, p))
    BY <1>1, <1>3 DEF DueRecovered, Owed
  <2>1. PICK p \in Start(f) .. Len(files[f]) :
            files[f][p] = [nr |-> k] /\ (p \in Replayed(f) \/ BehindTorn(f, p))
    BY <2>0
  <2>2. ~BehindTorn(f, p)
    BY <1>2, <2>1 DEF BehindTorn, CleanLog, NothingTorn
  <2>. QED BY <2>1, <2>2 DEF ReplayedNumbers
<1>4. ASSUME NEW k \in ReplayedNumbers PROVE k \in Owed
  <2>1. PICK f \in ToReplay : \E p \in Replayed(f) : k = files[f][p].nr
    BY <1>4 DEF ReplayedNumbers
  <2>2. PICK p \in Replayed(f) : k = files[f][p].nr
    BY <2>1
  <2>3. p \in Start(f) .. Len(files[f])
    BY <2>2 DEF Replayed
  <2>. QED BY <2>2, <2>3 DEF CleanLog, ReadIsOwed
<1>. QED BY <1>3, <1>4

\* As long as no write to the log or its checkpoint fails or is cut short, what
\* recover() makes is always the table of the writes since the last checkpoint,
\* wherever crashes and restarts fall between writes, however the files rotate and
\* are unlinked, and however often it recovers.
THEOREM FaultlessRecovery == Faultless => [](Recovered = durable)
<1>1. MeshInit => CleanLog
  <2>. SUFFICES ASSUME MeshInit PROVE CleanLog
    OBVIOUS
  <2>1. /\ buffer = <<>> /\ onDisk = {1} /\ checkpoint = Garbled
        /\ \A f \in File : files[f] = <<>> /\ Len(files[f]) = 0
    BY DEF MeshInit, WalInit
  <2>2. 1 \in File
    BY LogAssumption DEF File
  <2>. QED BY <2>1, <2>2 DEF CleanLog, NothingTorn, ReadIsOwed, ToReplay, Start, HasCheckpoint
<1>2. FaultlessNext => MeshNext
  BY DEF FaultlessNext, MeshNext
<1>3. Faultless => []MeshLog
  <2>1. Faultless => MeshSafe
    BY <1>2, PTL DEF Faultless, MeshSafe
  <2>. QED BY <2>1, MeshLogInvariant, PTL
<1>4. MeshLog /\ CleanLog => Recovered = durable
  BY CleanIsRestorable, RecoveredIsDurable DEF MeshLog
<1>. QED BY <1>1, <1>3, <1>4, CleanNext, PTL DEF Faultless
------------------------------------------------------------------------------
\* The tiers of one table (TieredStorage).
\* Where a caller, and the maintenance thread, may be.
InsertOp == [at : {"choose", "insert"}, row : Entry]
DemoteOp == [at : {"demote", "spill"}, row : Entry, victim : Entry]
QueryOp == [at : {"warm", "cold"}, agent : Agent, sure : BOOLEAN]
PromoteOp == [at : {"promote", "lift"}, row : Entry]
CallerOp == {Idle} \cup InsertOp \cup DemoteOp \cup QueryOp \cup PromoteOp
Rest == [at : {"asleep", "ended"}]
Sweep == [at : {"sweep"}, left : SUBSET Entry]
SweepHand == [at : {"spill"}, row : Entry, left : SUBSET Entry]
Archiving == [at : {"archive", "purge"}, rows : SUBSET Entry]
Upkeep == Rest \cup Sweep \cup SweepHand \cup Archiving
Tier == [Agent -> Entry \cup {None}]

TierTypes ==
    /\ hot \in Tier /\ warm \in Tier /\ cold \in Tier
    /\ op \in [Caller -> CallerOp]
    /\ upkeep \in Upkeep

Below(a) == warm[a] # None \/ cold[a] # None
Present(a) == hot[a] # None \/ Below(a)
Holds(o, a) == (o.at = "spill" /\ o.victim.agent = a) \/ (o.at = "lift" /\ o.row.agent = a)
SweepHolds(a) == upkeep.at = "spill" /\ upkeep.row.agent = a

\* What a caller accepted is in a tier or in the hands of a thread, or a write lost it.
Kept == \A a \in Agent : a \in accepted /\ a \notin spilled => InHand(a) \/ Present(a)
\* A query that cannot miss has the row still below it.
QueryFine(o) ==
    /\ o.at = "warm" /\ o.sure => Below(o.agent)
    /\ o.at = "cold" /\ o.sure => cold[o.agent] # None
QueriesFine == \A c \in Caller : QueryFine(op[c])
\* Rows that are about to be deleted are in the archives.
ArchivedFirst == upkeep.at = "purge" => \A e \in upkeep.rows : cold[e.agent] # None
TierInv == TierTypes /\ Kept /\ QueriesFine /\ ArchivedFirst

LEMMA EntryFacts == None \notin Entry /\ \A e \in Entry : e.agent \in Agent /\ e # None
BY RowsAssumption

\* The place of a caller tells what it carries.
LEMMA OpKinds ==
    ASSUME NEW o \in CallerOp
    PROVE  /\ o.at \in {"choose", "insert"} => o \in InsertOp
           /\ o.at \in {"demote", "spill"} => o \in DemoteOp
           /\ o.at \in {"warm", "cold"} => o \in QueryOp
           /\ o.at \in {"promote", "lift"} => o \in PromoteOp
           /\ o.at \in {"idle", "choose", "insert", "demote", "spill", "warm", "cold", "promote", "lift"}
<1>1. CASE o = Idle
  BY <1>1 DEF Idle
<1>2. CASE o \in InsertOp
  BY <1>2 DEF InsertOp
<1>3. CASE o \in DemoteOp
  BY <1>3 DEF DemoteOp
<1>4. CASE o \in QueryOp
  BY <1>4 DEF QueryOp
<1>5. CASE o \in PromoteOp
  BY <1>5 DEF PromoteOp
<1> QED
  BY <1>1, <1>2, <1>3, <1>4, <1>5 DEF CallerOp

LEMMA UpkeepKinds ==
    ASSUME NEW u \in Upkeep
    PROVE  /\ u.at = "sweep" => u \in Sweep
           /\ u.at = "spill" => u \in SweepHand
           /\ u.at \in {"archive", "purge"} => u \in Archiving
<1>1. CASE u \in Rest
  BY <1>1 DEF Rest
<1>2. CASE u \in Sweep
  BY <1>2 DEF Sweep
<1>3. CASE u \in SweepHand
  BY <1>3 DEF SweepHand
<1>4. CASE u \in Archiving
  BY <1>4 DEF Archiving
<1> QED
  BY <1>1, <1>2, <1>3, <1>4 DEF Upkeep

LEMMA Hands == \A a : InHand(a) <=> SweepHolds(a) \/ \E c \in Caller : Holds(op[c], a)
BY DEF InHand, SweepHolds, Holds

\* A query that a move disturbs is where it was, and may miss.
Shaken(d) == op[d] \in QueryOp /\ op'[d] = [op[d] EXCEPT !.sure = FALSE]

LEMMA ShakenFacts ==
    ASSUME NEW d \in Caller, Shaken(d)
    PROVE  /\ op'[d] \in CallerOp /\ op'[d] \in QueryOp /\ ~op'[d].sure
           /\ \A a : ~Holds(op'[d], a) /\ ~Holds(op[d], a)
<1>1. op'[d] \in QueryOp /\ op'[d].sure = FALSE
  BY DEF Shaken, QueryOp
<1>2. op[d].at \in {"warm", "cold"} /\ op'[d].at \in {"warm", "cold"}
  BY <1>1 DEF Shaken, QueryOp
<1> QED
  BY <1>1, <1>2 DEF CallerOp, Holds

LEMMA DisturbedFacts ==
    ASSUME TierTypes, NEW a, NEW d \in Caller
    PROVE  /\ Disturbed(a)[d] \in CallerOp
           /\ ~Querying(d, a) => Disturbed(a)[d] = op[d]
           /\ Querying(d, a) => op[d] \in QueryOp /\ Disturbed(a)[d] = [op[d] EXCEPT !.sure = FALSE]
<1>1. op[d] \in CallerOp
  BY DEF TierTypes
<1>2. CASE Querying(d, a)
  <2>1. op[d] \in QueryOp
    BY <1>1, <1>2, OpKinds DEF Querying
  <2>2. Disturbed(a)[d] = [op[d] EXCEPT !.sure = FALSE]
    BY <1>2 DEF Disturbed
  <2>3. [op[d] EXCEPT !.sure = FALSE] \in QueryOp
    BY <2>1 DEF QueryOp
  <2> QED
    BY <1>2, <2>1, <2>2, <2>3 DEF CallerOp
<1>3. CASE ~Querying(d, a)
  BY <1>1, <1>3 DEF Disturbed
<1> QED
  BY <1>2, <1>3

\* What a step of one caller, or of the maintenance thread, has to see to.
OthersRest(D) == \A d \in D : op'[d] = op[d] \/ Shaken(d)
Undisturbed(D) ==
    /\ \A a \in Agent : cold[a] # None => cold'[a] # None
    /\ \A a \in Agent : Below(a) => Below(a)' \/ \A d \in D : Querying(d, a) => Shaken(d)

LEMMA OthersFine ==
    ASSUME TierInv, NEW D \in SUBSET Caller, OthersRest(D), Undisturbed(D), NEW d \in D
    PROVE  /\ op'[d] \in CallerOp /\ QueryFine(op[d])'
           /\ \A a : Holds(op'[d], a) <=> Holds(op[d], a)
<1>1. op[d] \in CallerOp /\ QueryFine(op[d])
  BY DEF TierInv, TierTypes, QueriesFine
<1>2. CASE Shaken(d)
  <2>1. op'[d] \in CallerOp /\ ~op'[d].sure /\ \A a : ~Holds(op'[d], a) /\ ~Holds(op[d], a)
    BY <1>2, ShakenFacts
  <2> QED
    BY <2>1 DEF QueryFine
<1>3. CASE ~Shaken(d)
  <2>1. op'[d] = op[d]
    BY <1>3 DEF OthersRest
  <2>2. ASSUME op[d].at = "warm", op[d].sure PROVE Below(op[d].agent)'
    <3>1. op[d].agent \in Agent
      BY <1>1, <2>2, OpKinds DEF QueryOp
    <3>2. Below(op[d].agent)
      BY <1>1, <2>2 DEF QueryFine
    <3>3. Querying(d, op[d].agent)
      BY <2>2 DEF Querying
    <3> QED
      BY <1>3, <3>1, <3>2, <3>3, <2>1 DEF Undisturbed
  <2>3. ASSUME op[d].at = "cold", op[d].sure PROVE cold'[op[d].agent] # None
    <3>1. op[d].agent \in Agent
      BY <1>1, <2>3, OpKinds DEF QueryOp
    <3> QED
      BY <1>1, <2>3, <3>1 DEF QueryFine, Undisturbed
  <2> QED
    BY <1>1, <2>1, <2>2, <2>3 DEF QueryFine
<1> QED
  BY <1>2, <1>3

LEMMA CallerTurn ==
    ASSUME TierInv, NEW c \in Caller, OthersRest(Caller \ {c}), Undisturbed(Caller \ {c}), upkeep' = upkeep,
           hot' \in Tier, warm' \in Tier, cold' \in Tier,
           op' = [d \in Caller |-> op'[d]], op'[c] \in CallerOp, QueryFine(op[c])',
           \A a \in Agent : a \in accepted' /\ a \notin spilled' =>
              \/ Present(a)' \/ Holds(op'[c], a)
              \/ a \in accepted /\ a \notin spilled /\ ~Present(a) /\ ~Holds(op[c], a)
    PROVE  TierInv'
<1>1. TierTypes'
  <2>1. \A d \in Caller : op'[d] \in CallerOp
    BY OthersFine
  <2>2. op' \in [Caller -> CallerOp]
    BY <2>1
  <2>3. upkeep' \in Upkeep
    BY DEF TierInv, TierTypes
  <2> QED
    BY <2>2, <2>3 DEF TierTypes
<1>2. Kept'
  <2>1. SUFFICES ASSUME NEW a \in Agent, a \in accepted', a \notin spilled', ~Present(a)' PROVE InHand(a)'
    BY DEF Kept
  <2>2. CASE Holds(op'[c], a)
    BY <2>2 DEF InHand, Holds
  <2>3. CASE a \in accepted /\ a \notin spilled /\ ~Present(a) /\ ~Holds(op[c], a)
    <3>1. InHand(a)
      BY <2>3 DEF TierInv, Kept
    <3>2. SweepHolds(a) \/ \E d \in Caller \ {c} : Holds(op[d], a)
      BY <2>3, <3>1, Hands
    <3>3. SweepHolds(a) \/ \E d \in Caller \ {c} : Holds(op'[d], a)
      BY <3>2, OthersFine
    <3> QED
      BY <3>3 DEF InHand, SweepHolds, Holds
  <2> QED
    BY <2>1, <2>2, <2>3
<1>3. QueriesFine'
  <2>1. \A d \in Caller : QueryFine(op[d])'
    BY OthersFine
  <2> QED
    BY <2>1 DEF QueriesFine
<1>4. ArchivedFirst'
  <2>1. upkeep.at = "purge" => upkeep.rows \subseteq Entry
    BY UpkeepKinds DEF TierInv, TierTypes, Archiving
  <2> QED
    BY <2>1, EntryFacts DEF TierInv, ArchivedFirst, Undisturbed
<1> QED
  BY <1>1, <1>2, <1>3, <1>4 DEF TierInv

LEMMA PassTurn ==
    ASSUME TierInv, OthersRest(Caller), Undisturbed(Caller), upkeep' \in Upkeep, ArchivedFirst',
           hot' \in Tier, warm' \in Tier, cold' \in Tier, op' = [d \in Caller |-> op'[d]],
           \A a \in Agent : a \in accepted' /\ a \notin spilled' =>
              \/ Present(a)' \/ SweepHolds(a)'
              \/ a \in accepted /\ a \notin spilled /\ ~Present(a) /\ ~SweepHolds(a)
    PROVE  TierInv'
<1>1. \A d \in Caller : op'[d] \in CallerOp /\ QueryFine(op[d])' /\ \A a : Holds(op'[d], a) <=> Holds(op[d], a)
  BY OthersFine
<1>2. TierTypes'
  <2>1. op' \in [Caller -> CallerOp]
    BY <1>1
  <2> QED
    BY <2>1 DEF TierTypes
<1>3. Kept'
  <2>1. SUFFICES ASSUME NEW a \in Agent, a \in accepted', a \notin spilled', ~Present(a)' PROVE InHand(a)'
    BY DEF Kept
  <2>2. CASE SweepHolds(a)'
    BY <2>2 DEF InHand, SweepHolds
  <2>3. CASE a \in accepted /\ a \notin spilled /\ ~Present(a) /\ ~SweepHolds(a)
    <3>1. InHand(a)
      BY <2>3 DEF TierInv, Kept
    <3>2. \E d \in Caller : Holds(op'[d], a)
      BY <1>1, <2>3, <3>1, Hands
    <3> QED
      BY <3>2 DEF InHand, Holds
  <2> QED
    BY <2>1, <2>2, <2>3
<1> QED
  BY <1>1, <1>2, <1>3 DEF TierInv, QueriesFine

\* The tiers after a row is put, offered or taken out.
LEMMA PutFacts ==
    ASSUME NEW tier \in Tier, NEW e \in Entry
    PROVE  /\ Put(tier, e) \in Tier /\ OfferTo(tier, e) \in Tier
           /\ Put(tier, e)[e.agent] # None /\ OfferTo(tier, e)[e.agent] # None
           /\ \A a \in Agent : tier[a] # None => Put(tier, e)[a] # None /\ OfferTo(tier, e)[a] # None
<1>1. e.agent \in Agent /\ e # None /\ Winner(tier[e.agent], e) \in {e, tier[e.agent]} /\ Winner(tier[e.agent], e) # None
  BY EntryFacts DEF Winner, Tier
<1> QED
  BY <1>1 DEF Put, OfferTo, Tier

LEMMA WithoutFacts ==
    ASSUME NEW tier \in Tier, NEW S
    PROVE  /\ Without(tier, S) \in Tier
           /\ \A a \in Agent : a \notin S => Without(tier, S)[a] = tier[a]
BY DEF Without, Tier

LEMMA RowsFacts ==
    ASSUME NEW tier \in Tier
    PROVE  /\ Rows(tier) \subseteq Entry
           /\ \A a \in Agent : tier[a] # None => tier[a] \in Entry
BY DEF Rows, Tier

\* A caller moves on while no row leaves a tier.
LEMMA CallerMoves ==
    ASSUME TierInv, NEW c \in Caller, NEW o \in CallerOp, op' = [op EXCEPT ![c] = o], QueryFine(o)',
           upkeep' = upkeep, cold' = cold, hot' \in Tier, warm' \in Tier,
           \A a \in Agent : (hot[a] # None => hot'[a] # None) /\ (warm[a] # None => warm'[a] # None),
           \A a \in Agent : a \in accepted' /\ a \notin spilled' =>
              \/ Present(a)' \/ Holds(o, a)
              \/ a \in accepted /\ a \notin spilled /\ ~Holds(op[c], a)
    PROVE  TierInv'
<1>1. op \in [Caller -> CallerOp] /\ op'[c] = o /\ op' = [d \in Caller |-> op'[d]] /\ cold' \in Tier
  BY DEF TierInv, TierTypes
<1>2. OthersRest(Caller \ {c}) /\ Undisturbed(Caller \ {c})
  BY <1>1 DEF OthersRest, Undisturbed, Below
<1>3. QueryFine(op[c])'
  BY <1>1 DEF QueryFine, Below
<1>4. \A a \in Agent : Present(a) => Present(a)'
  BY DEF Present, Below
<1> HIDE DEF Present, Holds
<1> QED
  BY <1>1, <1>2, <1>3, <1>4, CallerTurn

LEMMA NotAQuery == \A o : o.at \notin {"warm", "cold"} => QueryFine(o) /\ QueryFine(o)'
BY DEF QueryFine

LEMMA InsertsStep ==
    ASSUME TierInv, NEW c \in Caller, NEW e \in Entry, InsertHot(c, e) \/ InsertWarm(c, e)
    PROVE  TierInv'
<1>1. op \in [Caller -> CallerOp] /\ hot \in Tier /\ warm \in Tier /\ cold \in Tier
  BY DEF TierInv, TierTypes
<1>2. op[c] = Idle /\ \A a : ~Holds(Idle, a)
  BY DEF InsertHot, InsertWarm, Holds, Idle
<1>3. CASE InsertHot(c, e)
  <2>1. PICK o \in InsertOp : op' = [op EXCEPT ![c] = o]
    <3> DEFINE o == [at |-> IF Cardinality(Rows(hot)) >= EmergencyCapacity THEN "choose" ELSE "insert", row |-> e]
    <3>1. o \in InsertOp
      BY DEF InsertOp
    <3>2. op' = [op EXCEPT ![c] = o]
      BY <1>3 DEF InsertHot
    <3> QED
      BY <3>1, <3>2
  <2>2. o \in CallerOp /\ QueryFine(o)'
    BY <2>1, NotAQuery DEF CallerOp, InsertOp
  <2>3. UNCHANGED <<hot, warm, cold, upkeep, accepted, spilled>>
    BY <1>3 DEF InsertHot
  <2> QED
    BY <1>1, <1>2, <2>1, <2>2, <2>3, CallerMoves
<1>4. CASE InsertWarm(c, e)
  <2>1. op' = [op EXCEPT ![c] = Idle] /\ Idle \in CallerOp /\ QueryFine(Idle)'
    BY <1>1, <1>2, <1>4, NotAQuery DEF InsertWarm, CallerOp, Idle
  <2>2. UNCHANGED <<hot, cold, upkeep>> /\ warm' = Put(warm, e)
    BY <1>4 DEF InsertWarm
  <2>3. warm' \in Tier /\ warm'[e.agent] # None /\ \A a \in Agent : warm[a] # None => warm'[a] # None
    BY <1>1, <2>2, PutFacts
  <2>4. \A a \in Agent : a \in accepted' /\ a \notin spilled' => a = e.agent \/ (a \in accepted /\ a \notin spilled)
    BY <1>4 DEF InsertWarm, Accept
  <2>5. Present(e.agent)'
    BY <2>3 DEF Present, Below
  <2> HIDE DEF Present, Holds
  <2> QED
    BY <1>1, <1>2, <2>1, <2>2, <2>3, <2>4, <2>5, CallerMoves
<1> QED
  BY <1>3, <1>4

LEMMA ChooseVictimStep ==
    ASSUME TierInv, NEW c \in Caller, ChooseVictim(c)
    PROVE  TierInv'
<1>1. op \in [Caller -> CallerOp] /\ hot \in Tier /\ warm \in Tier
  BY DEF TierInv, TierTypes
<1>2. op[c] \in InsertOp /\ op[c].at = "choose"
  BY <1>1, OpKinds DEF ChooseVictim
<1>3. UNCHANGED <<hot, warm, cold, upkeep, accepted, spilled>>
  BY DEF ChooseVictim
<1>4. PICK o \in InsertOp \cup DemoteOp : op' = [op EXCEPT ![c] = o] /\ o.at \in {"insert", "demote"}
  <2>1. CASE op' = [op EXCEPT ![c].at = "insert"]
    <3> DEFINE o == [op[c] EXCEPT !.at = "insert"]
    <3>1. o \in InsertOp /\ o.at = "insert"
      BY <1>2 DEF InsertOp
    <3>2. op' = [op EXCEPT ![c] = o]
      BY <2>1
    <3> QED
      BY <3>1, <3>2
  <2>2. ASSUME NEW v \in Rows(hot), op' = [op EXCEPT ![c] = [at |-> "demote", row |-> op[c].row, victim |-> v]]
        PROVE  \E o \in InsertOp \cup DemoteOp : op' = [op EXCEPT ![c] = o] /\ o.at \in {"insert", "demote"}
    <3> DEFINE p == [at |-> "demote", row |-> op[c].row, victim |-> v]
    <3>1. v \in Entry
      BY <1>1, RowsFacts
    <3>2. p \in DemoteOp /\ p.at = "demote" /\ op' = [op EXCEPT ![c] = p]
      BY <1>2, <2>2, <3>1 DEF InsertOp, DemoteOp
    <3> QED
      BY <3>2
  <2> QED
    BY <2>1, <2>2 DEF ChooseVictim
<1>5. o \in CallerOp /\ QueryFine(o)' /\ \A a : ~Holds(op[c], a)
  BY <1>2, <1>4, NotAQuery DEF CallerOp, Holds
<1> QED
  BY <1>1, <1>3, <1>4, <1>5, CallerMoves

LEMMA SpillStep ==
    ASSUME TierInv, NEW c \in Caller, Spill(c) \/ SpillRaises(c)
    PROVE  TierInv'
<1>1. op \in [Caller -> CallerOp] /\ hot \in Tier /\ warm \in Tier
  BY DEF TierInv, TierTypes
<1>2. op[c] \in DemoteOp /\ op[c].at = "spill"
  BY <1>1, OpKinds DEF Spill, SpillRaises
<1>3. op[c].victim \in Entry /\ op[c].victim.agent \in Agent /\ op[c].row \in Entry
  BY <1>2, EntryFacts DEF DemoteOp
<1>4. \A a : Holds(op[c], a) => a = op[c].victim.agent
  BY <1>2 DEF Holds
<1>5. CASE Spill(c)
  <2>0. PICK o \in InsertOp : o.at = "insert" /\ op' = [op EXCEPT ![c] = o]
    <3>1. [at |-> "insert", row |-> op[c].row] \in InsertOp
      BY <1>3 DEF InsertOp
    <3> QED
      BY <1>5, <3>1 DEF Spill
  <2>1. o \in CallerOp /\ QueryFine(o)'
    BY <2>0, NotAQuery DEF CallerOp
  <2>2. UNCHANGED <<hot, cold, upkeep, accepted, spilled>> /\ warm' = Put(warm, op[c].victim)
    BY <1>5 DEF Spill
  <2>3. warm' \in Tier /\ warm'[op[c].victim.agent] # None /\ \A a \in Agent : warm[a] # None => warm'[a] # None
    BY <1>1, <1>3, <2>2, PutFacts
  <2>4. \A a \in Agent : a = op[c].victim.agent => Present(a)'
    BY <2>3 DEF Present, Below
  <2> HIDE DEF Present, Holds
  <2> QED
    BY <1>1, <1>4, <2>0, <2>1, <2>2, <2>3, <2>4, CallerMoves
<1>6. CASE SpillRaises(c)
  <2>1. op' = [op EXCEPT ![c] = Idle] /\ Idle \in CallerOp /\ QueryFine(Idle)'
    BY <1>6, NotAQuery DEF SpillRaises, CallerOp, Idle
  <2>2. UNCHANGED <<hot, warm, cold, upkeep, accepted>> /\ spilled' = spilled \cup {op[c].victim.agent}
    BY <1>6 DEF SpillRaises
  <2> HIDE DEF Present, Holds
  <2> QED
    BY <1>1, <1>4, <2>1, <2>2, CallerMoves
<1> QED
  BY <1>5, <1>6

LEMMA FinishInsertStep ==
    ASSUME TierInv, NEW c \in Caller, FinishInsert(c)
    PROVE  TierInv'
<1>1. op \in [Caller -> CallerOp] /\ hot \in Tier /\ warm \in Tier
  BY DEF TierInv, TierTypes
<1>2. op[c] \in InsertOp /\ op[c].at = "insert"
  BY <1>1, OpKinds DEF FinishInsert
<1>3. op[c].row \in Entry /\ op[c].row.agent \in Agent /\ \A a : ~Holds(op[c], a)
  BY <1>2, EntryFacts DEF InsertOp, Holds
<1>4. op' = [op EXCEPT ![c] = Idle] /\ Idle \in CallerOp /\ QueryFine(Idle)'
  BY NotAQuery DEF FinishInsert, CallerOp, Idle
<1>5. UNCHANGED <<warm, cold, upkeep>> /\ hot' = OfferTo(hot, op[c].row)
  BY DEF FinishInsert
<1>6. hot' \in Tier /\ hot'[op[c].row.agent] # None /\ \A a \in Agent : hot[a] # None => hot'[a] # None
  BY <1>1, <1>3, <1>5, PutFacts
<1>7. \A a \in Agent : a \in accepted' /\ a \notin spilled' => a = op[c].row.agent \/ (a \in accepted /\ a \notin spilled)
  BY DEF FinishInsert, Accept
<1>8. \A a \in Agent : a = op[c].row.agent => Present(a)'
  BY <1>6 DEF Present
<1> HIDE DEF Present, Holds
<1> QED
  BY <1>1, <1>3, <1>4, <1>5, <1>6, <1>7, <1>8, CallerMoves

LEMMA LiftStep ==
    ASSUME TierInv, NEW c \in Caller, Lift(c)
    PROVE  TierInv'
<1>1. op \in [Caller -> CallerOp] /\ hot \in Tier /\ warm \in Tier
  BY DEF TierInv, TierTypes
<1>2. op[c] \in PromoteOp /\ op[c].at = "lift"
  BY <1>1, OpKinds DEF Lift
<1>3. op[c].row \in Entry /\ op[c].row.agent \in Agent /\ \A a : Holds(op[c], a) => a = op[c].row.agent
  BY <1>2, EntryFacts DEF PromoteOp, Holds
<1>4. op' = [op EXCEPT ![c] = Idle] /\ Idle \in CallerOp /\ QueryFine(Idle)'
  BY NotAQuery DEF Lift, CallerOp, Idle
<1>5. UNCHANGED <<warm, cold, upkeep, accepted, spilled>> /\ hot' = OfferTo(hot, op[c].row)
  BY DEF Lift
<1>6. hot' \in Tier /\ hot'[op[c].row.agent] # None /\ \A a \in Agent : hot[a] # None => hot'[a] # None
  BY <1>1, <1>3, <1>5, PutFacts
<1>7. \A a \in Agent : a = op[c].row.agent => Present(a)'
  BY <1>6 DEF Present
<1> HIDE DEF Present, Holds
<1> QED
  BY <1>1, <1>3, <1>4, <1>5, <1>6, <1>7, CallerMoves

LEMMA QueryHotStep ==
    ASSUME TierInv, NEW c \in Caller, NEW a \in Agent, QueryHot(c, a)
    PROVE  TierInv'
<1>1. op \in [Caller -> CallerOp] /\ hot \in Tier /\ warm \in Tier
  BY DEF TierInv, TierTypes
<1>2. op[c] = Idle /\ \A b : ~Holds(Idle, b)
  BY DEF QueryHot, Holds, Idle
<1>3. UNCHANGED <<hot, warm, cold, upkeep, accepted, spilled>>
  BY DEF QueryHot
<1>4. CASE hot[a] # None
  <2>1. op' = [op EXCEPT ![c] = Idle] /\ Idle \in CallerOp /\ QueryFine(Idle)'
    BY <1>1, <1>2, <1>4, NotAQuery DEF QueryHot, CallerOp, Idle
  <2> HIDE DEF Present, Holds
  <2> QED
    BY <1>1, <1>2, <1>3, <2>1, CallerMoves
<1>5. CASE hot[a] = None
  <2>1. (a \in accepted \ spilled /\ ~InHand(a)) \in BOOLEAN
    OBVIOUS
  <2>2. PICK s \in BOOLEAN : /\ s <=> (a \in accepted \ spilled /\ ~InHand(a))
                             /\ op' = [op EXCEPT ![c] = [at |-> "warm", agent |-> a, sure |-> s]]
    BY <1>5, <2>1, Zenon DEF QueryHot
  <2>3. s => Below(a)'
    BY <1>3, <1>5, <2>2 DEF TierInv, Kept, Present, Below
  <2>4. PICK o \in QueryOp : /\ o.at = "warm" /\ o.agent = a /\ (o.sure => s)
                             /\ op' = [op EXCEPT ![c] = o]
    <3>1. [at |-> "warm", agent |-> a, sure |-> s] \in QueryOp
      BY DEF QueryOp
    <3> QED
      BY <2>2, <3>1
  <2>5. o \in CallerOp /\ QueryFine(o)'
    BY <2>3, <2>4 DEF CallerOp, QueryFine
  <2> HIDE DEF Present, Holds
  <2> QED
    BY <1>1, <1>2, <1>3, <2>4, <2>5, CallerMoves
<1> QED
  BY <1>4, <1>5

LEMMA QueryOnStep ==
    ASSUME TierInv, NEW c \in Caller, QueryWarm(c) \/ QueryCold(c) \/ PromoteFull(c)
    PROVE  TierInv'
<1>1. op \in [Caller -> CallerOp] /\ hot \in Tier /\ warm \in Tier
  BY DEF TierInv, TierTypes
<1>2. UNCHANGED <<hot, warm, cold, upkeep, accepted, spilled>>
  BY DEF QueryWarm, QueryCold, PromoteFull
<1>3. \A a : ~Holds(op[c], a)
  BY DEF QueryWarm, QueryCold, PromoteFull, Holds
<1>4. Idle \in CallerOp /\ QueryFine(Idle)'
  BY NotAQuery DEF CallerOp, Idle
<1>5. CASE op' = [op EXCEPT ![c] = Idle]
  BY <1>1, <1>2, <1>3, <1>4, <1>5, CallerMoves
<1>6. CASE QueryWarm(c) /\ warm[op[c].agent] = None
  <2>1. op[c] \in QueryOp /\ op[c].at = "warm"
    BY <1>1, <1>6, OpKinds DEF QueryWarm
  <2>2. PICK o \in QueryOp : /\ o.at = "cold" /\ o.agent = op[c].agent /\ o.sure = op[c].sure
                             /\ op' = [op EXCEPT ![c] = o]
    <3> DEFINE p == [op[c] EXCEPT !.at = "cold"]
    <3>1. p \in QueryOp /\ p.at = "cold" /\ p.agent = op[c].agent /\ p.sure = op[c].sure
      BY <2>1 DEF QueryOp
    <3>2. op' = [op EXCEPT ![c] = p]
      BY <1>6 DEF QueryWarm
    <3> QED
      BY <3>1, <3>2
  <2>3. o.sure => cold[o.agent] # None
    BY <1>6, <2>1, <2>2 DEF TierInv, QueriesFine, QueryFine, Below
  <2>4. o \in CallerOp /\ QueryFine(o)'
    BY <1>2, <2>2, <2>3 DEF CallerOp, QueryFine
  <2> QED
    BY <1>1, <1>2, <1>3, <2>2, <2>4, CallerMoves
<1>7. CASE QueryWarm(c) /\ warm[op[c].agent] # None /\ ~(accesses[op[c].agent] < AccessThreshold)
  <2>1. op[c] \in QueryOp
    BY <1>1, <1>7, OpKinds DEF QueryWarm
  <2>2. warm[op[c].agent] \in Entry
    BY <1>1, <1>7, <2>1, RowsFacts DEF QueryOp
  <2>3. PICK o \in PromoteOp : o.at = "promote" /\ op' = [op EXCEPT ![c] = o]
    <3> DEFINE p == [at |-> "promote", row |-> warm[op[c].agent]]
    <3>1. p \in PromoteOp /\ p.at = "promote"
      BY <2>2 DEF PromoteOp
    <3>2. op' = [op EXCEPT ![c] = p]
      BY <1>7 DEF QueryWarm
    <3> QED
      BY <3>1, <3>2
  <2>4. o \in CallerOp /\ QueryFine(o)'
    BY <2>3, NotAQuery DEF CallerOp
  <2> QED
    BY <1>1, <1>2, <1>3, <2>3, <2>4, CallerMoves
<1>8. CASE QueryWarm(c) /\ warm[op[c].agent] # None /\ accesses[op[c].agent] < AccessThreshold
  BY <1>5, <1>8 DEF QueryWarm
<1> QED
  BY <1>5, <1>6, <1>7, <1>8 DEF QueryWarm, QueryCold, PromoteFull

\* The row a caller takes out of a tier is in its hands.
LEMMA TakesOut ==
    ASSUME TierInv, NEW c \in Caller, NEW b \in Agent, NEW o \in CallerOp,
           op[c].at \in {"demote", "promote"}, o.at \in {"spill", "lift"}, Holds(o, b),
           op' = [Disturbed(b) EXCEPT ![c] = o],
           UNCHANGED <<cold, upkeep, accepted, spilled>>, hot' \in Tier, warm' \in Tier,
           \A a \in Agent \ {b} : hot'[a] = hot[a] /\ warm'[a] = warm[a]
    PROVE  TierInv'
<1>1. op \in [Caller -> CallerOp] /\ cold \in Tier /\ cold' \in Tier
  BY DEF TierInv, TierTypes
<1>2. op'[c] = o /\ op' = [d \in Caller |-> op'[d]] /\ \A d \in Caller \ {c} : op'[d] = Disturbed(b)[d]
  BY DEF Disturbed
<1>3. OthersRest(Caller \ {c}) /\ \A d \in Caller \ {c} : Querying(d, b) => Shaken(d)
  BY <1>2, DisturbedFacts DEF TierInv, OthersRest, Shaken
<1>4. Undisturbed(Caller \ {c})
  BY <1>3 DEF Undisturbed, Below
<1>5. QueryFine(op[c])'
  BY <1>2 DEF QueryFine
<1>6. \A a \in Agent : a # b => (Present(a) <=> Present(a)')
  BY DEF Present, Below
<1>7. \A a : ~Holds(op[c], a)
  BY DEF Holds
<1> HIDE DEF Present, Holds
<1> QED
  BY <1>1, <1>2, <1>3, <1>4, <1>5, <1>6, <1>7, CallerTurn

LEMMA DemoteStep ==
    ASSUME TierInv, NEW c \in Caller, Demote(c)
    PROVE  TierInv'
<1>1. op \in [Caller -> CallerOp] /\ hot \in Tier /\ warm \in Tier
  BY DEF TierInv, TierTypes
<1>2. op[c] \in DemoteOp /\ op[c].at = "demote"
  BY <1>1, OpKinds DEF Demote
<1>3. PICK b \in Agent : b = op[c].victim.agent
  BY <1>2, EntryFacts DEF DemoteOp
<1>4. PICK o \in DemoteOp : o.at = "spill" /\ o.victim = op[c].victim /\ op' = [Disturbed(b) EXCEPT ![c] = o]
  <2> DEFINE p == [op[c] EXCEPT !.at = "spill"]
  <2>1. p \in DemoteOp /\ p.at = "spill" /\ p.victim = op[c].victim
    BY <1>2 DEF DemoteOp
  <2>2. Disturbed(b)[c] = op[c]
    BY <1>2 DEF Disturbed, Querying
  <2>3. op' = [Disturbed(b) EXCEPT ![c] = p]
    <3>1. op' = [Disturbed(b) EXCEPT ![c].at = "spill"]
      BY <1>3 DEF Demote
    <3> QED
      BY <2>2, <3>1
  <2> QED
    BY <2>1, <2>3
<1>5. hot' = Without(hot, {b}) /\ UNCHANGED <<warm, cold, upkeep, accepted, spilled>>
  BY <1>3 DEF Demote
<1>6. hot' \in Tier /\ \A a \in Agent \ {b} : hot'[a] = hot[a]
  BY <1>1, <1>5, WithoutFacts
<1>7. o \in CallerOp /\ Holds(o, b)
  BY <1>3, <1>4 DEF CallerOp, Holds
<1> QED
  BY <1>1, <1>2, <1>4, <1>5, <1>6, <1>7, TakesOut

LEMMA PromoteStep ==
    ASSUME TierInv, NEW c \in Caller, Promote(c)
    PROVE  TierInv'
<1>1. op \in [Caller -> CallerOp] /\ hot \in Tier /\ warm \in Tier
  BY DEF TierInv, TierTypes
<1>2. op[c] \in PromoteOp /\ op[c].at = "promote"
  BY <1>1, OpKinds DEF Promote
<1>3. PICK b \in Agent : b = op[c].row.agent
  BY <1>2, EntryFacts DEF PromoteOp
<1>4. PICK o \in PromoteOp : o.at = "lift" /\ o.row = op[c].row /\ op' = [Disturbed(b) EXCEPT ![c] = o]
  <2> DEFINE p == [op[c] EXCEPT !.at = "lift"]
  <2>1. p \in PromoteOp /\ p.at = "lift" /\ p.row = op[c].row
    BY <1>2 DEF PromoteOp
  <2>2. Disturbed(b)[c] = op[c]
    BY <1>2 DEF Disturbed, Querying
  <2>3. op' = [Disturbed(b) EXCEPT ![c] = p]
    <3>1. op' = [Disturbed(b) EXCEPT ![c].at = "lift"]
      BY <1>3 DEF Promote
    <3> QED
      BY <2>2, <3>1
  <2> QED
    BY <2>1, <2>3
<1>5. warm' = Without(warm, {b}) /\ UNCHANGED <<hot, cold, upkeep, accepted, spilled>>
  BY <1>3 DEF Promote
<1>6. warm' \in Tier /\ \A a \in Agent \ {b} : warm'[a] = warm[a]
  BY <1>1, <1>5, WithoutFacts
<1>7. o \in CallerOp /\ Holds(o, b)
  BY <1>3, <1>4 DEF CallerOp, Holds
<1> QED
  BY <1>1, <1>2, <1>4, <1>5, <1>6, <1>7, TakesOut

\* The maintenance thread goes from one place to the next; no caller moves, no row leaves a tier.
LEMMA UpkeepMoves ==
    ASSUME TierInv, op' = op, upkeep' \in Upkeep, ArchivedFirst', hot' = hot,
           warm' \in Tier, cold' \in Tier, accepted' = accepted, spilled \subseteq spilled',
           \A a \in Agent : (warm[a] # None => warm'[a] # None) /\ (cold[a] # None => cold'[a] # None),
           \A a \in Agent : SweepHolds(a) => SweepHolds(a)' \/ Present(a)' \/ a \in spilled'
    PROVE  TierInv'
<1>1. op \in [Caller -> CallerOp] /\ hot' \in Tier
  BY DEF TierInv, TierTypes
<1>2. op' = [d \in Caller |-> op'[d]]
  BY <1>1
<1>3. OthersRest(Caller) /\ Undisturbed(Caller)
  BY DEF OthersRest, Undisturbed, Below
<1>4. \A a \in Agent : Present(a) => Present(a)'
  BY DEF Present, Below
<1> HIDE DEF Present, SweepHolds
<1> QED
  BY <1>1, <1>2, <1>3, <1>4, PassTurn

LEMMA SleepFacts == Asleep \in Upkeep /\ (Asleep.at # "spill") /\ (Asleep.at # "purge")
BY DEF Asleep, Upkeep, Rest

LEMMA WakeStep ==
    ASSUME TierInv, Wake
    PROVE  TierInv'
<1>1. hot \in Tier /\ warm \in Tier /\ cold \in Tier
  BY DEF TierInv, TierTypes
<1>2. upkeep' \in Sweep /\ upkeep.at = "asleep"
  BY <1>1, RowsFacts DEF Wake, Sweep
<1>3. upkeep' \in Upkeep /\ ArchivedFirst'
  BY <1>2 DEF Upkeep, Sweep, ArchivedFirst
<1>4. \A a : ~SweepHolds(a)
  BY <1>2 DEF SweepHolds
<1>5. UNCHANGED <<hot, warm, cold, op, accepted, spilled>>
  BY DEF Wake
<1> HIDE DEF Present, SweepHolds
<1> QED
  BY <1>1, <1>3, <1>4, <1>5, UpkeepMoves

LEMMA SweepPopStep ==
    ASSUME TierInv, NEW e \in Entry, SweepPop(e)
    PROVE  TierInv'
<1>1. /\ hot \in Tier /\ warm \in Tier /\ cold \in Tier /\ op \in [Caller -> CallerOp]
      /\ upkeep \in Upkeep /\ e.agent \in Agent
  BY EntryFacts DEF TierInv, TierTypes
<1>2. upkeep \in Sweep /\ upkeep.at = "sweep"
  BY <1>1, UpkeepKinds DEF SweepPop
<1>3. upkeep' \in SweepHand /\ upkeep'.row = e /\ upkeep'.at = "spill"
  BY <1>2 DEF SweepPop, SweepHand, Sweep
<1>4. upkeep' \in Upkeep /\ ArchivedFirst'
  BY <1>3 DEF Upkeep, ArchivedFirst
<1>5. op' = Disturbed(e.agent) /\ op' = [d \in Caller |-> op'[d]]
  BY DEF SweepPop, Disturbed
<1>6. OthersRest(Caller) /\ \A d \in Caller : Querying(d, e.agent) => Shaken(d)
  BY <1>5, DisturbedFacts DEF TierInv, OthersRest, Shaken
<1>7. UNCHANGED <<warm, cold, accepted, spilled>> /\ hot' = Without(hot, {e.agent})
  BY DEF SweepPop
<1>8. hot' \in Tier /\ \A a \in Agent : a # e.agent => hot'[a] = hot[a]
  BY <1>1, <1>7, WithoutFacts
<1>9. Undisturbed(Caller)
  BY <1>7 DEF Undisturbed, Below
<1>10. \A a \in Agent : a # e.agent => (Present(a) <=> Present(a)')
  BY <1>7, <1>8 DEF Present, Below
<1>11. (\A a : ~SweepHolds(a)) /\ SweepHolds(e.agent)'
  BY <1>2, <1>3 DEF SweepHolds
<1> HIDE DEF Present, SweepHolds
<1> QED
  BY <1>1, <1>4, <1>5, <1>6, <1>7, <1>8, <1>9, <1>10, <1>11, PassTurn

LEMMA SweepSpillStep ==
    ASSUME TierInv, SweepSpill \/ SweepSpillRaises
    PROVE  TierInv'
<1>1. hot \in Tier /\ warm \in Tier /\ cold \in Tier /\ upkeep \in Upkeep
  BY DEF TierInv, TierTypes
<1>2. upkeep \in SweepHand /\ upkeep.at = "spill"
  BY <1>1, UpkeepKinds DEF SweepSpill, SweepSpillRaises
<1>3. upkeep.row \in Entry /\ upkeep.row.agent \in Agent
  BY <1>2, EntryFacts DEF SweepHand
<1>4. \A a : SweepHolds(a) => a = upkeep.row.agent
  BY DEF SweepHolds
<1>5. CASE SweepSpill
  <2>1. upkeep' \in Sweep
    BY <1>2, <1>5 DEF SweepSpill, SweepHand, Sweep
  <2>2. upkeep' \in Upkeep /\ ArchivedFirst'
    BY <2>1 DEF Upkeep, Sweep, ArchivedFirst
  <2>3. UNCHANGED <<hot, cold, op, accepted, spilled>> /\ warm' = Put(warm, upkeep.row)
    BY <1>5 DEF SweepSpill
  <2>4. warm' \in Tier /\ warm'[upkeep.row.agent] # None /\ \A a \in Agent : warm[a] # None => warm'[a] # None
    BY <1>1, <1>3, <2>3, PutFacts
  <2>5. \A a \in Agent : a = upkeep.row.agent => Present(a)'
    BY <2>4 DEF Present, Below
  <2> HIDE DEF Present, SweepHolds
  <2> QED
    BY <1>1, <1>4, <2>2, <2>3, <2>4, <2>5, UpkeepMoves
<1>6. CASE SweepSpillRaises
  <2>1. upkeep' = Asleep /\ UNCHANGED <<hot, warm, cold, op, accepted>> /\ spilled' = spilled \cup {upkeep.row.agent}
    BY <1>6 DEF SweepSpillRaises
  <2>2. upkeep' \in Upkeep /\ ArchivedFirst'
    BY <2>1, SleepFacts DEF ArchivedFirst
  <2> HIDE DEF Present, SweepHolds
  <2> QED
    BY <1>1, <1>4, <2>1, <2>2, UpkeepMoves
<1> QED
  BY <1>5, <1>6

LEMMA SelectOldStep ==
    ASSUME TierInv, SelectOld
    PROVE  TierInv'
<1>1. hot \in Tier /\ warm \in Tier /\ cold \in Tier
  BY DEF TierInv, TierTypes
<1>2. UNCHANGED <<hot, warm, cold, op, accepted, spilled>> /\ upkeep.at = "sweep"
  BY DEF SelectOld
<1>3. upkeep' = Asleep \/ (upkeep' \in Archiving /\ upkeep'.at = "archive")
  <2> DEFINE old == {e \in Rows(warm) : WarmAged(e)}
  <2>1. old \subseteq Entry
    BY <1>1, RowsFacts
  <2>2. upkeep' = Asleep \/ upkeep' = [at |-> "archive", rows |-> old]
    BY DEF SelectOld
  <2> HIDE DEF old
  <2> QED
    BY <2>1, <2>2 DEF Archiving
<1>4. upkeep' \in Upkeep /\ ArchivedFirst'
  BY <1>3, SleepFacts DEF Upkeep, ArchivedFirst
<1>5. \A a : ~SweepHolds(a)
  BY <1>2 DEF SweepHolds
<1> HIDE DEF Present, SweepHolds
<1> QED
  BY <1>1, <1>2, <1>4, <1>5, UpkeepMoves

\* Every agent whose rows are archived can be found in the archives.
LEMMA ArchivedFacts ==
    ASSUME cold \in Tier, NEW rows \in SUBSET Entry
    PROVE  /\ Archived(rows) \in Tier
           /\ \A a \in Agent : cold[a] # None => Archived(rows)[a] # None
           /\ \A e \in rows : Archived(rows)[e.agent] # None
<1>1. ASSUME NEW a \in Agents(rows) PROVE (CHOOSE e \in rows : e.agent = a) \in Entry \ {None}
  <2>1. \E e \in rows : e.agent = a
    BY <1>1 DEF Agents
  <2>2. (CHOOSE e \in rows : e.agent = a) \in rows
    BY <2>1
  <2> QED
    BY <2>2, EntryFacts
<1>2. \A e \in rows : e.agent \in Agents(rows) /\ e.agent \in Agent
  BY EntryFacts DEF Agents
<1>3. ASSUME NEW a \in Agent
      PROVE  /\ Archived(rows)[a] \in Entry \cup {None}
             /\ cold[a] # None \/ a \in Agents(rows) => Archived(rows)[a] # None
  <2>1. CASE cold[a] # None \/ a \notin Agents(rows)
    BY <2>1 DEF Archived, Tier
  <2>2. CASE ~(cold[a] # None \/ a \notin Agents(rows))
    BY <1>1, <2>2 DEF Archived
  <2> QED
    BY <2>1, <2>2
<1>4. Archived(rows) = [a \in Agent |-> Archived(rows)[a]]
  BY DEF Archived
<1>5. Archived(rows) \in Tier
  <2> HIDE DEF Archived
  <2> QED
    BY <1>3, <1>4 DEF Tier
<1> QED
  BY <1>2, <1>3, <1>5

LEMMA ArchiveStep ==
    ASSUME TierInv, Archive
    PROVE  TierInv'
<1>1. hot \in Tier /\ warm \in Tier /\ cold \in Tier /\ upkeep \in Upkeep
  BY DEF TierInv, TierTypes
<1>2. upkeep \in Archiving /\ upkeep.at = "archive"
  BY <1>1, UpkeepKinds DEF Archive
<1>3. upkeep' \in Archiving /\ upkeep'.rows = upkeep.rows /\ upkeep.rows \in SUBSET Entry
  BY <1>2 DEF Archive, Archiving
<1>4. cold' = Archived(upkeep.rows) /\ UNCHANGED <<hot, warm, op, accepted, spilled>>
  BY DEF Archive
<1>5. /\ cold' \in Tier
      /\ \A a \in Agent : cold[a] # None => cold'[a] # None
      /\ \A e \in upkeep.rows : cold'[e.agent] # None
  BY <1>1, <1>3, <1>4, ArchivedFacts
<1>6. upkeep' \in Upkeep /\ ArchivedFirst'
  BY <1>3, <1>5 DEF Upkeep, ArchivedFirst
<1>7. \A a : ~SweepHolds(a)
  BY <1>2 DEF SweepHolds
<1> HIDE DEF Present, SweepHolds
<1> QED
  BY <1>1, <1>4, <1>5, <1>6, <1>7, UpkeepMoves

\* Only rows that are in the archives are deleted.
LEMMA PurgeStep ==
    ASSUME TierInv, Purge
    PROVE  TierInv'
<1>1. hot \in Tier /\ warm \in Tier /\ cold \in Tier /\ op \in [Caller -> CallerOp]
  BY DEF TierInv, TierTypes
<1>2. upkeep.at = "purge" /\ upkeep' = Asleep /\ UNCHANGED <<hot, cold, op, accepted, spilled>>
  BY DEF Purge
<1>3. warm' = Without(warm, Agents(upkeep.rows))
  BY DEF Purge
<1>4. warm' \in Tier /\ \A a \in Agent : warm'[a] = warm[a] \/ cold[a] # None
  BY <1>1, <1>2, <1>3, WithoutFacts DEF TierInv, ArchivedFirst, Agents
<1>5. upkeep' \in Upkeep /\ ArchivedFirst' /\ \A a : ~SweepHolds(a)
  BY <1>2, SleepFacts DEF ArchivedFirst, SweepHolds
<1>6. \A a \in Agent : (Below(a) => Below(a)') /\ (Present(a) => Present(a)')
  BY <1>2, <1>4 DEF Below, Present
<1>7. OthersRest(Caller) /\ Undisturbed(Caller)
  BY <1>2, <1>6 DEF OthersRest, Undisturbed
<1>8. op' = [d \in Caller |-> op'[d]]
  BY <1>1, <1>2
<1> HIDE DEF Present, SweepHolds
<1> QED
  BY <1>1, <1>2, <1>4, <1>5, <1>6, <1>7, <1>8, PassTurn

LEMMA PassRaisesStep ==
    ASSUME TierInv, PassRaises
    PROVE  TierInv'
<1>1. hot \in Tier /\ warm \in Tier /\ cold \in Tier
  BY DEF TierInv, TierTypes
<1>2. upkeep' = Asleep /\ UNCHANGED <<hot, warm, cold, op, accepted, spilled>> /\ \A a : ~SweepHolds(a)
  BY DEF PassRaises, SweepHolds
<1>3. upkeep' \in Upkeep /\ ArchivedFirst'
  BY <1>2, SleepFacts DEF ArchivedFirst
<1> HIDE DEF Present, SweepHolds
<1> QED
  BY <1>1, <1>2, <1>3, UpkeepMoves

LEMMA CrashRestartStep ==
    ASSUME TierInv, CrashRestart
    PROVE  TierInv'
<1>1. TierTypes'
  BY DEF TierInv, TierTypes, CrashRestart, Tier, CallerOp, Upkeep, Rest
<1>2. \A c \in Caller : op'[c] = Idle
  BY DEF CrashRestart
<1>3. Kept'
  BY DEF CrashRestart, Kept, Present, Below
<1>4. QueriesFine'
  BY <1>2, NotAQuery DEF QueriesFine, QueryFine, Idle
<1>5. ArchivedFirst'
  BY DEF CrashRestart, ArchivedFirst
<1> QED
  BY <1>1, <1>3, <1>4, <1>5 DEF TierInv

LEMMA UnchangedTiers ==
    ASSUME TierInv, UNCHANGED <<hot, warm, cold, op, upkeep, accepted, spilled>>
    PROVE  TierInv'
BY DEF TierInv, TierTypes, Kept, QueriesFine, QueryFine, ArchivedFirst, InHand, Present, Below

LEMMA TierStart == TieredInit => TierInv
<1> SUFFICES ASSUME TieredInit PROVE TierInv
  OBVIOUS
<1>1. \A c \in Caller : op[c] = Idle
  BY DEF TieredInit
<1>2. TierTypes
  BY DEF TieredInit, TierTypes, Tier, CallerOp, Upkeep, Rest
<1>3. QueriesFine
  BY <1>1, NotAQuery DEF QueriesFine, Idle
<1> QED
  BY <1>2, <1>3 DEF TieredInit, TierInv, Kept, ArchivedFirst

LEMMA TierStep == TierInv /\ [TieredNext]_tieredVars => TierInv'
<1> SUFFICES ASSUME TierInv, [TieredNext]_tieredVars PROVE TierInv'
  OBVIOUS
<1>1. ASSUME NEW c \in Caller, CallStep(c) PROVE TierInv'
  BY <1>1, InsertsStep, ChooseVictimStep, DemoteStep, SpillStep, FinishInsertStep, QueryHotStep,
     QueryOnStep, PromoteStep, LiftStep DEF CallStep
<1>2. CASE PassStep
  BY <1>2, WakeStep, SweepPopStep, SweepSpillStep, SelectOldStep, ArchiveStep, PurgeStep, PassRaisesStep
     DEF PassStep
<1>3. CASE Tick \/ CloseStorage \/ UNCHANGED tieredVars
  BY <1>3, UnchangedTiers DEF Tick, CloseStorage, tieredVars
<1>4. CASE CrashRestart
  BY <1>4, CrashRestartStep
<1> QED
  BY <1>1, <1>2, <1>3, <1>4 DEF TieredNext

\* A query that began when an agent was in a tier, and no promotion, demotion or
\* lost write touched that agent meanwhile, finds it, whatever the callers and the
\* maintenance thread do between its reads, and across crashes
\* (swarm/tiered_mesh_storage.py, query() against _demote_oldest_hot(),
\* _maybe_promote() and _run_maintenance()).
THEOREM MissesAreExplained == TieredSpec => []MissesExplained
<1>1. TierInv => MissesExplained
  BY DEF TierInv, QueriesFine, QueryFine, MissesExplained
<1> QED
  BY <1>1, TierStart, TierStep, PTL DEF TieredSpec
------------------------------------------------------------------------------
\* The log of the memory layers (MemoryLog).
\* What the log is read by: the records in the files, whole ones and torn ones.
Record == [seq : Nat, id : Nat] \cup {TornBytes}
Segment == [head : {"whole", "headless", "unversioned"}, records : Seq(Record)]
Records(i) == segments[i].records
Log == UNION {{Records(i)[k] : k \in DOMAIN Records(i)} : i \in DOMAIN segments}
Clean == TornBytes \notin Log /\ \A i \in DOMAIN segments : segments[i].head = "whole"

MemoryTypeOK ==
    /\ phase \in {"up", "down", "refused"}
    /\ segments \in Seq(Segment)
    /\ checkpoints \in [0 .. MaxEntries -> (SUBSET Id) \cup {Nothing, TornBytes}]
    /\ sequence \in Nat /\ written \in 0 .. MaxEntries /\ sequence <= written
    /\ applied \in SUBSET Id
    /\ unapplied \in Id \cup {Nothing}
    /\ acknowledged \in SUBSET (1 .. written)

\* The numbers of the records are below those to be given; a segment without a
\* torn record has no more of them than entries were appended.
NumbersFit ==
    /\ \A r \in Log : r = TornBytes \/ (r.seq \in 1 .. written /\ r.id \in 1 .. written)
    /\ \A i \in DOMAIN segments : TornBytes \notin {Records(i)[k] : k \in DOMAIN Records(i)} => Len(Records(i)) <= written

\* While the log is open, no record that replay() reaches has a greater number.
SequenceLeads ==
    phase = "up" => \A i \in DOMAIN segments, k \in Id : Readable(i, k) => RecordAt(i, k).seq <= sequence

LEMMA MaxEntriesNat == MaxEntries \in Nat /\ TornBytes \notin [seq : Nat, id : Nat] /\ Nothing \notin Nat
      /\ Nothing \notin SUBSET Id /\ TornBytes # Nothing
BY MemoryLogAssumption DEF Id

\* With(r) puts one record behind all others and leaves those as they are.
PutAt(w, j, l, r) ==
    /\ j \in DOMAIN w /\ l \in DOMAIN w[j].records
    /\ w[j].records[l] = r
    /\ \A i \in DOMAIN segments : i \in DOMAIN w /\ i <= j /\ w[i].head = segments[i].head
    /\ \A i \in DOMAIN segments : i # j => w[i] = segments[i]
    /\ \A i \in DOMAIN w : i \in DOMAIN segments \/ i = j
    /\ j \in DOMAIN segments =>
          /\ \A k \in DOMAIN w[j].records : k \in DOMAIN Records(j) \/ k = l
          /\ \A k \in DOMAIN Records(j) : k \in DOMAIN w[j].records /\ k < l
                /\ w[j].records[k] = Records(j)[k]
          /\ Len(w[j].records) = Len(Records(j)) + 1
    /\ j \notin DOMAIN segments => w[j] = [head |-> "whole", records |-> <<r>>]
LEMMA WithFacts ==
    ASSUME segments \in Seq(Segment), NEW r \in Record
    PROVE  With(r) \in Seq(Segment) /\ \E j, l : PutAt(With(r), j, l, r)
<1>1. PICK n \in Nat : n = Len(segments)
  OBVIOUS
<1>2. DOMAIN segments = 1 .. n /\ \A i \in 1 .. n : segments[i] \in Segment
  BY <1>1
<1>3. CASE Rotates
  <2>1. PICK t : t = [head |-> "whole", records |-> <<r>>]
    OBVIOUS
  <2>2. t \in Segment /\ t.records = <<r>>
    BY <2>1 DEF Segment
  <2>3. PICK w : w = With(r)
    OBVIOUS
  <2>4. w = Append(segments, t)
    BY <1>3, <2>1, <2>3 DEF With
  <2>5. /\ w \in Seq(Segment) /\ DOMAIN w = 1 .. n + 1 /\ w[n + 1] = t
        /\ \A i \in 1 .. n : w[i] = segments[i]
    BY <1>1, <2>2, <2>4, AppendProperties
  <2>6. n + 1 \in DOMAIN w /\ n + 1 \notin DOMAIN segments /\ 1 \in DOMAIN w[n + 1].records /\ w[n + 1].records[1] = r
    BY <1>2, <2>2, <2>5
  <2>7. \A i \in DOMAIN segments : i \in DOMAIN w /\ i <= n + 1 /\ w[i] = segments[i]
    BY <1>2, <2>5
  <2>8. \A i \in DOMAIN w : i \in DOMAIN segments \/ i = n + 1
    BY <1>2, <2>5
  <2> QED
    BY <2>1, <2>3, <2>5, <2>6, <2>7, <2>8 DEF PutAt
<1>4. CASE ~Rotates
  <2>1. n \in 1 .. n
    BY <1>1, <1>2, <1>4 DEF Rotates
  <2>2. PICK q : q = Records(n)
    OBVIOUS
  <2>3. q \in Seq(Record) /\ q = segments[n].records
    BY <1>2, <2>1, <2>2 DEF Segment, Records
  <2>4. PICK m \in Nat : m = Len(q)
    BY <2>3
  <2>5. PICK p : p = Append(q, r)
    OBVIOUS
  <2>6. /\ p \in Seq(Record) /\ DOMAIN p = 1 .. m + 1 /\ p[m + 1] = r /\ Len(p) = m + 1
        /\ \A k \in 1 .. m : p[k] = q[k]
    BY <2>3, <2>4, <2>5, AppendProperties
  <2>7. PICK w : w = With(r)
    OBVIOUS
  <2>8. w = [segments EXCEPT ![n] = [segments[n] EXCEPT !.records = p]]
    BY <1>1, <1>4, <2>2, <2>3, <2>5, <2>7 DEF With
  <2>9. [segments[n] EXCEPT !.records = p] \in Segment
    BY <1>2, <2>1, <2>6 DEF Segment
  <2>10. w[n].head = segments[n].head /\ w[n].records = p
    BY <1>2, <2>1, <2>8 DEF Segment
  <2>11. w \in Seq(Segment) /\ DOMAIN w = 1 .. n /\ \A i \in 1 .. n : i # n => w[i] = segments[i]
    <3>1. w \in [1 .. n -> Segment]
      BY <1>1, <1>2, <2>8, <2>9
    <3> QED
      BY <3>1, <2>8, <1>2, SeqDef
  <2>12. n \in DOMAIN w /\ m + 1 \in DOMAIN w[n].records /\ w[n].records[m + 1] = r
    BY <2>1, <2>6, <2>10, <2>11
  <2>13. \A i \in DOMAIN segments : i \in DOMAIN w /\ i <= n /\ w[i].head = segments[i].head
    BY <1>2, <2>10, <2>11
  <2>14. DOMAIN q = 1 .. m
    BY <2>3, <2>4
  <2>15. /\ \A k \in DOMAIN w[n].records : k \in DOMAIN Records(n) \/ k = m + 1
         /\ \A k \in DOMAIN Records(n) : k \in DOMAIN w[n].records /\ k < m + 1
               /\ w[n].records[k] = Records(n)[k]
         /\ Len(w[n].records) = Len(Records(n)) + 1
    BY <2>2, <2>4, <2>6, <2>10, <2>14
  <2>16. \A i \in DOMAIN segments : i # n => w[i] = segments[i]
    BY <1>2, <2>11
  <2>17. \A i \in DOMAIN w : i \in DOMAIN segments
    BY <1>2, <2>11
  <2>18. n \in DOMAIN segments
    BY <1>2, <2>1
  <2> QED
    BY <2>7, <2>11, <2>12, <2>13, <2>15, <2>16, <2>17, <2>18 DEF PutAt
<1> QED
  BY <1>3, <1>4

\* What is readable stays so, and what becomes readable is the new record, behind all others.
LEMMA WithReadable ==
    ASSUME segments \in Seq(Segment), NEW r \in Record, segments' = With(r)
    PROVE  /\ \A i \in DOMAIN segments, k \in Id : Readable(i, k) =>
                 Readable(i, k)' /\ RecordAt(i, k)' = RecordAt(i, k)
           /\ \A j \in DOMAIN segments', l \in Id : Readable(j, l)' /\ ~Readable(j, l) =>
                 /\ RecordAt(j, l)' = r
                 /\ \A i \in DOMAIN segments, k \in Id : Readable(i, k) => Before(i, k, j, l)
<1>. PICK w : w = segments'
  OBVIOUS
<1>a. PICK j, l : PutAt(w, j, l, r)
  BY WithFacts
<1>1. /\ j \in DOMAIN w /\ l \in DOMAIN w[j].records
      /\ w[j].records[l] = r
      /\ \A i \in DOMAIN segments : i \in DOMAIN w /\ i <= j /\ w[i].head = segments[i].head
      /\ \A i \in DOMAIN segments : i # j => w[i] = segments[i]
      /\ \A i \in DOMAIN w : i \in DOMAIN segments \/ i = j
      /\ j \in DOMAIN segments =>
            /\ \A k \in DOMAIN w[j].records : k \in DOMAIN Records(j) \/ k = l
            /\ \A k \in DOMAIN Records(j) : k \in DOMAIN w[j].records /\ k < l
                  /\ w[j].records[k] = Records(j)[k]
            /\ Len(w[j].records) = Len(Records(j)) + 1
      /\ j \notin DOMAIN segments => w[j] = [head |-> "whole", records |-> <<r>>]
  BY <1>a DEF PutAt
<1>2. /\ w \in Seq(Segment) /\ DOMAIN segments = 1 .. Len(segments) /\ Len(segments) \in Nat
      /\ DOMAIN w \subseteq Nat
  BY WithFacts
<1>3. \A i \in DOMAIN segments : Records(i) \in Seq(Record) /\ segments[i].records = Records(i)
  <2>1. \A i \in DOMAIN segments : segments[i] \in Segment
    OBVIOUS
  <2>2. \A s \in Segment : s.records \in Seq(Record)
    BY DEF Segment
  <2> QED
    BY <2>1, <2>2 DEF Records
<1>4. \A i \in DOMAIN segments : DOMAIN Records(i) = 1 .. Len(Records(i)) /\ Len(Records(i)) \in Nat
  BY <1>3
<1>5. ASSUME NEW i \in DOMAIN segments, NEW k \in DOMAIN Records(i)
      PROVE  k \in DOMAIN w[i].records /\ w[i].records[k] = Records(i)[k] /\ 1 .. k \subseteq DOMAIN Records(i)
  <2>1. 1 .. k \subseteq DOMAIN Records(i)
    BY <1>4
  <2>2. CASE i = j
    BY <1>1, <1>5, <2>1, <2>2
  <2>3. CASE i # j
    BY <1>1, <1>3, <1>5, <2>1, <2>3
  <2> QED
    BY <2>2, <2>3
<1>6. ASSUME NEW i \in DOMAIN segments, NEW k \in DOMAIN Records(i)
      PROVE  Readable(i, k)' <=> Readable(i, k)
  <2>1. \A h \in 1 .. k : w[i].records[h] = segments[i].records[h]
    BY <1>3, <1>5, <1>6
  <2>2. i \in DOMAIN w /\ w[i].head = segments[i].head
    BY <1>1
  <2>3. k \in DOMAIN w[i].records /\ k \in DOMAIN segments[i].records
    BY <1>3, <1>5
  <2> QED
    BY <2>1, <2>2, <2>3 DEF Readable, IsRecord
<1>7. ASSUME NEW i \in DOMAIN segments, NEW k \in Id, Readable(i, k)
      PROVE  k \in DOMAIN Records(i) /\ Readable(i, k)' /\ RecordAt(i, k)' = RecordAt(i, k)
  <2>1. k \in DOMAIN Records(i)
    BY <1>3, <1>7 DEF Readable, IsRecord
  <2> QED
    BY <1>3, <1>5, <1>6, <1>7, <2>1 DEF RecordAt
<1>8. ASSUME NEW g \in DOMAIN w, NEW h \in Id, Readable(g, h)', ~Readable(g, h)
      PROVE  /\ g = j /\ w[g].records[h] = r /\ (j \in DOMAIN segments => h = l)
  <2>1. h \in DOMAIN w[g].records
    BY <1>8 DEF Readable, IsRecord
  <2>2. g = j
    <3>1. CASE g # j
      <4>1. g \in DOMAIN segments /\ w[g] = segments[g]
        BY <1>1, <3>1
      <4>2. h \in DOMAIN Records(g)
        BY <2>1, <4>1, <1>3
      <4> QED
        BY <4>1, <4>2, <1>6, <1>8
    <3> QED
      BY <3>1
  <2>3. CASE j \in DOMAIN segments
    <3>1. h \in DOMAIN Records(g) \/ h = l
      BY <1>1, <2>1, <2>2, <2>3
    <3>2. g \in DOMAIN segments
      BY <2>2, <2>3
    <3>3. h \notin DOMAIN Records(g)
      <4>1. ASSUME h \in DOMAIN Records(g) PROVE FALSE
        <5>1. Readable(g, h)' <=> Readable(g, h)
          BY <1>6, <3>2, <4>1
        <5> QED
          BY <5>1, <1>8
      <4> QED
        BY <4>1
    <3> QED
      BY <1>1, <2>2, <3>1, <3>3
  <2>4. CASE j \notin DOMAIN segments
    <3>1. w[g].records = <<r>>
      BY <1>1, <2>2, <2>4
    <3>2. h = 1
      BY <2>1, <3>1
    <3> QED
      BY <2>2, <2>4, <3>1, <3>2
  <2> QED
    BY <2>3, <2>4
<1>9. ASSUME NEW g \in DOMAIN w, NEW h \in Id, Readable(g, h)', ~Readable(g, h),
             NEW i \in DOMAIN segments, NEW k \in Id, Readable(i, k)
      PROVE  Before(i, k, g, h)
  <2>1. g = j /\ i <= j /\ i \in Nat /\ j \in Nat
    BY <1>1, <1>2, <1>8, <1>9
  <2>2. i = j => k < h
    <3>1. ASSUME i = j PROVE k < h
      <4>1. j \in DOMAIN segments /\ k \in DOMAIN Records(j)
        BY <1>7, <1>9, <3>1
      <4>2. h = l
        BY <1>8, <1>9, <4>1
      <4> QED
        BY <1>1, <4>1, <4>2
    <3> QED
      BY <3>1
  <2>3. i < g \/ (i = g /\ k < h)
    BY <2>1, <2>2
  <2> QED
    BY <2>3 DEF Before
<1> QED
  BY <1>7, <1>8, <1>9 DEF RecordAt

\* One record more in the log; a header that stands stays, and a new file has one.
LEMMA WithLog ==
    ASSUME segments \in Seq(Segment), NEW r \in Record, segments' = With(r)
    PROVE  /\ Log' = Log \cup {r}
           /\ (\A i \in DOMAIN segments' : segments'[i].head = "whole") <=> \A i \in DOMAIN segments : segments[i].head = "whole"
           /\ \A i \in DOMAIN segments' :
                 \/ i \in DOMAIN segments /\ segments'[i].records = Records(i)
                 \/ i \in DOMAIN segments /\ Len(segments'[i].records) = Len(Records(i)) + 1
                      /\ \E l \in DOMAIN segments'[i].records : segments'[i].records[l] = r
                      /\ \A k \in DOMAIN Records(i) : k \in DOMAIN segments'[i].records /\ segments'[i].records[k] = Records(i)[k]
                 \/ segments'[i].records = <<r>>
<1>. PICK w : w = segments'
  OBVIOUS
<1>a. PICK j, l : PutAt(w, j, l, r)
  BY WithFacts
<1>1. /\ j \in DOMAIN w /\ l \in DOMAIN w[j].records
      /\ w[j].records[l] = r
      /\ \A i \in DOMAIN segments : i \in DOMAIN w /\ i <= j /\ w[i].head = segments[i].head
      /\ \A i \in DOMAIN segments : i # j => w[i] = segments[i]
      /\ \A i \in DOMAIN w : i \in DOMAIN segments \/ i = j
      /\ j \in DOMAIN segments =>
            /\ \A k \in DOMAIN w[j].records : k \in DOMAIN Records(j) \/ k = l
            /\ \A k \in DOMAIN Records(j) : k \in DOMAIN w[j].records /\ k < l
                  /\ w[j].records[k] = Records(j)[k]
            /\ Len(w[j].records) = Len(Records(j)) + 1
      /\ j \notin DOMAIN segments => w[j] = [head |-> "whole", records |-> <<r>>]
  BY <1>a DEF PutAt
<1>2. Log' = UNION {{w[i].records[k] : k \in DOMAIN w[i].records} : i \in DOMAIN w}
  BY DEF Log, Records
<1>3. Log = UNION {{segments[i].records[k] : k \in DOMAIN segments[i].records} : i \in DOMAIN segments}
  BY DEF Log, Records
<1>4. \A i \in DOMAIN segments : segments[i].records = Records(i)
  BY DEF Records
<1>5. r \in Log'
  BY <1>1, <1>2
<1>6. ASSUME NEW x \in Log PROVE x \in Log'
  <2>a. PICK i \in DOMAIN segments : \E k \in DOMAIN Records(i) : x = Records(i)[k]
    BY <1>3, <1>4
  <2>1. PICK k \in DOMAIN Records(i) : x = Records(i)[k]
    BY <2>a
  <2>2. i \in DOMAIN w /\ k \in DOMAIN w[i].records /\ w[i].records[k] = x
    BY <1>1, <1>4, <2>1
  <2> QED
    BY <1>2, <2>2
<1>7. ASSUME NEW x \in Log' PROVE x \in Log \cup {r}
  <2>a. PICK i \in DOMAIN w : \E k \in DOMAIN w[i].records : x = w[i].records[k]
    BY <1>2
  <2>1. PICK k \in DOMAIN w[i].records : x = w[i].records[k]
    BY <2>a
  <2>2. CASE i # j
    BY <1>1, <1>3, <2>1, <2>2
  <2>3. CASE i = j /\ j \in DOMAIN segments
    <3>1. k \in DOMAIN Records(j) \/ k = l
      BY <1>1, <2>1, <2>3
    <3> QED
      BY <1>1, <1>3, <1>4, <2>1, <2>3, <3>1
  <2>4. CASE i = j /\ j \notin DOMAIN segments
    <3>1. w[i].records = <<r>>
      BY <1>1, <2>4
    <3>2. k = 1
      BY <2>1, <3>1
    <3> QED
      BY <2>1, <3>1, <3>2
  <2> QED
    BY <2>2, <2>3, <2>4
<1>8. (\A i \in DOMAIN w : w[i].head = "whole") <=> \A i \in DOMAIN segments : segments[i].head = "whole"
  BY <1>1
<1>9. ASSUME NEW i \in DOMAIN w
      PROVE  \/ i \in DOMAIN segments /\ w[i].records = Records(i)
             \/ i \in DOMAIN segments /\ Len(w[i].records) = Len(Records(i)) + 1
                  /\ \E h \in DOMAIN w[i].records : w[i].records[h] = r
                  /\ \A k \in DOMAIN Records(i) : k \in DOMAIN w[i].records /\ w[i].records[k] = Records(i)[k]
             \/ w[i].records = <<r>>
  <2>1. CASE i # j
    BY <1>1, <1>4, <2>1
  <2>2. CASE i = j /\ j \in DOMAIN segments
    BY <1>1, <2>2
  <2>3. CASE i = j /\ j \notin DOMAIN segments
    BY <1>1, <2>3
  <2> QED
    BY <2>1, <2>2, <2>3
<1> QED
  BY <1>5, <1>6, <1>7, <1>8, <1>9 DEF Records

\* In a clean log replay() reaches every record.
LEMMA CleanReadable ==
    ASSUME MemoryTypeOK, NumbersFit, Clean
    PROVE  /\ \A r \in Log : r # TornBytes /\ \E i \in DOMAIN segments, k \in Id : Readable(i, k) /\ IsRecord(i, k) /\ RecordAt(i, k) = r
           /\ \A i \in DOMAIN segments, k \in Id : Readable(i, k) => RecordAt(i, k) \in Log
<1>1. \A r \in Log : r # TornBytes
  BY DEF Clean
<1>2. ASSUME NEW r \in Log
      PROVE  \E i \in DOMAIN segments, k \in Id : Readable(i, k) /\ IsRecord(i, k) /\ RecordAt(i, k) = r
  <2>1. PICK i \in DOMAIN segments : \E k \in DOMAIN Records(i) : r = Records(i)[k]
    BY DEF Log
  <2>2. PICK k \in DOMAIN Records(i) : r = Records(i)[k]
    BY <2>1
  <2>3. segments[i].records = Records(i)
    BY DEF Records
  <2>4. \A h \in DOMAIN Records(i) : Records(i)[h] \in Log
    BY DEF Log
  <2>5. Records(i) \in Seq(Record)
    <3>1. segments[i] \in Segment
      BY DEF MemoryTypeOK
    <3> QED
      BY <3>1 DEF Segment, Records
  <2>6. Len(Records(i)) <= written
    <3>1. TornBytes \notin {Records(i)[h] : h \in DOMAIN Records(i)}
      BY <2>4, <1>1
    <3> QED
      BY <3>1 DEF NumbersFit
  <2>7. k \in Id /\ 1 .. k \subseteq DOMAIN Records(i)
    <3>1. DOMAIN Records(i) = 1 .. Len(Records(i)) /\ Len(Records(i)) \in Nat
      BY <2>5
    <3>2. written \in Nat /\ written <= MaxEntries /\ MaxEntries \in Nat
      BY MaxEntriesNat DEF MemoryTypeOK
    <3>3. k \in 1 .. Len(Records(i))
      BY <3>1
    <3> QED
      BY <2>6, <3>1, <3>2, <3>3 DEF Id
  <2>8. \A h \in 1 .. k : segments[i].records[h] # TornBytes
    BY <1>1, <2>3, <2>4, <2>7
  <2>9. segments[i].head = "whole"
    BY DEF Clean
  <2> QED
    BY <2>2, <2>3, <2>7, <2>8, <2>9 DEF Readable, IsRecord, RecordAt
<1>3. ASSUME NEW i \in DOMAIN segments, NEW k \in Id, Readable(i, k)
      PROVE  RecordAt(i, k) \in Log
  BY <1>3 DEF Readable, IsRecord, RecordAt, Log, Records
<1> QED
  BY <1>1, <1>2, <1>3

LogKept == MemoryTypeOK /\ NumbersFit /\ SequenceLeads
GrowsBehind ==
    \A i \in DOMAIN segments, k \in Id : Readable(i, k) =>
        /\ Readable(i, k)' /\ RecordAt(i, k)' = RecordAt(i, k)
        /\ \A j \in DOMAIN segments', l \in Id : Readable(j, l)' /\ ~Readable(j, l) =>
              Before(i, k, j, l) /\ RecordAt(i, k).seq < RecordAt(j, l)'.seq

\* The entry of the next append() goes behind all that is readable, and so does
\* what a crash leaves of it.
LEMMA PutKeeps ==
    ASSUME LogKept, phase = "up", segments' = With(NextEntry), written < MaxEntries, written' = written + 1
    PROVE  /\ segments' \in Seq(Segment) /\ NumbersFit' /\ GrowsBehind
           /\ \A i \in DOMAIN segments', k \in Id : Readable(i, k)' => RecordAt(i, k)'.seq <= sequence + 1
           /\ Log' = Log \cup {NextEntry}
           /\ (\A i \in DOMAIN segments' : segments'[i].head = "whole") <=> \A i \in DOMAIN segments : segments[i].head = "whole"
<1>1. segments \in Seq(Segment) /\ sequence \in Nat /\ written \in Nat /\ sequence <= written /\ written + 1 \in Nat
  BY MaxEntriesNat DEF LogKept, MemoryTypeOK
<1>2. PICK r : r = NextEntry
  OBVIOUS
<1>3. r \in Record /\ r.seq = sequence + 1 /\ r.id = written + 1 /\ r # TornBytes
  BY <1>1, <1>2, MaxEntriesNat DEF NextEntry, Record
<1>4. segments' \in Seq(Segment)
  BY <1>1, <1>2, <1>3, WithFacts
<1>5. /\ \A i \in DOMAIN segments, k \in Id : Readable(i, k) =>
            Readable(i, k)' /\ RecordAt(i, k)' = RecordAt(i, k)
      /\ \A j \in DOMAIN segments', l \in Id : Readable(j, l)' /\ ~Readable(j, l) =>
            /\ RecordAt(j, l)' = r
            /\ \A i \in DOMAIN segments, k \in Id : Readable(i, k) => Before(i, k, j, l)
  BY <1>1, <1>2, <1>3, WithReadable
<1>6. \A i \in DOMAIN segments, k \in Id : Readable(i, k) => RecordAt(i, k).seq <= sequence /\ RecordAt(i, k) \in Log /\ RecordAt(i, k) # TornBytes
  <2>1. ASSUME NEW i \in DOMAIN segments, NEW k \in Id, Readable(i, k)
        PROVE  RecordAt(i, k).seq <= sequence /\ RecordAt(i, k) \in Log /\ RecordAt(i, k) # TornBytes
    <3>1. RecordAt(i, k).seq <= sequence
      BY <2>1 DEF LogKept, SequenceLeads
    <3>2. RecordAt(i, k) \in Log
      BY <2>1 DEF Readable, IsRecord, RecordAt, Log, Records
    <3>3. k \in 1 .. k
      BY DEF Id
    <3> QED
      BY <2>1, <3>1, <3>2, <3>3 DEF Readable, RecordAt
  <2> QED
    BY <2>1
<1>7. \A x \in Log : x # TornBytes => x.seq \in Nat
  BY DEF LogKept, NumbersFit
<1>8. GrowsBehind
  <2>1. ASSUME NEW i \in DOMAIN segments, NEW k \in Id, Readable(i, k)
        PROVE  RecordAt(i, k).seq < r.seq
    BY <1>1, <1>3, <1>6, <1>7, <2>1
  <2> QED
    BY <1>5, <2>1 DEF GrowsBehind
<1>9. Log' = Log \cup {r}
  BY <1>1, <1>2, <1>3, WithLog
<1>10. (\A i \in DOMAIN segments' : segments'[i].head = "whole") <=> \A i \in DOMAIN segments : segments[i].head = "whole"
  BY <1>1, <1>2, <1>3, WithLog
<1>11. \A x \in Log' : x = TornBytes \/ (x.seq \in 1 .. written + 1 /\ x.id \in 1 .. written + 1)
  BY <1>1, <1>3, <1>9 DEF LogKept, NumbersFit
<1>12. ASSUME NEW i \in DOMAIN segments', TornBytes \notin {segments'[i].records[k] : k \in DOMAIN segments'[i].records}
       PROVE  Len(segments'[i].records) <= written + 1
  <2>1. \/ i \in DOMAIN segments /\ segments'[i].records = Records(i)
        \/ i \in DOMAIN segments /\ Len(segments'[i].records) = Len(Records(i)) + 1
             /\ \A k \in DOMAIN Records(i) : k \in DOMAIN segments'[i].records /\ segments'[i].records[k] = Records(i)[k]
        \/ segments'[i].records = <<r>>
    BY <1>1, <1>2, <1>3, WithLog
  <2>2. ASSUME i \in DOMAIN segments, TornBytes \notin {Records(i)[k] : k \in DOMAIN Records(i)}
        PROVE  Len(Records(i)) <= written /\ Len(Records(i)) \in Nat
    <3>1. Records(i) \in Seq(Record)
      <4>1. segments[i] \in Segment
        BY <1>1, <2>2
      <4> QED
        BY <4>1 DEF Segment, Records
    <3> QED
      BY <2>2, <3>1 DEF LogKept, NumbersFit
  <2>3. CASE i \in DOMAIN segments /\ segments'[i].records = Records(i)
    BY <1>1, <1>12, <2>2, <2>3
  <2>4. CASE i \in DOMAIN segments /\ Len(segments'[i].records) = Len(Records(i)) + 1
             /\ \A k \in DOMAIN Records(i) : k \in DOMAIN segments'[i].records /\ segments'[i].records[k] = Records(i)[k]
    <3>1. TornBytes \notin {Records(i)[k] : k \in DOMAIN Records(i)}
      BY <1>12, <2>4
    <3> QED
      BY <1>1, <2>2, <2>4, <3>1
  <2>5. CASE segments'[i].records = <<r>>
    BY <1>1, <2>5
  <2> QED
    BY <2>1, <2>3, <2>4, <2>5
<1>13. NumbersFit'
  BY <1>11, <1>12 DEF NumbersFit, Records
<1>14. ASSUME NEW j \in DOMAIN segments', NEW l \in Id, Readable(j, l)'
       PROVE  RecordAt(j, l)'.seq <= sequence + 1
  <2>1. CASE Readable(j, l)
    <3>1. j \in DOMAIN segments
      BY <2>1 DEF Readable, IsRecord
    <3>2. RecordAt(j, l)' = RecordAt(j, l) /\ RecordAt(j, l).seq \in Nat /\ RecordAt(j, l).seq <= sequence
      BY <1>5, <1>6, <1>7, <2>1, <3>1
    <3>3. RecordAt(j, l)'.seq = RecordAt(j, l).seq
      BY <3>2
    <3> QED
      BY <1>1, <3>2, <3>3
  <2>2. CASE ~Readable(j, l)
    <3>1. RecordAt(j, l)' = r
      BY <1>5, <1>14, <2>2
    <3> QED
      BY <1>1, <1>3, <3>1
  <2> QED
    BY <2>1, <2>2
<1> QED
  BY <1>2, <1>4, <1>8, <1>9, <1>10, <1>13, <1>14

\* A torn record, or the header of a file without one, is never read.
LEMMA TornLogKeeps ==
    ASSUME LogKept, segments' = With(TornBytes), written' = written
    PROVE  segments' \in Seq(Segment) /\ NumbersFit' /\ GrowsBehind /\ ~Clean' /\ Log \subseteq Log'
<1>1. segments \in Seq(Segment) /\ written \in Nat /\ TornBytes \in Record
  BY MaxEntriesNat DEF LogKept, MemoryTypeOK, Record
<1>2. segments' \in Seq(Segment)
  BY <1>1, WithFacts
<1>3. Log' = Log \cup {TornBytes}
  BY <1>1, WithLog
<1>4. /\ \A i \in DOMAIN segments, k \in Id : Readable(i, k) =>
            Readable(i, k)' /\ RecordAt(i, k)' = RecordAt(i, k)
      /\ \A j \in DOMAIN segments', l \in Id : Readable(j, l)' /\ ~Readable(j, l) => RecordAt(j, l)' = TornBytes
  BY <1>1, WithReadable
<1>5. \A j \in DOMAIN segments', l \in Id : Readable(j, l)' => RecordAt(j, l)' # TornBytes
  <2>1. \A l \in Id : l \in 1 .. l
    BY DEF Id
  <2> QED
    BY <2>1 DEF Readable, RecordAt
<1>6. GrowsBehind
  BY <1>4, <1>5 DEF GrowsBehind
<1>7. ASSUME NEW i \in DOMAIN segments', TornBytes \notin {segments'[i].records[k] : k \in DOMAIN segments'[i].records}
      PROVE  Len(segments'[i].records) <= written
  <2>1. \/ i \in DOMAIN segments /\ segments'[i].records = Records(i)
        \/ \E l \in DOMAIN segments'[i].records : segments'[i].records[l] = TornBytes
        \/ segments'[i].records = <<TornBytes>>
    BY <1>1, WithLog
  <2>2. CASE segments'[i].records = <<TornBytes>>
    <3>1. 1 \in DOMAIN segments'[i].records /\ segments'[i].records[1] = TornBytes
      BY <2>2
    <3> QED
      BY <3>1, <1>7
  <2>3. CASE i \in DOMAIN segments /\ segments'[i].records = Records(i)
    BY <1>7, <2>3 DEF LogKept, NumbersFit
  <2> QED
    BY <1>7, <2>1, <2>2, <2>3
<1>8. NumbersFit'
  BY <1>3, <1>7 DEF LogKept, NumbersFit, Records
<1> QED
  BY <1>2, <1>3, <1>6, <1>8 DEF Clean

LEMMA HeaderKeeps ==
    ASSUME LogKept, NEW head \in {"headless", "unversioned"},
           segments' = Append(segments, [head |-> head, records |-> <<>>]), written' = written
    PROVE  segments' \in Seq(Segment) /\ NumbersFit' /\ GrowsBehind /\ ~Clean' /\ Log \subseteq Log'
<1>1. segments \in Seq(Segment) /\ written \in Nat
  BY MaxEntriesNat DEF LogKept, MemoryTypeOK
<1>2. PICK t : t = [head |-> head, records |-> <<>>]
  OBVIOUS
<1>3. t \in Segment /\ t.records = <<>> /\ t.head # "whole"
  BY <1>2 DEF Segment
<1>4. PICK n \in Nat : n = Len(segments)
  BY <1>1
<1>5. /\ segments' \in Seq(Segment) /\ DOMAIN segments' = 1 .. n + 1 /\ segments'[n + 1] = t
      /\ DOMAIN segments = 1 .. n /\ \A i \in 1 .. n : segments'[i] = segments[i]
  BY <1>1, <1>2, <1>3, <1>4, AppendProperties
<1>6. n + 1 \in DOMAIN segments' /\ DOMAIN t.records = {} /\ Len(t.records) = 0
      /\ \A i \in DOMAIN segments : i \in DOMAIN segments' /\ segments'[i] = segments[i]
  BY <1>3, <1>5
<1>7. \A i \in DOMAIN segments' : i \in DOMAIN segments \/ (i = n + 1 /\ segments'[i] = t)
  BY <1>5
<1>8. \A i \in DOMAIN segments', k \in Id : Readable(i, k)' => Readable(i, k)
  BY <1>3, <1>6, <1>7 DEF Readable, IsRecord
<1>9. \A i \in DOMAIN segments, k \in Id : Readable(i, k) => Readable(i, k)' /\ RecordAt(i, k)' = RecordAt(i, k)
  BY <1>6 DEF Readable, IsRecord, RecordAt
<1>10. GrowsBehind
  BY <1>8, <1>9 DEF GrowsBehind
<1>11. ASSUME NEW x \in Log' PROVE x \in Log
  <2>1. PICK i \in DOMAIN segments' : \E k \in DOMAIN segments'[i].records : x = segments'[i].records[k]
    BY DEF Log, Records
  <2>2. i \in DOMAIN segments /\ segments'[i] = segments[i]
    BY <1>6, <1>7, <2>1
  <2> QED
    BY <2>1, <2>2 DEF Log, Records
<1>12. ASSUME NEW i \in DOMAIN segments', TornBytes \notin {segments'[i].records[k] : k \in DOMAIN segments'[i].records}
       PROVE  Len(segments'[i].records) <= written
  <2>1. CASE i \in DOMAIN segments
    BY <1>6, <1>12, <2>1 DEF LogKept, NumbersFit, Records
  <2>2. CASE segments'[i] = t
    BY <1>1, <1>6, <2>2
  <2> QED
    BY <1>7, <2>1, <2>2
<1>13. NumbersFit'
  BY <1>11, <1>12 DEF LogKept, NumbersFit, Records
<1>14. ~Clean'
  BY <1>3, <1>5, <1>6 DEF Clean
<1>15. Log \subseteq Log'
  BY <1>6 DEF Log, Records
<1> QED
  BY <1>5, <1>10, <1>13, <1>14, <1>15

LEMMA FilesKept ==
    ASSUME LogKept, UNCHANGED <<segments, written>>
    PROVE  segments' \in Seq(Segment) /\ NumbersFit' /\ GrowsBehind /\ (Clean' <=> Clean) /\ Log' = Log
<1>1. Records(1) = Records(1)
  OBVIOUS
<1>2. \A i, k : (Readable(i, k)' <=> Readable(i, k)) /\ RecordAt(i, k)' = RecordAt(i, k) /\ Records(i)' = Records(i)
  BY DEF Readable, IsRecord, RecordAt, Records
<1>3. Log' = Log
  BY DEF Log, Records
<1>4. NumbersFit'
  BY <1>2, <1>3 DEF LogKept, NumbersFit
<1>5. segments' \in Seq(Segment)
  BY DEF LogKept, MemoryTypeOK
<1>6. GrowsBehind
  BY <1>2 DEF GrowsBehind
<1> QED
  BY <1>3, <1>4, <1>5, <1>6 DEF Clean

\* The types of what is kept in memory and in the checkpoint files.
LEMMA SmallFacts ==
    ASSUME MemoryTypeOK
    PROVE  /\ sequence \in 0 .. MaxEntries /\ written \in Nat /\ Id \subseteq Nat /\ 0 \in Nat
           /\ written < MaxEntries => sequence + 1 \in 0 .. MaxEntries /\ written + 1 \in 0 .. MaxEntries
                                        /\ written + 1 \in Id
           /\ \A s \in 0 .. MaxEntries, v \in (SUBSET Id) \cup {TornBytes} :
                 [checkpoints EXCEPT ![s] = v] \in [0 .. MaxEntries -> (SUBSET Id) \cup {Nothing, TornBytes}]
BY MaxEntriesNat DEF MemoryTypeOK, Id

LEMMA RestoredType ==
    ASSUME MemoryTypeOK, NumbersFit, NEW s \in 0 .. MaxEntries, checkpoints[s] # TornBytes
    PROVE  Restored(s) \in SUBSET Id
<1>1. Snapshot(s) \in SUBSET Id
  <2>1. checkpoints[s] \in (SUBSET Id) \cup {Nothing, TornBytes}
    BY DEF MemoryTypeOK
  <2>2. CASE checkpoints[s] = Nothing
    BY <2>2 DEF Snapshot
  <2>3. CASE checkpoints[s] # Nothing
    BY <2>1, <2>3 DEF Snapshot
  <2> QED
    BY <2>2, <2>3
<1>2. ASSUME NEW q \in Place, Readable(q[1], q[2])
      PROVE  RecordAt(q[1], q[2]).id \in Id
  <2>1. q[1] \in DOMAIN segments /\ q[2] \in DOMAIN segments[q[1]].records /\ q[2] \in Id
    BY <1>2 DEF Place, Readable, IsRecord
  <2>2. RecordAt(q[1], q[2]) \in Log
    BY <2>1 DEF RecordAt, Log, Records
  <2>3. RecordAt(q[1], q[2]) # TornBytes
    <3>1. q[2] \in 1 .. q[2]
      BY <2>1 DEF Id
    <3> QED
      BY <1>2, <3>1 DEF Readable, RecordAt
  <2> QED
    BY <2>2, <2>3, MaxEntriesNat DEF NumbersFit, MemoryTypeOK, Id
<1> QED
  BY <1>1, <1>2 DEF Restored

\* One step keeps the log, and puts what is new behind what is readable.
LEMMA LogKeptStep == LogKept /\ [MemoryNext]_memoryVars => LogKept' /\ GrowsBehind
<1> SUFFICES ASSUME LogKept, [MemoryNext]_memoryVars PROVE LogKept' /\ GrowsBehind
  OBVIOUS
<1>0. MemoryTypeOK /\ NumbersFit /\ SequenceLeads
  BY DEF LogKept
<1>1. CASE AppendEntry
  <2>1. /\ phase = "up" /\ phase' = "up" /\ written < MaxEntries /\ segments' = With(NextEntry)
        /\ written' = written + 1 /\ sequence' = sequence + 1 /\ applied' = applied
        /\ unapplied' = written + 1 /\ acknowledged' = acknowledged \cup {written + 1}
    BY <1>1 DEF AppendEntry, MayAppend
  <2>2. checkpoints' \in [0 .. MaxEntries -> (SUBSET Id) \cup {Nothing, TornBytes}]
    <3>1. CASE CheckpointDue
      BY <1>0, <1>1, <2>1, <3>1, SmallFacts DEF AppendEntry, MemoryTypeOK
    <3>2. CASE ~CheckpointDue
      BY <1>0, <1>1, <3>2 DEF AppendEntry, MemoryTypeOK
    <3> QED
      BY <3>1, <3>2
  <2>3. segments' \in Seq(Segment) /\ NumbersFit' /\ GrowsBehind
        /\ \A i \in DOMAIN segments', k \in Id : Readable(i, k)' => RecordAt(i, k)'.seq <= sequence + 1
    BY <2>1, PutKeeps
  <2>4. acknowledged' \in SUBSET (1 .. written') /\ sequence' \in Nat /\ sequence' <= written'
        /\ written' \in 0 .. MaxEntries /\ unapplied' \in Id
    BY <1>0, <2>1, SmallFacts DEF MemoryTypeOK
  <2> QED
    BY <1>0, <2>1, <2>2, <2>3, <2>4 DEF LogKept, MemoryTypeOK, SequenceLeads
<1>2. CASE Apply
  <2>1. segments' \in Seq(Segment) /\ NumbersFit' /\ GrowsBehind
    BY <1>2, FilesKept DEF Apply
  <2>2. applied' \in SUBSET Id
    BY <1>0, <1>2, SmallFacts DEF Apply, MemoryTypeOK
  <2>3. SequenceLeads'
    BY <1>0, <1>2 DEF Apply, SequenceLeads, Readable, IsRecord, RecordAt
  <2> QED
    BY <1>0, <1>2, <2>1, <2>2, <2>3 DEF Apply, LogKept, MemoryTypeOK
<1>3. CASE CheckpointNow
  <2>1. segments' \in Seq(Segment) /\ NumbersFit' /\ GrowsBehind
    BY <1>3, FilesKept DEF CheckpointNow
  <2>2. checkpoints' \in [0 .. MaxEntries -> (SUBSET Id) \cup {Nothing, TornBytes}]
    BY <1>0, <1>3, SmallFacts DEF CheckpointNow, MemoryTypeOK
  <2>3. SequenceLeads'
    BY <1>0, <1>3 DEF CheckpointNow, SequenceLeads, Readable, IsRecord, RecordAt
  <2> QED
    BY <1>0, <1>3, <2>1, <2>2, <2>3 DEF CheckpointNow, LogKept, MemoryTypeOK
<1>4. ASSUME GoDown, segments' \in Seq(Segment), NumbersFit', GrowsBehind,
             written' = written \/ (written < MaxEntries /\ written' = written + 1),
             checkpoints' \in [0 .. MaxEntries -> (SUBSET Id) \cup {Nothing, TornBytes}]
      PROVE  LogKept' /\ GrowsBehind
  <2>1. written' \in 0 .. MaxEntries /\ acknowledged' \in SUBSET (1 .. written') /\ 0 <= written'
    BY <1>0, <1>4, SmallFacts DEF GoDown, MemoryTypeOK
  <2> QED
    BY <1>4, <2>1 DEF GoDown, LogKept, MemoryTypeOK, SequenceLeads
<1>5. CASE ProcessEnds
  <2>1. segments' \in Seq(Segment) /\ NumbersFit' /\ GrowsBehind
    BY <1>5, FilesKept DEF ProcessEnds
  <2> QED
    BY <1>0, <1>4, <1>5, <2>1 DEF ProcessEnds, MemoryTypeOK
<1>6. CASE CrashInHeader
  <2>1. PICK head \in {"headless", "unversioned"} : segments' = Append(segments, [head |-> head, records |-> <<>>])
    BY <1>6 DEF CrashInHeader
  <2>2. segments' \in Seq(Segment) /\ NumbersFit' /\ GrowsBehind
    BY <1>6, <2>1, HeaderKeeps DEF CrashInHeader
  <2> QED
    BY <1>0, <1>4, <1>6, <2>2 DEF CrashInHeader, MemoryTypeOK
<1>7. CASE CrashInRecord
  <2>1. CASE segments' = With(TornBytes) /\ UNCHANGED written
    <3>1. segments' \in Seq(Segment) /\ NumbersFit' /\ GrowsBehind
      BY <2>1, TornLogKeeps
    <3> QED
      BY <1>0, <1>4, <1>7, <2>1, <3>1 DEF CrashInRecord, MemoryTypeOK
  <2>2. CASE segments' = With(NextEntry) /\ written' = written + 1
    <3>1. segments' \in Seq(Segment) /\ NumbersFit' /\ GrowsBehind
      BY <1>7, <2>2, PutKeeps DEF CrashInRecord, MayAppend
    <3> QED
      BY <1>0, <1>4, <1>7, <2>2, <3>1 DEF CrashInRecord, MayAppend, MemoryTypeOK
  <2> QED
    BY <1>7, <2>1, <2>2 DEF CrashInRecord
<1>8. CASE CrashInCheckpoint
  <2>1. CASE UNCHANGED <<segments, written>> /\ checkpoints' = [checkpoints EXCEPT ![sequence] = TornBytes]
    <3>1. segments' \in Seq(Segment) /\ NumbersFit' /\ GrowsBehind
      BY <2>1, FilesKept
    <3>2. checkpoints' \in [0 .. MaxEntries -> (SUBSET Id) \cup {Nothing, TornBytes}]
      <4>1. sequence \in 0 .. MaxEntries /\ TornBytes \in (SUBSET Id) \cup {TornBytes}
        BY <1>0, SmallFacts
      <4> QED
        BY <1>0, <2>1, <4>1, SmallFacts
    <3> QED
      BY <1>4, <1>8, <2>1, <3>1, <3>2 DEF CrashInCheckpoint
  <2>2. CASE MayAppend /\ segments' = With(NextEntry) /\ written' = written + 1
               /\ checkpoints' = [checkpoints EXCEPT ![sequence + 1] = TornBytes]
    <3>1. segments' \in Seq(Segment) /\ NumbersFit' /\ GrowsBehind
      BY <2>2, PutKeeps DEF MayAppend
    <3>2. checkpoints' \in [0 .. MaxEntries -> (SUBSET Id) \cup {Nothing, TornBytes}]
      <4>1. sequence + 1 \in 0 .. MaxEntries /\ TornBytes \in (SUBSET Id) \cup {TornBytes}
        BY <1>0, <2>2, SmallFacts DEF MayAppend
      <4> QED
        BY <1>0, <2>2, <4>1, SmallFacts
    <3> QED
      BY <1>4, <1>8, <2>2, <3>1, <3>2 DEF CrashInCheckpoint, MayAppend
  <2> QED
    BY <1>8, <2>1, <2>2 DEF CrashInCheckpoint
<1>9. CASE ReopenLog
  <2>1. segments' \in Seq(Segment) /\ NumbersFit' /\ GrowsBehind
    BY <1>9, FilesKept DEF ReopenLog
  <2>2. applied' \in SUBSET Id
    BY <1>0, <1>9, RestoredType DEF ReopenLog
  <2>3. PICK n \in 0 .. MaxEntries : LatestSequence(n) /\ sequence' = n
    BY <1>9 DEF ReopenLog
  <2>4. n <= written
    <3>1. CASE n = 0
      BY <1>0, <3>1 DEF MemoryTypeOK
    <3>2. CASE n # 0
      <4>1. PICK i \in DOMAIN segments, k \in Id : Readable(i, k) /\ RecordAt(i, k).seq = n
        BY <2>3, <3>2 DEF LatestSequence
      <4>2. RecordAt(i, k) \in Log
        BY <4>1 DEF Readable, IsRecord, RecordAt, Log, Records
      <4>3. RecordAt(i, k) # TornBytes
        <5>1. k \in 1 .. k
          BY DEF Id
        <5> QED
          BY <4>1, <5>1 DEF Readable, RecordAt
      <4> QED
        BY <1>0, <4>1, <4>2, <4>3 DEF NumbersFit
    <3> QED
      BY <3>1, <3>2
  <2>5. SequenceLeads'
    BY <1>9, <2>3 DEF ReopenLog, LatestSequence, SequenceLeads, Readable, IsRecord, RecordAt
  <2>6. n \in Nat
    BY <2>3
  <2> QED
    BY <1>0, <1>9, <2>1, <2>2, <2>3, <2>4, <2>5, <2>6 DEF ReopenLog, LogKept, MemoryTypeOK
<1>10. CASE ReopenRaises
  <2>1. segments' \in Seq(Segment) /\ NumbersFit' /\ GrowsBehind
    BY <1>10, FilesKept DEF ReopenRaises
  <2> QED
    BY <1>0, <1>10, <2>1 DEF ReopenRaises, LogKept, MemoryTypeOK, SequenceLeads
<1>11. CASE UNCHANGED memoryVars
  <2>1. segments' \in Seq(Segment) /\ NumbersFit' /\ GrowsBehind
    BY <1>11, FilesKept DEF memoryVars
  <2>2. SequenceLeads'
    BY <1>0, <1>11 DEF memoryVars, SequenceLeads, Readable, IsRecord, RecordAt
  <2> QED
    BY <1>0, <1>11, <2>1, <2>2 DEF memoryVars, LogKept, MemoryTypeOK
<1> QED
  BY <1>1, <1>2, <1>3, <1>5, <1>6, <1>7, <1>8, <1>9, <1>10, <1>11 DEF MemoryNext

LEMMA LogKeptStarts == MemoryInit => LogKept
<1> SUFFICES ASSUME MemoryInit PROVE LogKept
  OBVIOUS
<1>1. segments = <<>> /\ DOMAIN segments = {} /\ segments \in Seq(Segment)
  BY EmptySeq DEF MemoryInit
<1>2. NumbersFit /\ SequenceLeads
  BY <1>1 DEF NumbersFit, SequenceLeads, Log
<1>3. MemoryTypeOK
  <2>1. checkpoints \in [0 .. MaxEntries -> (SUBSET Id) \cup {Nothing, TornBytes}]
    BY DEF MemoryInit
  <2>2. sequence = 0 /\ written = 0 /\ 0 \in 0 .. MaxEntries /\ sequence <= written
    BY MaxEntriesNat DEF MemoryInit
  <2>3. applied \in SUBSET Id /\ acknowledged \in SUBSET (1 .. written) /\ unapplied \in Id \cup {Nothing}
    BY DEF MemoryInit
  <2> QED
    BY <1>1, <2>1, <2>2, <2>3 DEF MemoryInit, MemoryTypeOK
<1> QED
  BY <1>2, <1>3 DEF LogKept

\* "never overwrites": no append, crash or restart changes or hides an entry that
\* replay() reaches, and a new one comes behind all of them with a greater number.
THEOREM EntriesAreAppended == MemorySpec => AppendOnly
<1>1. LogKept /\ [MemoryNext]_memoryVars =>
        [\A i \in DOMAIN segments, k \in Id : Readable(i, k) =>
          /\ Readable(i, k)' /\ RecordAt(i, k)' = RecordAt(i, k)
          /\ \A j \in DOMAIN segments', l \in Id : Readable(j, l)' /\ ~Readable(j, l) =>
                Before(i, k, j, l) /\ RecordAt(i, k).seq < RecordAt(j, l)'.seq]_memoryVars
  BY LogKeptStep DEF GrowsBehind
<1> QED
  BY <1>1, LogKeptStarts, LogKeptStep, PTL DEF MemorySpec, AppendOnly

\* An entry with the number of a checkpoint: that one was taken before it could be applied.
Forgiven(id) == \E r \in Log : r.id = id /\ checkpoints[r.seq] # Nothing
Persisted == \A id \in acknowledged : \E r \in Log : r # TornBytes /\ r.id = id
\* As long as no file is torn: the last number is that of a record or there is
\* none, no checkpoint is ahead of the records, and what was acknowledged is in
\* each checkpoint that came after it and, while the log is open, in the layers.
LastIsRecord == phase = "up" => sequence = 0 \/ \E r \in Log : r.seq = sequence
CheckpointsBehind == \A s \in 1 .. MaxEntries : checkpoints[s] # Nothing => \E r \in Log : r.seq >= s
InCheckpoints ==
    \A s \in 1 .. MaxEntries : checkpoints[s] \notin {Nothing, TornBytes} =>
        \A r \in Log : r.seq <= s /\ r.id \in acknowledged => r.id \in checkpoints[s] \/ Forgiven(r.id)
InLayers == phase = "up" => \A id \in acknowledged : id \in applied \/ id = unapplied \/ Forgiven(id)
Covered == Clean => LastIsRecord /\ CheckpointsBehind /\ InCheckpoints /\ InLayers
MemoryInv == LogKept /\ Persisted /\ Covered

LEMMA CleanFacts ==
    ASSUME LogKept, Clean
    PROVE  /\ \A r \in Log : r.seq \in 1 .. written /\ r.id \in 1 .. written /\ r.seq \in 1 .. MaxEntries
                             /\ r.seq \in 0 .. MaxEntries /\ r.seq >= 1
           /\ phase = "up" => \A r \in Log : r.seq <= sequence
<1>1. \A r \in Log : r.seq \in 1 .. written /\ r.id \in 1 .. written
  BY DEF Clean, LogKept, NumbersFit
<1>2. written \in Nat /\ written <= MaxEntries /\ MaxEntries \in Nat
  BY MaxEntriesNat DEF LogKept, MemoryTypeOK
<1>3. ASSUME phase = "up", NEW r \in Log PROVE r.seq <= sequence
  <2>1. PICK i \in DOMAIN segments, k \in Id : Readable(i, k) /\ RecordAt(i, k) = r
    BY CleanReadable DEF LogKept
  <2> QED
    BY <1>3, <2>1 DEF LogKept, SequenceLeads
<1>4. ASSUME NEW r \in Log PROVE r.seq \in 1 .. MaxEntries /\ r.seq \in 0 .. MaxEntries /\ r.seq >= 1
  BY <1>1, <1>2
<1> QED
  BY <1>1, <1>3, <1>4

\* Nothing that makes an entry covered is taken back.
LEMMA ForgivenStays ==
    ASSUME LogKept, Clean, Log \subseteq Log',
           \A s \in 0 .. MaxEntries : checkpoints[s] # Nothing => checkpoints'[s] # Nothing
    PROVE  \A id : Forgiven(id) => Forgiven(id)'
BY CleanFacts DEF Forgiven

\* An entry comes into the log, with a checkpoint of what is applied, with what a
\* crash leaves of one, or without; it is covered from then on.
LEMMA PutCovers ==
    ASSUME MemoryInv, phase = "up", unapplied = Nothing, written < MaxEntries,
           segments' = With(NextEntry), written' = written + 1, LogKept',
           \/ checkpoints' = checkpoints
           \/ checkpoints' = [checkpoints EXCEPT ![sequence + 1] = applied]
           \/ checkpoints' = [checkpoints EXCEPT ![sequence + 1] = TornBytes],
           \/ /\ phase' = "up" /\ sequence' = sequence + 1 /\ applied' = applied
              /\ unapplied' = written + 1 /\ acknowledged' = acknowledged \cup {written + 1}
           \/ /\ phase' = "down" /\ acknowledged' = acknowledged
    PROVE  MemoryInv'
<1>0. LogKept /\ MemoryTypeOK /\ Persisted
  BY DEF MemoryInv, LogKept
<1>1. PICK e : e = NextEntry
  OBVIOUS
<1>2. sequence \in Nat /\ written \in Nat /\ sequence + 1 \in 1 .. MaxEntries /\ sequence + 1 \in 0 .. MaxEntries
  BY <1>0, SmallFacts DEF MemoryTypeOK
<1>3. e.seq = sequence + 1 /\ e.id = written + 1 /\ e # TornBytes
  <2>1. e \in [seq : Nat, id : Nat]
    BY <1>1, <1>2 DEF NextEntry
  <2> QED
    BY <1>1, <2>1, MaxEntriesNat DEF NextEntry
<1>4. Log' = Log \cup {e}
  BY <1>0, <1>1, PutKeeps
<1>5. (\A i \in DOMAIN segments' : segments'[i].head = "whole") <=> \A i \in DOMAIN segments : segments[i].head = "whole"
  BY <1>0, PutKeeps
<1>6. acknowledged \in SUBSET (1 .. written)
  BY <1>0 DEF MemoryTypeOK
<1>7. acknowledged' \subseteq acknowledged \cup {e.id}
  BY <1>3
<1>8. Persisted'
  BY <1>0, <1>3, <1>4, <1>7 DEF Persisted
<1>9. ASSUME Clean'
      PROVE  LastIsRecord' /\ CheckpointsBehind' /\ InCheckpoints' /\ InLayers'
  <2>1. Clean
    BY <1>4, <1>5, <1>9 DEF Clean
  <2>2. LastIsRecord /\ CheckpointsBehind /\ InCheckpoints /\ InLayers
    BY <2>1 DEF MemoryInv, Covered
  <2>3. /\ \A r \in Log : r.seq \in 1 .. MaxEntries /\ r.seq \in Nat /\ r.id \in 1 .. written /\ r.seq <= sequence
    BY <1>0, <2>1, CleanFacts
  <2>4. \A s \in 0 .. MaxEntries : checkpoints'[s] = checkpoints[s] \/ (s = sequence + 1 /\ checkpoints'[s] \in {applied, TornBytes})
    BY <1>0, <1>2 DEF MemoryTypeOK
  <2>5. applied # Nothing /\ TornBytes # Nothing
    BY <1>0, MaxEntriesNat DEF MemoryTypeOK
  <2>6. \A id : Forgiven(id) => Forgiven(id)'
    <3>1. \A s \in 0 .. MaxEntries : checkpoints[s] # Nothing => checkpoints'[s] # Nothing
      BY <2>4, <2>5
    <3> QED
      BY <1>0, <1>4, <2>1, <3>1, ForgivenStays
  <2>7. LastIsRecord'
    BY <1>3, <1>4 DEF LastIsRecord
  <2>8. ASSUME NEW s \in 1 .. MaxEntries, checkpoints'[s] # Nothing
        PROVE  \E r \in Log' : r.seq >= s
    <3>1. s \in 0 .. MaxEntries
      BY MaxEntriesNat
    <3>2. CASE checkpoints'[s] = checkpoints[s]
      BY <1>4, <2>2, <2>8, <3>2 DEF CheckpointsBehind
    <3>3. CASE s = sequence + 1
      <4>1. e.seq >= s
        BY <1>2, <1>3, <3>3
      <4> QED
        BY <1>4, <4>1
    <3> QED
      BY <2>4, <3>1, <3>2, <3>3
  <2>9. \A id \in acknowledged : id \in applied \/ Forgiven(id)
    <3>1. \A id \in acknowledged : id # unapplied
      BY <1>2, <1>6, MaxEntriesNat
    <3> QED
      BY <2>2, <3>1 DEF InLayers
  <2>10. ASSUME NEW s \in 1 .. MaxEntries, checkpoints'[s] # Nothing, checkpoints'[s] # TornBytes,
                NEW r \in Log', r.seq <= s, r.id \in acknowledged'
         PROVE  r.id \in checkpoints'[s] \/ Forgiven(r.id)'
    <3>1. s \in 0 .. MaxEntries /\ s \in Nat
      BY MaxEntriesNat
    <3>2. CASE s = sequence + 1 /\ checkpoints'[s] = applied
      <4>1. CASE r.id \in acknowledged
        BY <2>6, <2>9, <3>2, <4>1
      <4>2. CASE r.id \notin acknowledged
        <5>1. r.id = e.id
          BY <1>7, <2>10, <4>2
        <5>2. checkpoints'[e.seq] # Nothing
          BY <1>3, <2>10, <3>2
        <5> QED
          BY <1>4, <5>1, <5>2 DEF Forgiven
      <4> QED
        BY <4>1, <4>2
    <3>3. CASE checkpoints'[s] = checkpoints[s]
      <4>1. PICK x \in Log : x.seq >= s
        BY <2>2, <2>10, <3>3 DEF CheckpointsBehind
      <4>2. s <= sequence
        BY <1>2, <2>3, <3>1, <4>1
      <4>3. r # e
        BY <1>2, <1>3, <2>10, <3>1, <4>2
      <4>4. r \in Log
        BY <1>4, <4>3
      <4>5. r.id \in acknowledged
        <5>1. r.id # e.id
          BY <1>2, <1>3, <2>3, <4>4
        <5> QED
          BY <1>7, <2>10, <5>1
      <4>6. r.id \in checkpoints[s] \/ Forgiven(r.id)
        BY <2>2, <2>10, <3>3, <4>4, <4>5 DEF InCheckpoints
      <4> QED
        BY <2>6, <3>3, <4>6
    <3> QED
      BY <2>4, <2>10, <3>1, <3>2, <3>3
  <2>11. InLayers'
    <3>1. SUFFICES ASSUME phase' = "up", NEW id \in acknowledged'
                   PROVE  id \in applied' \/ id = unapplied' \/ Forgiven(id)'
      BY DEF InLayers
    <3>2. applied' = applied /\ unapplied' = written + 1 /\ (id \in acknowledged \/ id = written + 1)
      BY <3>1
    <3> QED
      BY <2>6, <2>9, <3>2
  <2> QED
    BY <2>7, <2>8, <2>10, <2>11 DEF CheckpointsBehind, InCheckpoints
<1> QED
  BY <1>8, <1>9 DEF MemoryInv, Covered

\* The log stays as it is, the numbers of checkpoints are kept and so is what was acknowledged.
LEMMA SameLogCovers ==
    ASSUME MemoryInv, UNCHANGED <<segments, written, acknowledged>>, LogKept',
           \/ checkpoints' = checkpoints
           \/ phase = "up" /\ unapplied = Nothing
              /\ \E v \in {applied, TornBytes} : checkpoints' = [checkpoints EXCEPT ![sequence] = v],
           \/ phase' # "up"
           \/ phase = "up" /\ sequence' = sequence /\ (applied \cup {unapplied}) \ {Nothing} \subseteq applied' \cup {unapplied'}
    PROVE  MemoryInv'
<1>0. LogKept /\ MemoryTypeOK /\ Persisted
  BY DEF MemoryInv, LogKept
<1>1. Log' = Log /\ (Clean' <=> Clean)
  BY <1>0, FilesKept
<1>2. Persisted'
  BY <1>0, <1>1 DEF Persisted
<1>3. ASSUME Clean'
      PROVE  LastIsRecord' /\ CheckpointsBehind' /\ InCheckpoints' /\ InLayers'
  <2>1. Clean
    BY <1>1, <1>3
  <2>2. LastIsRecord /\ CheckpointsBehind /\ InCheckpoints /\ InLayers
    BY <2>1 DEF MemoryInv, Covered
  <2>3. \A r \in Log : r.seq \in 1 .. MaxEntries /\ r.seq \in Nat /\ r.seq \in 0 .. MaxEntries /\ r.id \in 1 .. written
    BY <1>0, <2>1, CleanFacts
  <2>4. \A s \in 0 .. MaxEntries : \/ checkpoints'[s] = checkpoints[s]
                                    \/ /\ phase = "up" /\ unapplied = Nothing /\ s = sequence
                                       /\ checkpoints'[s] \in {applied, TornBytes}
    BY <1>0 DEF MemoryTypeOK
  <2>5. applied # Nothing /\ TornBytes # Nothing
    BY <1>0, MaxEntriesNat DEF MemoryTypeOK
  <2>6. \A id : Forgiven(id) => Forgiven(id)'
    <3>1. \A s \in 0 .. MaxEntries : checkpoints[s] # Nothing => checkpoints'[s] # Nothing
      BY <2>4, <2>5
    <3> QED
      BY <1>0, <1>1, <2>1, <3>1, ForgivenStays
  <2>7. \A id \in acknowledged : id # Nothing /\ id \in Nat
    <3>1. acknowledged \in SUBSET (1 .. written) /\ written \in Nat
      BY <1>0, SmallFacts DEF MemoryTypeOK
    <3> QED
      BY <3>1, MaxEntriesNat
  <2>8. ASSUME NEW s \in 1 .. MaxEntries, checkpoints'[s] # Nothing
        PROVE  \E r \in Log : r.seq >= s
    <3>1. s \in 0 .. MaxEntries
      BY MaxEntriesNat
    <3>2. CASE checkpoints'[s] = checkpoints[s]
      BY <2>2, <2>8, <3>2 DEF CheckpointsBehind
    <3>3. CASE phase = "up" /\ s = sequence
      <4>1. PICK r \in Log : r.seq = sequence
        BY <2>2, <3>3, MaxEntriesNat DEF LastIsRecord
      <4> QED
        BY <3>1, <3>3, <4>1, MaxEntriesNat
    <3> QED
      BY <2>4, <3>1, <3>2, <3>3
  <2>9. ASSUME NEW s \in 1 .. MaxEntries, checkpoints'[s] # Nothing, checkpoints'[s] # TornBytes,
               NEW r \in Log, r.seq <= s, r.id \in acknowledged
        PROVE  r.id \in checkpoints'[s] \/ Forgiven(r.id)'
    <3>1. s \in 0 .. MaxEntries
      BY MaxEntriesNat
    <3>2. CASE checkpoints'[s] = checkpoints[s]
      <4>1. r.id \in checkpoints[s] \/ Forgiven(r.id)
        BY <2>2, <2>9, <3>2 DEF InCheckpoints
      <4> QED
        BY <2>6, <3>2, <4>1
    <3>3. CASE phase = "up" /\ unapplied = Nothing /\ checkpoints'[s] = applied
      <4>1. r.id \in applied \/ Forgiven(r.id)
        BY <2>2, <2>7, <2>9, <3>3 DEF InLayers
      <4> QED
        BY <2>6, <3>3, <4>1
    <3> QED
      BY <2>4, <2>9, <3>1, <3>2, <3>3
  <2>10. LastIsRecord'
    BY <1>1, <2>2 DEF LastIsRecord
  <2>11. InLayers'
    <3>1. SUFFICES ASSUME phase' = "up", NEW id \in acknowledged
                   PROVE  id \in applied' \/ id = unapplied' \/ Forgiven(id)'
      BY DEF InLayers
    <3>2. id \in applied \/ id = unapplied \/ Forgiven(id)
      BY <2>2, <3>1 DEF InLayers
    <3> QED
      BY <2>6, <2>7, <3>1, <3>2
  <2> QED
    BY <1>1, <2>8, <2>9, <2>10, <2>11 DEF CheckpointsBehind, InCheckpoints
<1> QED
  BY <1>2, <1>3 DEF MemoryInv, Covered

\* The state a restart finds in the files covers what was acknowledged.
LEMMA ReopenCovers ==
    ASSUME MemoryInv, ReopenLog, LogKept'
    PROVE  MemoryInv'
<1>0. LogKept /\ MemoryTypeOK /\ NumbersFit /\ Persisted
  BY DEF MemoryInv, LogKept
<1>1. UNCHANGED <<segments, checkpoints, unapplied, written, acknowledged>>
  BY DEF ReopenLog
<1>2. Log' = Log /\ (Clean' <=> Clean)
  BY <1>0, <1>1, FilesKept
<1>3. Persisted'
  BY <1>0, <1>1, <1>2 DEF Persisted
<1>4. ASSUME Clean'
      PROVE  LastIsRecord' /\ CheckpointsBehind' /\ InCheckpoints' /\ InLayers'
  <2>1. Clean
    BY <1>2, <1>4
  <2>2. CheckpointsBehind /\ InCheckpoints
    BY <2>1 DEF MemoryInv, Covered
  <2>3. PICK s \in 0 .. MaxEntries : LatestCheckpoint(s) /\ checkpoints[s] # TornBytes /\ applied' = Restored(s)
    BY DEF ReopenLog
  <2>4. PICK n \in 0 .. MaxEntries : LatestSequence(n) /\ sequence' = n
    BY DEF ReopenLog
  <2>5. \A r \in Log : \E i \in DOMAIN segments, k \in Id : Readable(i, k) /\ IsRecord(i, k) /\ RecordAt(i, k) = r
    BY <1>0, <2>1, CleanReadable
  <2>6. \A i \in DOMAIN segments, k \in Id : Readable(i, k) => RecordAt(i, k) \in Log
    BY <1>0, <2>1, CleanReadable
  <2>7. \A r \in Log : r.seq \in Nat /\ r.seq >= 1
    BY <1>0, <2>1, CleanFacts
  <2>8. LastIsRecord'
    BY <1>2, <2>4, <2>6 DEF LatestSequence, LastIsRecord
  <2>9. \A id : Forgiven(id)' <=> Forgiven(id)
    BY <1>1, <1>2 DEF Forgiven
  <2>10. ASSUME NEW id \in acknowledged
         PROVE  id \in Restored(s) \/ Forgiven(id)
    <3>1. PICK r \in Log : r.id = id
      BY <1>0 DEF Persisted
    <3>2. CASE r.seq > s
      <4>1. PICK i \in DOMAIN segments, k \in Id : Readable(i, k) /\ RecordAt(i, k) = r
        BY <2>5
      <4>2. PICK q : q = <<i, k>>
        OBVIOUS
      <4>3. q \in Place /\ Readable(q[1], q[2]) /\ RecordAt(q[1], q[2]) = r
        BY <4>1, <4>2 DEF Place
      <4> QED
        BY <3>1, <3>2, <4>3 DEF Restored
    <3>3. CASE ~(r.seq > s)
      <4>1. r.seq <= s /\ s \in 1 .. MaxEntries
        BY <2>7, <3>3, MaxEntriesNat
      <4>2. checkpoints[s] \notin {Nothing, TornBytes}
        BY <2>3, <4>1, MaxEntriesNat DEF LatestCheckpoint
      <4>3. id \in checkpoints[s] \/ Forgiven(id)
        BY <2>2, <3>1, <4>1, <4>2 DEF InCheckpoints
      <4> QED
        BY <4>2, <4>3 DEF Restored, Snapshot
    <3> QED
      BY <3>2, <3>3
  <2>11. InLayers'
    BY <1>1, <2>3, <2>9, <2>10 DEF InLayers
  <2>12. CheckpointsBehind' /\ InCheckpoints'
    BY <1>1, <1>2, <2>2, <2>9 DEF CheckpointsBehind, InCheckpoints
  <2> QED
    BY <2>8, <2>11, <2>12
<1> QED
  BY <1>3, <1>4 DEF MemoryInv, Covered

LEMMA MemoryInvStep == MemoryInv /\ [MemoryNext]_memoryVars => MemoryInv'
<1> SUFFICES ASSUME MemoryInv, [MemoryNext]_memoryVars PROVE MemoryInv'
  OBVIOUS
<1>0. LogKept /\ LogKept' /\ MemoryTypeOK /\ Persisted
  BY LogKeptStep DEF MemoryInv, LogKept
<1>1. CASE AppendEntry
  <2>1. checkpoints' = checkpoints \/ checkpoints' = [checkpoints EXCEPT ![sequence + 1] = applied]
    BY <1>1 DEF AppendEntry
  <2> QED
    BY <1>0, <1>1, <2>1, PutCovers DEF AppendEntry, MayAppend
<1>2. CASE Apply
  BY <1>0, <1>2, SameLogCovers DEF Apply
<1>3. CASE CheckpointNow
  BY <1>0, <1>3, SameLogCovers DEF CheckpointNow
<1>4. CASE ProcessEnds
  BY <1>0, <1>4, SameLogCovers DEF ProcessEnds, GoDown
<1>5. ASSUME ~Clean', Log \subseteq Log', acknowledged' = acknowledged
      PROVE  MemoryInv'
  BY <1>0, <1>5 DEF MemoryInv, Covered, Persisted
<1>6. CASE CrashInHeader
  <2>1. PICK head \in {"headless", "unversioned"} : segments' = Append(segments, [head |-> head, records |-> <<>>])
    BY <1>6 DEF CrashInHeader
  <2> QED
    BY <1>0, <1>5, <1>6, <2>1, HeaderKeeps DEF CrashInHeader, GoDown
<1>7. CASE CrashInRecord
  <2>1. CASE segments' = With(TornBytes) /\ UNCHANGED written
    BY <1>0, <1>5, <1>7, <2>1, TornLogKeeps DEF CrashInRecord, GoDown
  <2>2. CASE segments' = With(NextEntry) /\ written' = written + 1
    BY <1>0, <1>7, <2>2, PutCovers DEF CrashInRecord, GoDown, MayAppend
  <2> QED
    BY <1>7, <2>1, <2>2 DEF CrashInRecord
<1>8. CASE CrashInCheckpoint
  <2>1. CASE /\ phase = "up" /\ unapplied = Nothing
             /\ UNCHANGED <<segments, written>> /\ checkpoints' = [checkpoints EXCEPT ![sequence] = TornBytes]
    BY <1>0, <1>8, <2>1, SameLogCovers DEF CrashInCheckpoint, GoDown
  <2>2. CASE MayAppend /\ segments' = With(NextEntry) /\ written' = written + 1
               /\ checkpoints' = [checkpoints EXCEPT ![sequence + 1] = TornBytes]
    BY <1>0, <1>8, <2>2, PutCovers DEF CrashInCheckpoint, GoDown, MayAppend
  <2> QED
    BY <1>8, <2>1, <2>2 DEF CrashInCheckpoint
<1>9. CASE ReopenLog
  BY <1>0, <1>9, ReopenCovers
<1>10. CASE ReopenRaises
  BY <1>0, <1>10, SameLogCovers DEF ReopenRaises
<1>11. CASE UNCHANGED memoryVars
  <2>1. phase' # "up" \/ (phase = "up" /\ sequence' = sequence /\ (applied \cup {unapplied}) \ {Nothing} \subseteq applied' \cup {unapplied'})
    BY <1>11 DEF memoryVars
  <2> QED
    BY <1>0, <1>11, <2>1, SameLogCovers DEF memoryVars
<1> QED
  BY <1>1, <1>2, <1>3, <1>4, <1>6, <1>7, <1>8, <1>9, <1>10, <1>11 DEF MemoryNext

\* What follows for the run's property: a restart of intact files restores every
\* acknowledged entry, or the entry has the number of a checkpoint.
LEMMA CoveredIsRestored == MemoryInv => OnlyCheckpointEntriesLost
<1> SUFFICES ASSUME MemoryInv, Intact, NEW s \in 0 .. MaxEntries, LatestCheckpoint(s), NEW id \in acknowledged, id \notin Restored(s)
             PROVE  \E i \in DOMAIN segments, k \in Id :
                       IsRecord(i, k) /\ RecordAt(i, k).id = id /\ checkpoints[RecordAt(i, k).seq] # Nothing
  BY DEF OnlyCheckpointEntriesLost
<1>0. LogKept /\ MemoryTypeOK /\ NumbersFit /\ Persisted
  BY DEF MemoryInv, LogKept
<1>1. Clean
  BY DEF Intact, Clean, Log, Records, RecordAt
<1>2. checkpoints[s] # TornBytes
  BY DEF Intact
<1>3. InCheckpoints
  BY <1>1 DEF MemoryInv, Covered
<1>4. \A r \in Log : \E i \in DOMAIN segments, k \in Id : Readable(i, k) /\ IsRecord(i, k) /\ RecordAt(i, k) = r
  BY <1>0, <1>1, CleanReadable
<1>5. \A r \in Log : r.seq \in Nat /\ r.seq >= 1
  BY <1>0, <1>1, CleanFacts
<1>6. PICK r \in Log : r.id = id
  BY <1>0 DEF Persisted
<1>7. ~(r.seq > s)
  <2>1. SUFFICES ASSUME r.seq > s PROVE FALSE
    OBVIOUS
  <2>2. PICK i \in DOMAIN segments, k \in Id : Readable(i, k) /\ RecordAt(i, k) = r
    BY <1>4
  <2>3. PICK q : q = <<i, k>>
    OBVIOUS
  <2>4. q \in Place /\ Readable(q[1], q[2]) /\ RecordAt(q[1], q[2]) = r
    BY <2>2, <2>3 DEF Place
  <2> QED
    BY <1>6, <2>1, <2>4 DEF Restored
<1>8. r.seq <= s /\ s \in 1 .. MaxEntries
  BY <1>5, <1>7, MaxEntriesNat
<1>9. checkpoints[s] \notin {Nothing, TornBytes}
  BY <1>2, <1>8, MaxEntriesNat DEF LatestCheckpoint
<1>10. id \notin checkpoints[s]
  BY <1>9 DEF Restored, Snapshot
<1>11. Forgiven(id)
  BY <1>3, <1>6, <1>8, <1>9, <1>10 DEF InCheckpoints
<1>12. PICK e \in Log : e.id = id /\ checkpoints[e.seq] # Nothing
  BY <1>11 DEF Forgiven
<1>13. PICK i \in DOMAIN segments, k \in Id : IsRecord(i, k) /\ RecordAt(i, k) = e
  BY <1>4
<1> QED
  BY <1>12, <1>13

\* As long as no crash tore a file, a restart brings back every entry append()
\* returned, but those with the number of a checkpoint (append, checkpoint, replay).
THEOREM RestartsLoseLittle == MemorySpec => []OnlyCheckpointEntriesLost
<1>1. MemoryInit => MemoryInv
  <2>1. ASSUME MemoryInit PROVE Persisted /\ Covered
    <3>1. Log = {} /\ sequence = 0 /\ acknowledged = {} /\ \A s \in 1 .. MaxEntries : checkpoints[s] = Nothing
      BY <2>1, MaxEntriesNat DEF MemoryInit, Log
    <3> QED
      BY <3>1 DEF Persisted, Covered, LastIsRecord, CheckpointsBehind, InCheckpoints, InLayers
  <2> QED
    BY <2>1, LogKeptStarts DEF MemoryInv
<1> QED
  BY <1>1, MemoryInvStep, CoveredIsRestored, PTL DEF MemorySpec
==============================================================================
