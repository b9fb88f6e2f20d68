------------------------- MODULE ChannelRecordsProofs -------------------------
(***************************************************************************)
(* Safety properties of ChannelRecords, for every number of channels, jobs *)
(* and kills.  IInv is the inductive invariant.                            *)
(***************************************************************************)
EXTENDS ChannelRecords, FiniteSetTheorems, TLAPS

\* As long as update(node:) made no copies, the number of the records with an id is
\* not below the number of their states, nor above that of the channels that own one;
\* a channel being opened owns one that is not made yet.
Counted ==
    \A i \in Ids \ copied :
        Cardinality(records[i]) <= number[i] /\ (HasRow(i) <=> number[i] > 0)

Owners(i) == {c \in Channels : uid[c] = i /\ Owns(c)}
Due(i)    == number[i] + IF opening # NoChannel /\ uid[opening] = i THEN 1 ELSE 0
Owned     == \A i \in Ids \ copied : Due(i) <= Cardinality(Owners(i))

\* What is known of a channel in each of its stages.
Staged ==
    \A c \in Channels :
        /\ stage[c] = "none" => uid[c] = NoId /\ pending[c] = {}
        /\ stage[c] # "none" => uid[c] \in Ids
        /\ "closed" \in pending[c] => stage[c] = "gone"
        /\ "ready" \in pending[c] => stage[c] \in {"ready", "gone"}
        /\ c \in saved.open \cup saved.closing => Funded(c) \/ stage[c] = "gone"
        /\ c \in saved.closed => stage[c] = "gone"

\* A channel whose record is being removed can no longer be funded.
Removing == bg # NoChannel => stage[bg] \in {"ready", "gone"} /\ "ready" \notin pending[bg]

Listed == \A j \in Jobs : \A e \in todo[j] : stage[e[1]] # "none"

\* A channel that is funded or may still be has a record.
MayBeFunded(c) ==
    \/ stage[c] = "asked"
    \/ stage[c] = "ready" /\ "ready" \in pending[c]
    \/ Funded(c)
Recorded ==
    \A c \in Channels : MayBeFunded(c) => HasRow(uid[c]) \/ opening = c \/ Shared(c)

\* The main thread between create_channel and the record is in no other call, and
\* the manager is not stored meanwhile.
Opened ==
    opening # NoChannel => /\ ~inLdk /\ stage[opening] # "none"
                           /\ opening \notin saved.open \cup saved.closing

IInv == TypeOK /\ Counted /\ Owned /\ Staged /\ Removing /\ Listed /\ Recorded /\ Opened
-----------------------------------------------------------------------------
(* What the operations on the table do *)

LEMMA FiniteStates ==
    ASSUME NEW r \in SUBSET States
    PROVE  IsFiniteSet(r) /\ Cardinality(r) \in Nat
<1>1. IsFiniteSet({"waitingFunds"})
  BY FS_Singleton
<1>2. IsFiniteSet({"waitingFunds"} \cup {"open"})
  BY <1>1, FS_AddElement
<1>3. IsFiniteSet({"waitingFunds"} \cup {"open"} \cup {"closed"})
  BY <1>2, FS_AddElement
<1>4. States = {"waitingFunds"} \cup {"open"} \cup {"closed"}
  BY DEF States
<1>5. IsFiniteSet(r)
  BY <1>3, <1>4, FS_Subset
<1>6. QED BY <1>5, FS_CardinalityType

\* Taking a state out of a set, and putting one into it.
LEMMA CountStates ==
    ASSUME NEW r \in SUBSET States, NEW s \in States
    PROVE  /\ Cardinality(r \cup {s}) <= Cardinality(r) + 1
           /\ s \in r => Cardinality(r \ {s}) = Cardinality(r) - 1
           /\ s \in r => Cardinality(r) >= 1
<1>1. IsFiniteSet(r) /\ Cardinality(r) \in Nat
  BY FiniteStates
<1>2. Cardinality(r \cup {s}) <= Cardinality(r) + 1
  <2>1. Cardinality(r \cup {s}) = IF s \in r THEN Cardinality(r) ELSE Cardinality(r) + 1
    BY <1>1, FS_AddElement
  <2>2. QED BY <1>1, <2>1
<1>3. s \in r => Cardinality(r \ {s}) = Cardinality(r) - 1
  BY <1>1, FS_RemoveElement
<1>4. IsFiniteSet(r \ {s}) /\ Cardinality(r \ {s}) \in Nat
  BY FiniteStates
<1>5. QED BY <1>1, <1>2, <1>3, <1>4

\* The records that are left beside one with the id.
LEMMA OthersOfId ==
    ASSUME TypeOK, Counted, NEW i \in Ids, NEW rest \in Without(i)
    PROVE  /\ rest \in SUBSET States
           /\ i \notin copied => Cardinality(rest) < number[i] /\ (rest = {} <=> number[i] = 1)
BY DEF TypeOK, Rows, Without

LEMMA WriteKeeps ==
    ASSUME TypeOK, Counted, NEW i \in Ids, NEW new \in States,
           WriteState(i, new), UNCHANGED copied
    PROVE  /\ records' \in Rows /\ number' = number /\ Counted'
           /\ \A k \in Ids : HasRow(k) => HasRow(k)'
<1>1. CASE ~HasRow(i)
  BY <1>1 DEF WriteState, table, TypeOK, Counted, HasRow
<1>2. CASE HasRow(i)
  <2>1. PICK rest \in Without(i) : records' = [records EXCEPT ![i] = rest \cup {new}]
    BY <1>2 DEF WriteState
  <2>2. /\ rest \in SUBSET States
        /\ i \notin copied => Cardinality(rest) < number[i]
    BY OthersOfId
  <2>3. /\ Cardinality(rest \cup {new}) <= Cardinality(rest) + 1
        /\ Cardinality(rest) \in Nat /\ Cardinality(rest \cup {new}) \in Nat
    BY <2>2, CountStates, FiniteStates
  <2>4. number' = number /\ number \in [Ids -> Nat] /\ records \in [Ids -> SUBSET States]
    BY DEF WriteState, TypeOK, Rows
  <2>5. Counted'
    <3>1. ASSUME NEW k \in Ids \ copied
          PROVE  Cardinality(records'[k]) <= number[k] /\ (records'[k] # {} <=> number[k] > 0)
      BY <1>2, <2>1, <2>2, <2>3, <2>4 DEF Counted, HasRow
    <3>2. QED BY <2>4, <3>1 DEF Counted, HasRow
  <2>6. QED BY <2>1, <2>2, <2>4, <2>5 DEF Rows, HasRow
<1>3. QED BY <1>1, <1>2

LEMMA RemoveKeeps ==
    ASSUME TypeOK, Counted, NEW i \in Ids, RemoveRecord(i), UNCHANGED copied
    PROVE  /\ records' \in Rows /\ number' \in [Ids -> Nat] /\ Counted'
           /\ \A k \in Ids \ {i} : HasRow(k) => HasRow(k)'
           /\ \A k \in Ids \ {i} : number'[k] = number[k]
           /\ i \notin copied =>
                 number'[i] = IF number[i] > 0 THEN number[i] - 1 ELSE number[i]
<1>1. CASE ~HasRow(i)
  BY <1>1 DEF RemoveRecord, table, TypeOK, Counted, HasRow
<1>2. CASE HasRow(i)
  <2>1. PICK rest \in Without(i) : records' = [records EXCEPT ![i] = rest]
    BY <1>2 DEF RemoveRecord
  <2>2. /\ rest \in SUBSET States /\ Cardinality(rest) \in Nat
        /\ i \notin copied => Cardinality(rest) < number[i] /\ (rest = {} <=> number[i] = 1)
    BY OthersOfId, FiniteStates
  <2>3. /\ number' = [number EXCEPT ![i] = IF i \in copied THEN 0 ELSE @ - 1]
        /\ number \in [Ids -> Nat] /\ records \in [Ids -> SUBSET States]
    BY <1>2 DEF RemoveRecord, TypeOK, Rows
  <2>4. number' \in [Ids -> Nat]
    BY <2>2, <2>3
  <2>5. Counted'
    <3>1. ASSUME NEW k \in Ids \ copied
          PROVE  Cardinality(records'[k]) <= number'[k] /\ (records'[k] # {} <=> number'[k] > 0)
      BY <1>2, <2>1, <2>2, <2>3, <2>4 DEF Counted, HasRow
    <3>2. QED BY <3>1 DEF Counted, HasRow
  <2>6. QED BY <2>1, <2>2, <2>3, <2>4, <2>5 DEF Rows, HasRow
<1>3. QED BY <1>1, <1>2

LEMMA AddKeeps ==
    ASSUME TypeOK, Counted, NEW i \in Ids, AddNode(held, i)
    PROVE  /\ records' \in Rows /\ number' \in [Ids -> Nat] /\ copied' \subseteq Ids /\ Counted'
           /\ \A k \in Ids : HasRow(k) => HasRow(k)'
           /\ HasRow(i)'
           /\ copied \subseteq copied'
           /\ \A k \in Ids \ copied' :
                 number'[k] = IF k = i THEN number[k] + 1 ELSE number[k]
<1>1. PICK copies \in [held -> SUBSET States \ {{}}] :
        records' = [k \in Ids |-> records[k] \cup (IF k \in held THEN copies[k] ELSE {})
                                             \cup (IF k = i THEN {"waitingFunds"} ELSE {})]
  BY DEF AddNode
<1>2. /\ copied' = copied \cup held /\ copied' \subseteq Ids
      /\ number' = [k \in Ids |-> IF k \in copied' THEN 0
                                  ELSE IF k = i THEN number[k] + 1 ELSE number[k]]
      /\ number \in [Ids -> Nat] /\ records \in [Ids -> SUBSET States]
  BY DEF AddNode, TypeOK, Rows
<1>3. number' \in [Ids -> Nat]
  BY <1>2
<1>4. Counted'
  <2>1. ASSUME NEW k \in Ids \ copied'
        PROVE  Cardinality(records'[k]) <= number'[k] /\ (records'[k] # {} <=> number'[k] > 0)
    <3>1. /\ records[k] \in SUBSET States /\ number[k] \in Nat
          /\ Cardinality(records[k]) <= number[k] /\ (records[k] # {} <=> number[k] > 0)
      BY <1>2, <2>1 DEF Counted, HasRow
    <3>2. /\ Cardinality(records[k] \cup {"waitingFunds"}) <= Cardinality(records[k]) + 1
          /\ Cardinality(records[k]) \in Nat
          /\ Cardinality(records[k] \cup {"waitingFunds"}) \in Nat
      BY <3>1, CountStates, FiniteStates DEF States
    <3>3. CASE k = i
      <4>1. records'[k] = records[k] \cup {"waitingFunds"}
        BY <1>1, <1>2, <2>1, <3>3
      <4>2. number'[k] = number[k] + 1
        BY <1>2, <2>1, <3>3
      <4>3. QED BY <3>1, <3>2, <4>1, <4>2
    <3>4. CASE k # i
      <4>1. records'[k] = records[k] /\ number'[k] = number[k]
        BY <1>1, <1>2, <2>1, <3>4
      <4>2. QED BY <3>1, <4>1
    <3>5. QED BY <3>3, <3>4
  <2>2. QED BY <2>1 DEF Counted, HasRow
<1>5. records' \in Rows
  BY <1>1, <1>2 DEF Rows, States
<1>6. QED BY <1>1, <1>2, <1>3, <1>4, <1>5 DEF HasRow
-----------------------------------------------------------------------------
(* The invariant *)

LEMMA FiniteOwners ==
    \A i : IsFiniteSet(Owners(i)) /\ Cardinality(Owners(i)) \in Nat
<1>1. IsFiniteSet(Channels)
  BY BoundAssumption, FS_Interval DEF Channels
<1>2. \A i : Owners(i) \in SUBSET Channels
  BY DEF Owners
<1>3. \A i : IsFiniteSet(Owners(i))
  BY <1>1, <1>2, FS_Subset
<1>4. QED BY <1>3, FS_CardinalityType

\* The channels that own a record with an id are at least as many as before.
LEMMA MoreOwners ==
    ASSUME NEW i, Owners(i) \subseteq Owners(i)'
    PROVE  /\ Cardinality(Owners(i)) <= Cardinality(Owners(i)')
           /\ Cardinality(Owners(i)') \in Nat
<1> DEFINE before == Owners(i)
           after  == Owners(i)'
<1>1. IsFiniteSet(after)
  <2>1. IsFiniteSet(Channels)
    BY BoundAssumption, FS_Interval DEF Channels
  <2>2. after \in SUBSET Channels
    BY DEF Owners
  <2>3. QED BY <2>1, <2>2, FS_Subset
<1>2. before \in SUBSET after
  OBVIOUS
<1> HIDE DEF before, after
<1>3. Cardinality(before) <= Cardinality(after) /\ Cardinality(after) \in Nat
  BY <1>1, <1>2, FS_Subset, FS_CardinalityType
<1>4. QED BY <1>3 DEF before, after

LEMMA OneMoreOwner ==
    ASSUME NEW i, NEW c, Owners(i) \subseteq Owners(i)', c \notin Owners(i), c \in Owners(i)'
    PROVE  Cardinality(Owners(i)) + 1 <= Cardinality(Owners(i)')
<1> DEFINE before == Owners(i)
           after  == Owners(i)'
<1>1. IsFiniteSet(before) /\ IsFiniteSet(after)
  <2>1. IsFiniteSet(Channels)
    BY BoundAssumption, FS_Interval DEF Channels
  <2>2. before \in SUBSET Channels /\ after \in SUBSET Channels
    BY DEF Owners
  <2>3. QED BY <2>1, <2>2, FS_Subset
<1>2. before \cup {c} \in SUBSET after /\ c \notin before
  OBVIOUS
<1> HIDE DEF before, after
<1>3. Cardinality(before \cup {c}) <= Cardinality(after)
  BY <1>1, <1>2, FS_Subset
<1>4. Cardinality(before \cup {c}) = Cardinality(before) + 1
  BY <1>1, <1>2, FS_AddElement
<1>5. QED BY <1>3, <1>4 DEF before, after

\* No more than one channel ceases to own a record.
LEMMA OneOwnerLess ==
    ASSUME NEW i, NEW c, Owners(i) \ {c} \subseteq Owners(i)'
    PROVE  /\ Cardinality(Owners(i)) - 1 <= Cardinality(Owners(i)')
           /\ Cardinality(Owners(i)') \in Nat
<1> DEFINE before == Owners(i)
           after  == Owners(i)'
<1>1. IsFiniteSet(before) /\ IsFiniteSet(after)
  <2>1. IsFiniteSet(Channels)
    BY BoundAssumption, FS_Interval DEF Channels
  <2>2. before \in SUBSET Channels /\ after \in SUBSET Channels
    BY DEF Owners
  <2>3. QED BY <2>1, <2>2, FS_Subset
<1>2. before \ {c} \in SUBSET after
  OBVIOUS
<1> HIDE DEF before, after
<1>3. Cardinality(before \ {c}) <= Cardinality(after)
  BY <1>1, <1>2, FS_Subset
<1>4. /\ Cardinality(before) \in Nat /\ Cardinality(after) \in Nat
      /\ Cardinality(before \ {c}) = IF c \in before THEN Cardinality(before) - 1
                                    ELSE Cardinality(before)
  BY <1>1, FS_RemoveElement, FS_CardinalityType
<1>5. Cardinality(before) - 1 <= Cardinality(after)
  BY <1>3, <1>4
<1>6. QED BY <1>4, <1>5 DEF before, after

LEMMA DueIsNat ==
    ASSUME TypeOK, NEW i \in Ids
    PROVE  Due(i) \in Nat
BY DEF TypeOK, Due

\* What is due grows for no id, and no channel ceases to own a record.
LEMMA OwnersStay ==
    ASSUME TypeOK, number' \in [Ids -> Nat], Owned, copied \subseteq copied',
           \A i \in Ids \ copied' : number'[i] <= number[i],
           opening' = opening \/ opening' = NoChannel, uid' = uid,
           \A c \in Channels : Owns(c) => Owns(c)'
    PROVE  Owned'
<1>1. ASSUME NEW i \in Ids \ copied'
      PROVE  Due(i)' <= Cardinality(Owners(i)')
  <2>1. Owners(i) \subseteq Owners(i)'
    BY <1>1 DEF Owners
  <2>2. /\ Cardinality(Owners(i)) <= Cardinality(Owners(i)')
        /\ Cardinality(Owners(i)') \in Nat
    BY <2>1, MoreOwners
  <2>3. Due(i) <= Cardinality(Owners(i))
    BY <1>1 DEF Owned
  <2>4. /\ number[i] \in Nat /\ number'[i] \in Nat /\ number'[i] <= number[i]
        /\ Cardinality(Owners(i)) \in Nat
    BY <1>1, FiniteOwners DEF TypeOK
  <2>5. Due(i)' <= Due(i) /\ Due(i)' \in Nat /\ Due(i) \in Nat
    BY <2>4 DEF Due
  <2> HIDE DEF Due
  <2>6. QED BY <2>2, <2>3, <2>4, <2>5
<1>2. QED BY <1>1 DEF Owned

LEMMA InitIInv == Init => IInv
<1> SUFFICES ASSUME Init PROVE IInv
  OBVIOUS
<1>1. Cardinality({}) = 0
  BY FS_EmptySet
<1>2. TypeOK
  <2>1. /\ stage \in [Channels -> Stages] /\ uid \in [Channels -> Ids \cup {NoId}]
        /\ pending \in [Channels -> SUBSET Events] /\ dirty \in BOOLEAN /\ lock = "free"
    BY DEF Init, Stages
  <2>2. saved \in [{"open", "closing", "closed"} -> SUBSET Channels]
    BY DEF Init
  <2>3. /\ records \in Rows /\ number \in [Ids -> Nat] /\ bg = NoChannel
        /\ scheduled = 0 /\ todo \in [Jobs -> SUBSET (Channels \X BOOLEAN)]
    BY DEF Init, Rows
  <2>4. /\ kills \in 0 .. MaxKills /\ lost = {} /\ copied = {} /\ contested = {}
        /\ inLdk = FALSE /\ opening = NoChannel /\ held = {} /\ openItems = {}
    BY BoundAssumption DEF Init
  <2>5. QED BY <2>1, <2>2, <2>3, <2>4 DEF TypeOK
<1>3. Counted
  BY <1>1 DEF Init, Counted, HasRow
<1>4. Owned
  <2>1. ASSUME NEW i \in Ids
        PROVE  Due(i) <= Cardinality(Owners(i))
    <3>1. Due(i) = 0
      BY DEF Init, Due
    <3>2. QED BY <3>1, FiniteOwners
  <2>2. QED BY <2>1 DEF Owned
<1>5. Staged /\ Removing /\ Listed /\ Recorded /\ Opened
  BY DEF Init, Staged, Removing, Listed, Recorded, Opened, MayBeFunded, Funded, NoChannel, NoId
<1>6. QED BY <1>2, <1>3, <1>4, <1>5 DEF IInv

\* A step that leaves the stages, the events, the saved manager and the removal
\* under way as they are and takes no id out of the table keeps the invariant.
LEMMA TableSteps ==
    ASSUME IInv, TypeOK', Counted', Listed',
           UNCHANGED <<stage, uid, pending, saved, bg, number, lost, copied, opening>>,
           inLdk' => opening = NoChannel,
           \A k \in Ids : HasRow(k) => HasRow(k)'
    PROVE  IInv'
<1>1. Staged' /\ Removing'
  BY DEF IInv, Staged, Removing, Funded
<1>2. Recorded'
  BY DEF IInv, Recorded, MayBeFunded, Funded, Shared, Staged
<1>3. \A c \in Channels : Owns(c) => Owns(c)'
  BY DEF Owns, Live, Ending
<1>4. Owned'
  BY <1>3, OwnersStay DEF IInv, TypeOK
<1>5. Opened'
  BY DEF IInv, Opened
<1>6. QED BY <1>1, <1>2, <1>4, <1>5 DEF IInv

LEMMA ViewSteps ==
    ASSUME IInv, ShowChannels \/ Enter \/ ReadBalance
    PROVE  IInv'
<1>1. /\ UNCHANGED <<stage, uid, pending, saved, bg, records, number, lost, copied, todo>>
      /\ UNCHANGED opening /\ (inLdk' => opening = NoChannel)
  BY DEF ShowChannels, Enter, ReadBalance, MainQueueIsFree, ldk, table, jobs, history
<1>2. TypeOK'
  BY DEF ShowChannels, Enter, ReadBalance, ReadView, IInv, TypeOK, ldk, jobs, history, table
<1>3. Counted' /\ Listed' /\ \A k \in Ids : HasRow(k) => HasRow(k)'
  BY <1>1 DEF IInv, Counted, Listed, HasRow, table
<1>4. QED BY <1>1, <1>2, <1>3, TableSteps

LEMMA CreateSteps ==
    ASSUME IInv, CreateChannel
    PROVE  IInv'
<1>0. /\ UNCHANGED <<pending, dirty, lock, saved, held, openItems, records, number, bg>>
      /\ UNCHANGED <<scheduled, todo, kills, lost, copied, contested>>
      /\ inLdk' = FALSE /\ opening = NoChannel
  BY DEF CreateChannel, table, jobs, history, IInv, Opened
<1>1. CASE UNCHANGED <<stage, uid, opening>>
  <2>1. TypeOK'
    BY <1>0, <1>1 DEF IInv, TypeOK
  <2>2. Counted' /\ Listed' /\ \A k \in Ids : HasRow(k) => HasRow(k)'
    BY <1>0, <1>1 DEF IInv, Counted, Listed, HasRow
  <2>3. QED BY <1>0, <1>1, <2>1, <2>2, TableSteps
<1>2. ASSUME NEW c \in NextChannel, NEW i \in NewId(c),
             /\ stage' = [stage EXCEPT ![c] = "asked"]
             /\ uid' = [uid EXCEPT ![c] = i]
             /\ opening' = c
      PROVE  IInv'
  <2>2. c \in Channels /\ stage[c] = "none" /\ pending[c] = {} /\ c # NoChannel
    BY BoundAssumption DEF NextChannel, IInv, Staged, Channels, NoChannel
  <2>3. i \in Ids
    <3>1. CASE i = c
      BY <2>2, <3>1 DEF Ids
    <3>2. CASE \E d \in 1 .. c - 1 : i = uid[d]
      <4>1. PICK d \in 1 .. c - 1 : i = uid[d]
        BY <3>2
      <4>2. d \in Channels /\ stage[d] # "none"
        BY <1>2, <2>2, BoundAssumption DEF NextChannel, Channels
      <4>3. QED BY <4>1, <4>2 DEF IInv, Staged
    <3>3. QED BY <1>2, <3>1, <3>2 DEF NewId
  <2>6. /\ stage \in [Channels -> Stages] /\ uid \in [Channels -> Ids \cup {NoId}]
        /\ stage' \in [Channels -> Stages] /\ uid' \in [Channels -> Ids \cup {NoId}]
    BY <1>2, <2>3 DEF IInv, TypeOK, Stages
  <2>7. TypeOK'
    BY <1>0, <1>2, <2>2, <2>6 DEF IInv, TypeOK
  <2>8. \A d \in Channels : d # c => stage'[d] = stage[d] /\ uid'[d] = uid[d]
    BY <1>2, <2>2, <2>6
  <2>9. stage'[c] = "asked" /\ uid'[c] = i
    BY <1>2, <2>2, <2>6
  <2>10. Staged'
    BY <1>0, <2>2, <2>3, <2>8, <2>9 DEF IInv, Staged, Funded
  <2>11. Removing'
    BY <1>0, <2>2, <2>8 DEF IInv, Removing, TypeOK
  <2>12. Listed'
    <3>1. ASSUME NEW j \in Jobs, NEW e \in todo[j]
          PROVE  stage'[e[1]] # "none"
      <4>1. e[1] \in Channels /\ stage[e[1]] # "none"
        BY <3>1 DEF IInv, TypeOK, Listed
      <4>2. QED BY <4>1, <2>8, <2>9
    <3>2. QED BY <1>0, <3>1 DEF Listed
  <2>13. Recorded'
    <3>1. ASSUME NEW d \in Channels, MayBeFunded(d)', d # c
          PROVE  (HasRow(uid[d]) \/ Shared(d))'
      <4>1. MayBeFunded(d)
        BY <1>0, <2>8, <3>1 DEF MayBeFunded, Funded
      <4>2. stage[d] # "none" /\ uid[d] \in Ids /\ opening # d
        BY <1>0, <4>1, BoundAssumption
           DEF MayBeFunded, Funded, IInv, Staged, Channels, NoChannel
      <4>3. CASE HasRow(uid[d])
        BY <1>0, <2>8, <3>1, <4>2, <4>3 DEF HasRow
      <4>4. CASE Shared(d)
        <5>1. PICK e \in Channels : e # d /\ uid[e] = uid[d]
          BY <4>4 DEF Shared
        <5>2. e # c
          BY <2>2, <4>2, <5>1, BoundAssumption DEF IInv, Staged, NoId, Ids, Channels
        <5>3. QED BY <2>8, <3>1, <5>1, <5>2 DEF Shared
      <4>5. QED BY <4>1, <4>2, <4>3, <4>4 DEF IInv, Recorded
    <3>2. QED BY <1>2, <3>1 DEF Recorded
  <2>14. Owned'
    <3>1. ASSUME NEW d \in Channels, d # c, Owns(d)
          PROVE  Owns(d)'
      BY <1>0, <2>8, <3>1 DEF Owns, Live, Ending
    <3>2. ASSUME NEW k \in Ids \ copied
          PROVE  Due(k)' <= Cardinality(Owners(k)')
      <4>1. c \notin Owners(k)
        BY <2>2, <3>2, BoundAssumption DEF Owners, IInv, Staged, NoId, Ids, Channels
      <4>2. Owners(k) \subseteq Owners(k)'
        BY <2>8, <3>1, <4>1 DEF Owners
      <4>3. /\ number[k] <= Cardinality(Owners(k)) /\ number[k] \in Nat
            /\ Cardinality(Owners(k)) \in Nat
        <5>1. Due(k) = number[k] /\ number[k] \in Nat
          BY <1>0, <3>2 DEF Due, IInv, TypeOK
        <5>2. QED BY <3>2, <5>1, FiniteOwners DEF IInv, Owned
      <4>4. /\ Cardinality(Owners(k)) <= Cardinality(Owners(k)')
            /\ Cardinality(Owners(k)') \in Nat
        BY <4>2, MoreOwners
      <4>5. CASE k # i
        <5>1. Due(k)' = number[k]
          BY <1>0, <1>2, <2>9, <4>3, <4>5 DEF Due
        <5>2. QED BY <4>3, <4>4, <5>1
      <4>6. CASE k = i
        <5>1. c \in Owners(k)'
          BY <2>2, <2>9, <4>6 DEF Owners, Owns, Live
        <5>2. Cardinality(Owners(k)) + 1 <= Cardinality(Owners(k)')
          BY <4>1, <4>2, <5>1, OneMoreOwner
        <5>3. Due(k)' = number[k] + 1
          BY <1>0, <1>2, <2>2, <2>9, <4>6 DEF Due
        <5>4. QED BY <4>3, <4>4, <5>2, <5>3
      <4>7. QED BY <4>5, <4>6
    <3>3. QED BY <1>0, <3>2 DEF Owned
  <2>15. Counted'
    BY <1>0 DEF IInv, Counted, HasRow
  <2>16. Opened'
    BY <1>0, <1>2, <2>2, <2>9 DEF Opened, IInv, Staged, Funded
  <2>17. QED BY <2>7, <2>10, <2>11, <2>12, <2>13, <2>14, <2>15, <2>16 DEF IInv
<1>3. QED BY <1>1, <1>2 DEF CreateChannel

LEMMA RecordSteps ==
    ASSUME IInv, RecordChannel
    PROVE  IInv'
<1>1. uid[opening] \in Ids
  BY DEF RecordChannel, IInv, TypeOK, Opened, Staged
<1>2. PICK i \in Ids : i = uid[opening]
  BY <1>1
<1>3. /\ UNCHANGED <<stage, uid, pending, dirty, lock, saved, inLdk, openItems, bg>>
      /\ UNCHANGED <<scheduled, todo, kills, lost, contested>>
      /\ opening # NoChannel /\ opening' = NoChannel
      /\ AddNode(held, i) /\ held' = held \cup {i}
  BY <1>2 DEF RecordChannel, ldk, jobs
<1>4. /\ records' \in Rows /\ number' \in [Ids -> Nat] /\ copied' \subseteq Ids /\ Counted'
      /\ \A k \in Ids : HasRow(k) => HasRow(k)'
      /\ HasRow(i)'
      /\ copied \subseteq copied'
      /\ \A k \in Ids \ copied' :
            number'[k] = IF k = i THEN number[k] + 1 ELSE number[k]
  BY <1>3, <1>2, AddKeeps DEF IInv
<1>5. TypeOK'
  BY <1>3, <1>2, <1>4 DEF IInv, TypeOK
<1>6. Staged' /\ Removing' /\ Listed' /\ Opened'
  BY <1>3 DEF IInv, Staged, Removing, Listed, Opened, Funded
<1>7. Recorded'
  <2>1. ASSUME NEW d \in Channels, MayBeFunded(d)'
        PROVE  (HasRow(uid[d]) \/ Shared(d))'
    <3>1. MayBeFunded(d)
      BY <1>3, <2>1 DEF MayBeFunded, Funded
    <3>2. uid[d] \in Ids
      BY <3>1 DEF MayBeFunded, Funded, IInv, Staged
    <3>3. CASE opening = d
      <4>1. uid'[d] = i
        BY <1>3, <1>2, <3>3
      <4>2. QED BY <1>4, <4>1 DEF HasRow
    <3>4. CASE HasRow(uid[d])
      BY <1>3, <1>4, <3>2, <3>4 DEF HasRow
    <3>5. CASE Shared(d)
      BY <1>3, <3>5 DEF Shared
    <3>6. QED BY <3>1, <3>3, <3>4, <3>5 DEF IInv, Recorded
  <2>2. QED BY <2>1 DEF Recorded
<1>8. Owned'
  <2>1. ASSUME NEW k \in Ids \ copied'
        PROVE  Due(k)' <= Cardinality(Owners(k)')
    <3>1. Owners(k)' = Owners(k)
      BY <1>3 DEF Owners, Owns, Live, Ending
    <3>2. Due(k)' = Due(k)
      BY <1>3, <1>2, <1>4, <2>1 DEF Due, IInv, TypeOK
    <3>3. Due(k) <= Cardinality(Owners(k))
      BY <1>4, <2>1 DEF IInv, Owned
    <3>4. QED BY <3>1, <3>2, <3>3
  <2>2. QED BY <2>1 DEF Owned
<1>9. QED BY <1>4, <1>5, <1>6, <1>7, <1>8 DEF IInv

\* A step of one channel that takes no id out of the table, brings the channel no
\* closer to its funding than it was and does not bring it back.
LEMMA ChannelSteps ==
    ASSUME IInv, TypeOK', Counted', Removing', NEW c \in Channels,
           UNCHANGED <<uid, saved, todo, number, lost, copied, opening>>, inLdk' => inLdk,
           Owns(c) => Owns(c)', bg' = bg \/ bg = NoChannel,
           \A k \in Ids : HasRow(k) => HasRow(k)',
           \A d \in Channels \ {c} : stage'[d] = stage[d] /\ pending'[d] = pending[d],
           stage[c] # "none" /\ stage'[c] # "none",
           stage[c] = "gone" => stage'[c] = "gone",
           Funded(c) => Funded(c)' \/ stage'[c] = "gone",
           "closed" \in pending'[c] => stage'[c] = "gone",
           "ready" \in pending'[c] => stage'[c] \in {"ready", "gone"},
           MayBeFunded(c)' => MayBeFunded(c)
    PROVE  IInv'
<1>1. Staged'
  <2>1. ASSUME NEW d \in Channels
        PROVE  /\ stage'[d] = "none" => uid[d] = NoId /\ pending'[d] = {}
               /\ stage'[d] # "none" => uid[d] \in Ids
               /\ "closed" \in pending'[d] => stage'[d] = "gone"
               /\ "ready" \in pending'[d] => stage'[d] \in {"ready", "gone"}
               /\ d \in saved.open \cup saved.closing => Funded(d)' \/ stage'[d] = "gone"
               /\ d \in saved.closed => stage'[d] = "gone"
    <3>1. CASE d = c
      BY <3>1 DEF IInv, Staged
    <3>2. CASE d # c
      BY <3>2 DEF IInv, Staged, Funded
    <3>3. QED BY <3>1, <3>2
  <2>2. QED BY <2>1 DEF Staged, Funded
<1>2. Listed'
  <2>1. ASSUME NEW j \in Jobs, NEW e \in todo[j]
        PROVE  stage'[e[1]] # "none"
    <3>1. e[1] \in Channels /\ stage[e[1]] # "none"
      BY <2>1 DEF IInv, TypeOK, Listed
    <3>2. QED BY <3>1
  <2>2. QED BY <2>1 DEF Listed
<1>3. Recorded'
  <2>1. ASSUME NEW d \in Channels, MayBeFunded(d)'
        PROVE  (HasRow(uid[d]) \/ opening = d \/ Shared(d))'
    <3>1. MayBeFunded(d)
      <4>1. CASE d = c
        BY <2>1, <4>1
      <4>2. CASE d # c
        BY <2>1, <4>2 DEF MayBeFunded, Funded
      <4>3. QED BY <4>1, <4>2
    <3>2. uid[d] \in Ids
      BY <3>1 DEF MayBeFunded, Funded, IInv, Staged
    <3>3. CASE HasRow(uid[d])
      BY <3>2, <3>3 DEF HasRow
    <3>4. CASE Shared(d)
      BY <3>4 DEF Shared
    <3>5. QED BY <3>1, <3>3, <3>4 DEF IInv, Recorded
  <2>2. QED BY <2>1 DEF Recorded
<1>4. Owned'
  <2>1. ASSUME NEW d \in Channels, Owns(d)
        PROVE  Owns(d)'
    <3>1. CASE d = c
      BY <2>1, <3>1
    <3>2. CASE d # c
      BY <2>1, <3>2, BoundAssumption DEF Owns, Live, Ending, NoChannel, Channels
    <3>3. QED BY <3>1, <3>2
  <2>2. QED BY <2>1, OwnersStay DEF IInv, TypeOK
<1>5. Opened'
  <2>1. opening # NoChannel => opening \in Channels
    BY DEF IInv, TypeOK
  <2>2. QED BY <2>1 DEF IInv, Opened
<1>6. QED BY <1>1, <1>2, <1>3, <1>4, <1>5 DEF IInv

LEMMA CloseSteps ==
    ASSUME IInv, CloseChannel
    PROVE  IInv'
<1>1. CASE UNCHANGED <<openItems, table, stage, pending, dirty>>
  <2>1. /\ UNCHANGED <<stage, uid, pending, saved, bg, records, number, lost, copied, todo>>
        /\ UNCHANGED opening /\ inLdk' = FALSE
    BY <1>1 DEF CloseChannel, jobs, table, history
  <2>2. TypeOK'
    BY <1>1 DEF CloseChannel, IInv, TypeOK, jobs, table, history
  <2>3. Counted' /\ Listed' /\ \A k \in Ids : HasRow(k) => HasRow(k)'
    BY <2>1 DEF IInv, Counted, Listed, HasRow, table
  <2>4. QED BY <2>1, <2>2, <2>3, TableSteps
<1>2. ASSUME NEW i \in openItems, NEW c \in Channels,
             /\ Live(c) /\ uid[c] = i /\ stage[c] # "closing"
             /\ openItems' = openItems \ {i}
             /\ WriteState(i, "closed")
             /\ stage' = [stage EXCEPT ![c] = IF Funded(c) THEN "closing" ELSE "gone"]
             /\ pending' = [pending EXCEPT ![c] = IF Funded(c) THEN @ ELSE @ \cup {"closed"}]
             /\ dirty' = TRUE
      PROVE  IInv'
  <2>1. i \in Ids /\ "closed" \in States
    BY DEF IInv, TypeOK, States
  <2>2. /\ UNCHANGED <<uid, lock, saved, held, bg, scheduled, todo, kills, lost, copied, contested>>
        /\ UNCHANGED opening /\ inLdk' = FALSE
    BY DEF CloseChannel, jobs, history
  <2>3. /\ records' \in Rows /\ number' = number /\ Counted'
        /\ \A k \in Ids : HasRow(k) => HasRow(k)'
    BY <1>2, <2>1, <2>2, WriteKeeps DEF IInv
  <2>4. /\ stage' \in [Channels -> Stages] /\ pending' \in [Channels -> SUBSET Events]
        /\ stage'[c] = IF Funded(c) THEN "closing" ELSE "gone"
        /\ pending'[c] = IF Funded(c) THEN pending[c] ELSE pending[c] \cup {"closed"}
        /\ \A d \in Channels \ {c} : stage'[d] = stage[d] /\ pending'[d] = pending[d]
    BY <1>2 DEF IInv, TypeOK, Stages, Events
  <2>5. TypeOK'
    BY <1>2, <2>2, <2>3, <2>4 DEF IInv, TypeOK
  <2>6. Removing'
    BY <2>2, <2>4 DEF IInv, Removing, TypeOK, Funded
  <2>7. /\ stage[c] # "none" /\ stage'[c] # "none"
        /\ stage[c] = "gone" => stage'[c] = "gone"
        /\ Funded(c) => Funded(c)' \/ stage'[c] = "gone"
        /\ "closed" \in pending'[c] => stage'[c] = "gone"
        /\ "ready" \in pending'[c] => stage'[c] \in {"ready", "gone"}
        /\ MayBeFunded(c)' => MayBeFunded(c)
    BY <1>2, <2>4 DEF Live, Funded, MayBeFunded, IInv, Staged
  <2>8. Owns(c)'
    BY <2>4 DEF Owns, Live, Ending
  <2>9. QED BY <2>2, <2>3, <2>4, <2>5, <2>6, <2>7, <2>8, ChannelSteps
<1>3. QED BY <1>1, <1>2 DEF CloseChannel

LEMMA LdkSteps ==
    ASSUME IInv, NEW c \in Channels,
           Accepted(c) \/ BecomesUsable(c) \/ PeerLeaves(c) \/ ChannelEnds(c)
    PROVE  IInv'
<1>1. PICK to \in {"ready", "usable", "funded", "gone"} :
        /\ LdkMoves(c, to)
        /\ \/ to = "ready" /\ stage[c] = "asked"
              /\ pending' = [pending EXCEPT ![c] = @ \cup {"ready"}]
           \/ to \in {"usable", "funded"} /\ Funded(c) /\ pending' = pending
           \/ to = "gone" /\ Live(c) /\ pending' = [pending EXCEPT ![c] = @ \cup {"closed"}]
  BY DEF Accepted, BecomesUsable, PeerLeaves, ChannelEnds, Funded
<1>2. /\ UNCHANGED <<uid, lock, saved, inLdk, opening, held, openItems, records, number, bg>>
      /\ UNCHANGED <<scheduled, todo, kills, lost, copied, contested>>
      /\ dirty' = TRUE /\ stage' = [stage EXCEPT ![c] = to]
  BY <1>1 DEF LdkMoves, view, table, jobs, history
<1>3. /\ stage' \in [Channels -> Stages] /\ pending' \in [Channels -> SUBSET Events]
      /\ stage'[c] = to
      /\ \A d \in Channels \ {c} : stage'[d] = stage[d] /\ pending'[d] = pending[d]
  BY <1>1, <1>2 DEF IInv, TypeOK, Stages, Events
<1>4. pending'[c] \subseteq pending[c] \cup (IF to = "ready" THEN {"ready"} ELSE {})
                                       \cup (IF to = "gone" THEN {"closed"} ELSE {})
  BY <1>1, <1>2 DEF IInv, TypeOK
<1>5. TypeOK'
  BY <1>2, <1>3 DEF IInv, TypeOK
<1>6. Counted' /\ \A k \in Ids : HasRow(k) => HasRow(k)'
  BY <1>2 DEF IInv, Counted, HasRow
<1>7. Removing'
  <2>1. CASE bg = c
    BY <1>1, <1>2, <1>3, <1>4, <2>1 DEF IInv, Removing, NoChannel, Funded
  <2>2. CASE bg # c
    BY <1>2, <1>3, <2>2 DEF IInv, Removing, TypeOK
  <2>3. QED BY <2>1, <2>2
<1>8. /\ stage[c] # "none" /\ stage'[c] # "none"
      /\ stage[c] = "gone" => stage'[c] = "gone"
      /\ Funded(c) => Funded(c)' \/ stage'[c] = "gone"
      /\ "closed" \in pending'[c] => stage'[c] = "gone"
      /\ "ready" \in pending'[c] => stage'[c] \in {"ready", "gone"}
      /\ MayBeFunded(c)' => MayBeFunded(c)
  <2>1. /\ "closed" \in pending[c] => stage[c] = "gone"
        /\ "ready" \in pending[c] => stage[c] \in {"ready", "gone"}
    BY DEF IInv, Staged
  <2>2. CASE to = "ready"
    <3>1. stage[c] = "asked" /\ stage'[c] = "ready" /\ pending'[c] \subseteq pending[c] \cup {"ready"}
      BY <1>1, <1>3, <1>4, <2>2
    <3>2. "closed" \notin pending'[c]
      BY <2>1, <3>1
    <3>3. QED BY <3>1, <3>2 DEF Funded, MayBeFunded
  <2>3. CASE to \in {"usable", "funded"}
    BY <1>1, <1>3, <1>4, <2>1, <2>3 DEF Funded, MayBeFunded
  <2>4. CASE to = "gone"
    BY <1>1, <1>3, <1>4, <2>1, <2>4 DEF Live, Funded, MayBeFunded
  <2>5. QED BY <1>1, <2>2, <2>3, <2>4
<1>9. Owns(c)'
  BY <1>1, <1>2, <1>3 DEF Owns, Live, Ending, IInv, TypeOK
<1>10. QED BY <1>2, <1>3, <1>5, <1>6, <1>7, <1>8, <1>9, ChannelSteps

LEMMA LockSteps ==
    ASSUME IInv, LockForUpdate \/ WriteMonitor
    PROVE  IInv'
<1>1. /\ UNCHANGED <<stage, uid, pending, saved, bg, records, number, lost, copied, todo>>
      /\ UNCHANGED opening /\ (inLdk' => opening = NoChannel)
  BY DEF LockForUpdate, WriteMonitor, view, jobs, table, history, IInv, Opened
<1>2. TypeOK'
  BY DEF LockForUpdate, WriteMonitor, IInv, TypeOK, view, jobs, history, table
<1>3. Counted' /\ Listed' /\ \A k \in Ids : HasRow(k) => HasRow(k)'
  BY <1>1 DEF IInv, Counted, Listed, HasRow, table
<1>4. QED BY <1>1, <1>2, <1>3, TableSteps

LEMMA ReadySteps ==
    ASSUME IInv, NEW c \in Channels, HandleReady(c)
    PROVE  IInv'
<1>1. /\ UNCHANGED <<uid, lock, saved, inLdk, opening, held, openItems, records, number>>
      /\ UNCHANGED <<scheduled, todo, kills, lost, copied, contested>>
      /\ bg = NoChannel /\ "ready" \in pending[c]
  BY DEF HandleReady, view, table, jobs, history
<1>2. stage[c] \in {"ready", "gone"}
  BY <1>1 DEF IInv, Staged
<1>3. \/ /\ stage[c] = "ready" /\ stage' = [stage EXCEPT ![c] = "funded"] /\ bg' = bg
         /\ pending' = [pending EXCEPT ![c] = @ \ {"ready"}] /\ dirty' = TRUE
      \/ /\ stage' = [stage EXCEPT ![c] = stage[c]] /\ bg' = c
         /\ pending' = [pending EXCEPT ![c] = @ \ {"ready"}] /\ dirty' = dirty
      \/ /\ stage' = [stage EXCEPT ![c] = "gone"] /\ bg' = c
         /\ pending' = [pending EXCEPT ![c] = {"closed"}] /\ dirty' = TRUE
  BY DEF HandleReady, IInv, TypeOK
<1>4. /\ stage' \in [Channels -> Stages] /\ pending' \in [Channels -> SUBSET Events]
      /\ bg' \in Channels \cup {NoChannel} /\ dirty' \in BOOLEAN
      /\ \A d \in Channels \ {c} : stage'[d] = stage[d] /\ pending'[d] = pending[d]
  <2>1. /\ stage \in [Channels -> Stages] /\ pending \in [Channels -> SUBSET Events]
        /\ bg \in Channels \cup {NoChannel} /\ dirty \in BOOLEAN
        /\ stage[c] \in Stages /\ "funded" \in Stages /\ "gone" \in Stages
        /\ pending[c] \ {"ready"} \in SUBSET Events /\ {"closed"} \in SUBSET Events
    BY DEF IInv, TypeOK, Stages, Events
  <2>2. QED BY <1>1, <1>3, <2>1
<1>5. \/ stage[c] = "ready" /\ stage'[c] = "funded" /\ pending'[c] = pending[c] \ {"ready"}
         /\ bg' = NoChannel
      \/ stage'[c] = stage[c] /\ bg' = c /\ pending'[c] = pending[c] \ {"ready"}
      \/ stage'[c] = "gone" /\ bg' = c /\ pending'[c] = {"closed"}
  BY <1>1, <1>3 DEF IInv, TypeOK
<1>6. TypeOK'
  BY <1>1, <1>4 DEF IInv, TypeOK
<1>7. Counted' /\ \A k \in Ids : HasRow(k) => HasRow(k)'
  BY <1>1 DEF IInv, Counted, HasRow
<1>8. Removing'
  BY <1>2, <1>5 DEF Removing
<1>9. "closed" \in pending[c] => stage[c] = "gone"
  BY DEF IInv, Staged
<1>10. /\ stage[c] # "none" /\ stage'[c] # "none"
       /\ stage[c] = "gone" => stage'[c] = "gone"
       /\ Funded(c) => Funded(c)' \/ stage'[c] = "gone"
       /\ "closed" \in pending'[c] => stage'[c] = "gone"
       /\ "ready" \in pending'[c] => stage'[c] \in {"ready", "gone"}
       /\ MayBeFunded(c)' => MayBeFunded(c)
  BY <1>1, <1>2, <1>5, <1>9 DEF Funded, MayBeFunded
<1>11. Owns(c)'
  BY <1>5 DEF Owns, Live, Ending
<1>12. QED BY <1>1, <1>4, <1>6, <1>7, <1>8, <1>10, <1>11, ChannelSteps

LEMMA ClosedSteps ==
    ASSUME IInv, NEW c \in Channels, HandleClosed(c)
    PROVE  IInv'
<1>1. /\ UNCHANGED <<stage, uid, dirty, lock, saved, inLdk, opening, held, openItems, records, number>>
      /\ UNCHANGED <<scheduled, todo, kills, lost, copied, contested>>
      /\ pending[c] = {"closed"} /\ bg = NoChannel /\ bg' = c
      /\ pending' = [pending EXCEPT ![c] = {}]
  BY DEF HandleClosed, view, table, jobs, history
<1>2. stage[c] = "gone"
  BY <1>1 DEF IInv, Staged
<1>3. /\ pending' \in [Channels -> SUBSET Events] /\ pending'[c] = {}
      /\ \A d \in Channels \ {c} : stage'[d] = stage[d] /\ pending'[d] = pending[d]
  BY <1>1 DEF IInv, TypeOK
<1>4. TypeOK'
  BY <1>1, <1>3 DEF IInv, TypeOK
<1>5. Counted' /\ \A k \in Ids : HasRow(k) => HasRow(k)'
  BY <1>1 DEF IInv, Counted, HasRow
<1>6. Removing'
  BY <1>1, <1>2, <1>3 DEF Removing
<1>7. ~Funded(c) /\ (MayBeFunded(c)' => MayBeFunded(c))
  BY <1>1, <1>2 DEF Funded, MayBeFunded
<1>8. Owns(c)'
  BY <1>1 DEF Owns, Ending
<1>9. QED BY <1>1, <1>2, <1>3, <1>4, <1>5, <1>6, <1>7, <1>8, ChannelSteps

\* Only the record of a channel that can no longer be funded is removed.
LEMMA RemoveSteps ==
    ASSUME IInv, FinishRemove
    PROVE  IInv'
<1>1. /\ UNCHANGED <<stage, uid, pending, dirty, lock, saved, inLdk, opening, held, openItems>>
      /\ UNCHANGED <<scheduled, todo, kills, lost, copied, contested>>
      /\ bg \in Channels /\ bg' = NoChannel /\ RemoveRecord(uid[bg]) /\ opening = NoChannel
  BY DEF FinishRemove, MainQueueIsFree, ldk, view, jobs, history, IInv, TypeOK
<1>2. /\ stage[bg] \in {"ready", "gone"} /\ "ready" \notin pending[bg] /\ uid[bg] \in Ids
  BY <1>1 DEF FinishRemove, IInv, Removing, Staged
<1>3. /\ records' \in Rows /\ number' \in [Ids -> Nat] /\ Counted'
      /\ \A k \in Ids \ {uid[bg]} : HasRow(k) => HasRow(k)'
      /\ \A k \in Ids \ {uid[bg]} : number'[k] = number[k]
      /\ uid[bg] \notin copied =>
            number'[uid[bg]] = IF number[uid[bg]] > 0 THEN number[uid[bg]] - 1
                               ELSE number[uid[bg]]
  BY <1>1, <1>2, RemoveKeeps DEF IInv
<1>4. TypeOK'
  BY <1>1, <1>3 DEF IInv, TypeOK
<1>5. Staged' /\ Listed'
  BY <1>1 DEF IInv, Staged, Listed, Funded
<1>6. Removing'
  BY <1>1 DEF Removing
<1>7. Recorded'
  <2>1. ASSUME NEW d \in Channels, MayBeFunded(d)'
        PROVE  (HasRow(uid[d]) \/ Shared(d))'
    <3>1. MayBeFunded(d)
      BY <1>1, <2>1 DEF MayBeFunded, Funded
    <3>2. uid[d] \in Ids /\ d # bg /\ opening # d
      BY <1>1, <1>2, <3>1, BoundAssumption
         DEF MayBeFunded, Funded, IInv, Staged, Channels, NoChannel
    <3>3. CASE uid[d] = uid[bg]
      BY <1>1, <3>2, <3>3 DEF Shared
    <3>4. CASE uid[d] # uid[bg] /\ HasRow(uid[d])
      BY <1>1, <1>3, <3>2, <3>4 DEF HasRow
    <3>5. CASE Shared(d)
      BY <1>1, <3>5 DEF Shared
    <3>6. QED BY <3>1, <3>2, <3>3, <3>4, <3>5 DEF IInv, Recorded
  <2>2. QED BY <2>1 DEF Recorded
<1>8. Owned'
  <2>1. ASSUME NEW d \in Channels, d # bg, Owns(d)
        PROVE  Owns(d)'
    BY <1>1, <2>1 DEF Owns, Live, Ending
  <2>2. ASSUME NEW k \in Ids \ copied
        PROVE  Due(k)' <= Cardinality(Owners(k)')
    <3>0. Due(k) = number[k] /\ Due(k)' = number'[k] /\ number[k] \in Nat
      BY <1>1, <1>3, <2>2 DEF Due, IInv, TypeOK
    <3>1. /\ number[k] <= Cardinality(Owners(k)) /\ number[k] \in Nat
          /\ Cardinality(Owners(k)) \in Nat
      BY <2>2, <3>0, FiniteOwners DEF IInv, Owned
    <3>2. Owners(k) \ {bg} \subseteq Owners(k)'
      BY <1>1, <2>1 DEF Owners
    <3>3. /\ Cardinality(Owners(k)) - 1 <= Cardinality(Owners(k)')
          /\ Cardinality(Owners(k)') \in Nat
      BY <3>2, OneOwnerLess
    <3>4. CASE k = uid[bg]
      BY <1>3, <2>2, <3>0, <3>1, <3>3, <3>4
    <3>5. CASE k # uid[bg]
      <4>1. Owners(k) \subseteq Owners(k)'
        BY <1>1, <2>1, <3>5 DEF Owners
      <4>2. QED BY <1>3, <2>2, <3>0, <3>1, <3>3, <3>5, <4>1, MoreOwners
    <3>6. QED BY <3>4, <3>5
  <2>3. QED BY <1>1, <2>2 DEF Owned
<1>9. Opened'
  BY <1>1 DEF Opened
<1>10. QED BY <1>3, <1>4, <1>5, <1>6, <1>7, <1>8, <1>9 DEF IInv

LEMMA PersistSteps ==
    ASSUME IInv, PersistManager
    PROVE  IInv'
<1>1. /\ UNCHANGED <<stage, uid, pending, lock, inLdk, opening, held, openItems, records, number>>
      /\ UNCHANGED <<bg, todo, kills, lost, copied, contested>>
      /\ dirty' = FALSE /\ scheduled' = scheduled + 1
      /\ saved' = [open    |-> {c \in Channels : stage[c] \in {"funded", "usable"}},
                   closing |-> {c \in Channels : stage[c] = "closing"},
                   closed  |-> {c \in Channels : "closed" \in pending[c]}]
      /\ opening = NoChannel
  BY DEF PersistManager, MainQueueIsFree, view, table, history
<1>2. saved' \in [{"open", "closing", "closed"} -> SUBSET Channels]
  BY <1>1
<1>3. TypeOK'
  <2>1. dirty' = FALSE /\ scheduled' = scheduled + 1
    BY <1>1
  <2>2. scheduled \in Nat
    BY DEF IInv, TypeOK
  <2>3. scheduled' \in Nat
    BY <2>1, <2>2
  <2>4. dirty' \in BOOLEAN
    BY <2>1
  <2>5. QED BY <1>1, <1>2, <2>3, <2>4 DEF IInv, TypeOK
<1>4. /\ saved'.open = {c \in Channels : stage[c] \in {"funded", "usable"}}
      /\ saved'.closing = {c \in Channels : stage[c] = "closing"}
      /\ saved'.closed = {c \in Channels : "closed" \in pending[c]}
  BY <1>1
<1>5. Staged'
  BY <1>1, <1>4 DEF IInv, Staged, Funded
<1>6. Counted' /\ Listed' /\ Removing' /\ Recorded'
  BY <1>1 DEF IInv, Counted, Listed, Removing, Recorded, MayBeFunded, Funded, HasRow, Shared
<1>7. \A c \in Channels : Owns(c) => Owns(c)'
  BY <1>1 DEF Owns, Live, Ending
<1>8. Owned'
  BY <1>1, <1>7, OwnersStay DEF IInv, TypeOK
<1>9. Opened'
  BY <1>1 DEF Opened
<1>10. QED BY <1>3, <1>5, <1>6, <1>8, <1>9 DEF IInv

LEMMA ShrinkEntry ==
    ASSUME NEW T, NEW f \in [Jobs -> SUBSET T], NEW j \in Jobs, NEW e
    PROVE  LET g == [f EXCEPT ![j] = f[j] \ {e}] IN
           g \in [Jobs -> SUBSET T] /\ \A k \in Jobs : g[k] \subseteq f[k]
OBVIOUS

LEMMA JobSteps ==
    ASSUME IInv, NEW j \in Jobs, JobStart(j) \/ UpdateRecord(j)
    PROVE  IInv'
<1>1. CASE JobStart(j)
  <2>1. /\ UNCHANGED <<stage, uid, pending, dirty, lock, saved, inLdk, opening, held, openItems>>
        /\ UNCHANGED <<records, number, bg, kills, lost, copied>> /\ contested' \subseteq Channels
        /\ scheduled' = scheduled - 1 /\ scheduled > 0
        /\ todo' = [todo EXCEPT ![j] =
              {<<c, stage[c] = "usable">> : c \in {d \in Channels : Live(d)}}]
    BY <1>1 DEF JobStart, ldk, view, table, history
  <2>2. /\ todo' \in [Jobs -> SUBSET (Channels \X BOOLEAN)] /\ scheduled' \in Nat
        /\ todo'[j] = {<<c, stage[c] = "usable">> : c \in {d \in Channels : Live(d)}}
        /\ \A k \in Jobs \ {j} : todo'[k] = todo[k]
    <3> DEFINE list == {<<c, stage[c] = "usable">> : c \in {d \in Channels : Live(d)}}
    <3>1. list \in SUBSET (Channels \X BOOLEAN)
      <4>1. ASSUME NEW e \in list
            PROVE  e \in Channels \X BOOLEAN
        <5>1. PICK c \in Channels : e = <<c, stage[c] = "usable">>
          OBVIOUS
        <5>2. \E b \in BOOLEAN : b = (stage[c] = "usable")
          BY Zenon
        <5>3. PICK b \in BOOLEAN : b = (stage[c] = "usable")
          BY <5>2
        <5>4. e = <<c, b>>
          BY <5>1, <5>3, Zenon
        <5>5. QED BY <5>4
      <4>2. QED BY <4>1
    <3>2. /\ todo \in [Jobs -> SUBSET (Channels \X BOOLEAN)] /\ scheduled \in Nat
          /\ todo' = [todo EXCEPT ![j] = list]
          /\ scheduled' = scheduled - 1 /\ scheduled > 0
      BY <2>1 DEF IInv, TypeOK
    <3> HIDE DEF list
    <3>3. /\ todo' \in [Jobs -> SUBSET (Channels \X BOOLEAN)] /\ scheduled' \in Nat
          /\ todo'[j] = list /\ \A k \in Jobs \ {j} : todo'[k] = todo[k]
      BY <3>1, <3>2
    <3>4. QED BY <3>3 DEF list
  <2>3. TypeOK'
    BY <2>1, <2>2 DEF IInv, TypeOK
  <2>4. Listed'
    BY <2>1, <2>2 DEF IInv, Listed, Live
  <2>5. Counted' /\ \A k \in Ids : HasRow(k) => HasRow(k)'
    BY <2>1 DEF IInv, Counted, HasRow
  <2>6. inLdk' => opening = NoChannel
    BY <2>1 DEF IInv, Opened
  <2>7. QED BY <2>1, <2>3, <2>4, <2>5, <2>6, TableSteps
<1>2. CASE UpdateRecord(j)
  <2>1. /\ UNCHANGED <<stage, uid, pending, dirty, lock, saved, inLdk, opening, held, openItems>>
        /\ UNCHANGED <<bg, scheduled, kills, lost, copied, contested>>
    BY <1>2 DEF UpdateRecord, ldk, view, history
  <2>2. PICK e \in todo[j] :
          /\ todo' = [todo EXCEPT ![j] = @ \ {e}]
          /\ WriteState(uid[e[1]], StateFor(e[2])) \/ UNCHANGED table
    BY <1>2 DEF UpdateRecord
  <2>3. uid[e[1]] \in Ids /\ StateFor(e[2]) \in States
    <3>1. e[1] \in Channels /\ stage[e[1]] # "none"
      BY <2>2 DEF IInv, TypeOK, Listed
    <3>2. QED BY <3>1 DEF IInv, Staged, StateFor, States
  <2>4. /\ records' \in Rows /\ number' = number /\ Counted'
        /\ \A k \in Ids : HasRow(k) => HasRow(k)'
    <3>1. CASE WriteState(uid[e[1]], StateFor(e[2]))
      BY <2>1, <2>3, <3>1, WriteKeeps DEF IInv
    <3>2. CASE UNCHANGED table
      BY <2>1, <3>2 DEF IInv, TypeOK, Counted, HasRow, table
    <3>3. QED BY <2>2, <3>1, <3>2
  <2>5. /\ todo' \in [Jobs -> SUBSET (Channels \X BOOLEAN)]
        /\ \A k \in Jobs : todo'[k] \subseteq todo[k]
    <3>1. /\ todo \in [Jobs -> SUBSET (Channels \X BOOLEAN)]
          /\ todo' = [todo EXCEPT ![j] = todo[j] \ {e}]
      BY <2>2 DEF IInv, TypeOK
    <3>2. QED BY <3>1, ShrinkEntry
  <2>6. TypeOK'
    BY <2>1, <2>4, <2>5 DEF IInv, TypeOK
  <2>7. Listed'
    BY <2>1, <2>5 DEF IInv, Listed
  <2>8. inLdk' => opening = NoChannel
    BY <2>1 DEF IInv, Opened
  <2>9. QED BY <2>1, <2>4, <2>6, <2>7, <2>8, TableSteps
<1>3. QED BY <1>1, <1>2

\* A restart brings back only channels that were funded, tells of the others it had
\* a monitor of, and keeps the table.
LEMMA KillSteps ==
    ASSUME IInv, Kill
    PROVE  IInv'
<1> DEFINE told(u)    == saved.closed \cup u
           next(u, c) == IF stage[c] = "none" THEN "none"
                         ELSE IF c \in saved.open \ u THEN "funded"
                         ELSE IF c \in saved.closing \ u THEN "closing" ELSE "gone"
<1>1. PICK u \in SUBSET (saved.open \cup saved.closing) :
        /\ {c \in saved.open \cup saved.closing : stage[c] = "gone"} \subseteq u
        /\ kills < MaxKills /\ kills' = kills + 1
        /\ stage' = [c \in Channels |-> next(u, c)]
        /\ pending' = [c \in Channels |-> IF c \in told(u) THEN {"closed"} ELSE {}]
        /\ lost' = lost \cup {c \in Channels : /\ Live(c) \/ Ending(c)
                                               /\ next(u, c) = "gone" /\ c \notin told(u)}
        /\ dirty' = TRUE /\ lock' = "free" /\ inLdk' = FALSE
        /\ opening' = NoChannel /\ ReadView /\ bg' = NoChannel
        /\ scheduled' = 0 /\ todo' = [j \in Jobs |-> {}]
        /\ contested' = {} /\ UNCHANGED <<uid, saved, table, copied>>
  BY DEF Kill
<1>2. UNCHANGED <<uid, saved, records, number, copied>>
  BY <1>1 DEF table
<1>3. /\ saved.open \subseteq Channels /\ saved.closing \subseteq Channels
      /\ saved.closed \subseteq Channels
  BY DEF IInv, TypeOK
<1>4. ASSUME NEW c \in Channels
      PROVE  /\ stage'[c] = "none" <=> stage[c] = "none"
             /\ stage'[c] \in {"none", "funded", "closing", "gone"}
             /\ stage'[c] \in {"funded", "closing"} => Funded(c)
             /\ c \in told(u) => stage'[c] = "gone"
             /\ c \in saved.open \cup saved.closing => Funded(c)' \/ stage'[c] = "gone"
             /\ pending'[c] = IF c \in told(u) THEN {"closed"} ELSE {}
             /\ stage'[c] \in {"funded", "closing"} => c \in saved.open \cup saved.closing
  <2>1. /\ stage'[c] = next(u, c)
        /\ pending'[c] = IF c \in told(u) THEN {"closed"} ELSE {}
    BY <1>1, <1>4
  <2>2. /\ c \in saved.open \cup saved.closing => Funded(c) \/ stage[c] = "gone"
        /\ c \in saved.closed => stage[c] = "gone"
        /\ stage[c] = "gone" /\ c \in saved.open \cup saved.closing => c \in u
    BY <1>1, <1>4 DEF IInv, Staged
  <2>3. stage'[c] = IF stage[c] = "none" THEN "none"
                    ELSE IF c \in saved.open \ u THEN "funded"
                    ELSE IF c \in saved.closing \ u THEN "closing" ELSE "gone"
    BY <2>1
  <2>5. QED BY <1>1, <2>1, <2>2, <2>3 DEF Funded
<1>5. TypeOK'
  <2>1. stage' \in [Channels -> Stages] /\ pending' \in [Channels -> SUBSET Events]
    <3>1. /\ DOMAIN stage' = Channels /\ DOMAIN pending' = Channels
          /\ \A c \in Channels : stage'[c] \in Stages /\ pending'[c] \in SUBSET Events
      BY <1>1, <1>4 DEF Stages, Events
    <3>2. QED BY <1>1, <3>1
  <2>2. /\ kills' \in 0 .. MaxKills /\ lost' \subseteq Channels
        /\ todo' \in [Jobs -> SUBSET (Channels \X BOOLEAN)]
        /\ held' \subseteq Ids /\ openItems' \subseteq Ids
    BY <1>1, BoundAssumption DEF ReadView, IInv, TypeOK
  <2>3. QED BY <1>1, <1>2, <2>1, <2>2 DEF IInv, TypeOK
<1>6. Counted'
  BY <1>2 DEF IInv, Counted, HasRow
<1>7. Staged'
  BY <1>1, <1>2, <1>4 DEF IInv, Staged, Funded
<1>8. Removing' /\ Listed' /\ Opened'
  BY <1>1 DEF Removing, Listed, Opened
<1>9. Recorded'
  <2>1. ASSUME NEW c \in Channels, MayBeFunded(c)'
        PROVE  (HasRow(uid[c]) \/ Shared(c))'
    <3>1. MayBeFunded(c)
      BY <1>4, <2>1 DEF MayBeFunded, Funded
    <3>2. opening # c
      BY <1>4, <2>1, BoundAssumption
         DEF MayBeFunded, Funded, IInv, Opened, NoChannel, Channels
    <3>3. HasRow(uid[c]) \/ Shared(c)
      BY <3>1, <3>2 DEF IInv, Recorded
    <3>4. QED BY <1>2, <3>3 DEF HasRow, Shared
  <2>2. QED BY <2>1 DEF Recorded
<1>10. Owned'
  <2>1. ASSUME NEW c \in Channels, Owns(c)
        PROVE  Owns(c)'
    <3>1. CASE c \in lost
      BY <1>1, <3>1 DEF Owns
    <3>2. CASE (Live(c) \/ Ending(c)) /\ c \notin lost
      <4>1. stage[c] # "none"
        BY <3>2, BoundAssumption
           DEF Live, Ending, IInv, Staged, Removing, NoChannel, Channels
      <4>2. CASE stage'[c] # "gone"
        BY <1>4, <4>1, <4>2 DEF Owns, Live
      <4>3. CASE stage'[c] = "gone" /\ c \in told(u)
        BY <1>4, <4>3 DEF Owns, Ending
      <4>4. CASE stage'[c] = "gone" /\ c \notin told(u)
        BY <1>1, <3>2, <4>4 DEF Owns
      <4>5. QED BY <4>2, <4>3, <4>4
    <3>3. QED BY <2>1, <3>1, <3>2 DEF Owns
  <2>2. QED BY <1>1, <1>2, <2>1, OwnersStay DEF IInv, TypeOK
<1>11. QED BY <1>5, <1>6, <1>7, <1>8, <1>9, <1>10 DEF IInv

LEMMA Inductive == Spec => []IInv
<1>1. IInv /\ [Next]_vars => IInv'
  <2> SUFFICES ASSUME IInv, [Next]_vars PROVE IInv'
    OBVIOUS
  <2>1. CASE Main
    BY <2>1, ViewSteps, CreateSteps, RecordSteps, CloseSteps DEF Main
  <2>2. CASE Ldk
    BY <2>2, LdkSteps, LockSteps DEF Ldk
  <2>3. CASE Background
    BY <2>3, ReadySteps, ClosedSteps, RemoveSteps, PersistSteps DEF Background
  <2>4. CASE \E j \in Jobs : Job(j)
    BY <2>4, JobSteps DEF Job
  <2>5. CASE Kill
    BY <2>5, KillSteps
  <2>6. CASE UNCHANGED vars
    <3>1. /\ UNCHANGED <<stage, uid, pending, saved, bg, records, number, lost, copied, todo>>
          /\ UNCHANGED opening /\ (inLdk' => opening = NoChannel)
      BY <2>6 DEF vars, ldk, view, table, jobs, history, IInv, Opened
    <3>2. TypeOK'
      BY <2>6 DEF IInv, TypeOK, vars, ldk, view, table, jobs, history
    <3>3. Counted' /\ Listed' /\ \A k \in Ids : HasRow(k) => HasRow(k)'
      BY <3>1 DEF IInv, Counted, Listed, HasRow
    <3>4. QED BY <3>1, <3>2, <3>3, TableSteps
  <2>7. QED BY <2>1, <2>2, <2>3, <2>4, <2>5, <2>6 DEF Next, Stopped
<1>2. QED BY <1>1, InitIInv, PTL DEF Spec
-----------------------------------------------------------------------------
(* What is shown of a usable channel when nothing is on its way *)

Calm(c) == stage[c] = "usable" /\ ~dirty /\ scheduled = 0 /\ c \notin contested

\* No list from before is left, and what the last one said is shown or still listed.
Known ==
    \A c \in Channels : Calm(c) =>
        /\ \A j \in Jobs : <<c, FALSE>> \notin todo[j]
        /\ \/ ShownOpen(uid[c]) \/ Shared(c)
           \/ \E j \in Jobs : <<c, TRUE>> \in todo[j]

\* A step that no channel comes to rest in and that takes none from the list.
LEMMA KnownKept ==
    ASSUME Known, UNCHANGED todo,
           \A c \in Channels : Calm(c)' =>
               /\ Calm(c) /\ uid'[c] = uid[c]
               /\ ShownOpen(uid[c]) \/ Shared(c) => (ShownOpen(uid[c]) \/ Shared(c))'
    PROVE  Known'
BY DEF Known

\* Whatever changes in LDK has the manager written anew.
LEMMA QuietSteps ==
    ASSUME IInv, Known,
           \/ UNCHANGED <<stage, dirty, scheduled, contested, todo, uid, records>>
           \/ dirty' = TRUE \/ scheduled' > 0
    PROVE  Known'
<1>1. CASE UNCHANGED <<stage, dirty, scheduled, contested, todo, uid, records>>
  BY <1>1, KnownKept DEF Calm, ShownOpen, Shared
<1>2. CASE dirty' = TRUE \/ scheduled' > 0
  BY <1>2 DEF Known, Calm
<1>3. QED BY <1>1, <1>2

LEMMA KnownMainSteps ==
    ASSUME IInv, Known, Main
    PROVE  Known'
<1>1. CASE ShowChannels \/ Enter \/ ReadBalance
  BY <1>1, QuietSteps DEF ShowChannels, Enter, ReadBalance, ldk, table, jobs, history
<1>2. CASE CloseChannel
  BY <1>2, QuietSteps DEF CloseChannel, table, jobs, history
<1>3. CASE CreateChannel
  <2>1. UNCHANGED <<dirty, records, scheduled, todo, contested>>
    BY <1>3 DEF CreateChannel, table, jobs, history
  <2>2. CASE UNCHANGED <<stage, uid, opening>>
    BY <2>1, <2>2, QuietSteps
  <2>3. ASSUME NEW c \in NextChannel, NEW i \in NewId(c),
               stage' = [stage EXCEPT ![c] = "asked"], uid' = [uid EXCEPT ![c] = i]
        PROVE  Known'
    <3>1. c \in Channels /\ stage[c] = "none" /\ uid[c] = NoId
      BY DEF NextChannel, IInv, Staged
    <3>2. /\ stage'[c] = "asked"
          /\ \A d \in Channels \ {c} : stage'[d] = stage[d] /\ uid'[d] = uid[d]
      BY <2>3, <3>1 DEF IInv, TypeOK
    <3>3. ASSUME NEW d \in Channels, Calm(d)'
          PROVE  /\ Calm(d) /\ uid'[d] = uid[d]
                 /\ ShownOpen(uid[d]) \/ Shared(d) => (ShownOpen(uid[d]) \/ Shared(d))'
      <4>1. d # c /\ Calm(d)
        BY <2>1, <3>2, <3>3 DEF Calm
      <4>2. uid[d] # NoId
        BY <4>1, BoundAssumption DEF Calm, IInv, Staged, NoId, Ids, Channels
      <4>3. Shared(d) => Shared(d)'
        BY <3>1, <3>2, <4>1, <4>2 DEF Shared
      <4>4. QED BY <2>1, <3>2, <4>1, <4>3 DEF ShownOpen
    <3>4. QED BY <2>1, <3>3, KnownKept
  <2>4. QED BY <1>3, <2>2, <2>3 DEF CreateChannel
<1>4. CASE RecordChannel
  <2>1. UNCHANGED <<stage, uid, dirty, scheduled, todo, contested>>
    BY <1>4 DEF RecordChannel, ldk, jobs
  <2>2. \A k \in Ids : records[k] \subseteq records'[k]
    BY <1>4 DEF RecordChannel, AddNode
  <2>3. \A c \in Channels : Calm(c) => uid[c] \in Ids
    BY DEF Calm, IInv, Staged
  <2>4. QED BY <2>1, <2>2, <2>3, KnownKept DEF Calm, ShownOpen, Shared
<1>5. QED BY <1>1, <1>2, <1>3, <1>4 DEF Main

LEMMA KnownLdkSteps ==
    ASSUME IInv, Known, Ldk \/ Background \/ Kill
    PROVE  Known'
<1>1. CASE Ldk
  BY <1>1, QuietSteps
     DEF Ldk, Accepted, BecomesUsable, PeerLeaves, ChannelEnds, LdkMoves, LockForUpdate,
         WriteMonitor, table, jobs, history
<1>2. CASE \E c \in Channels : HandleReady(c) \/ HandleClosed(c)
  BY <1>2, QuietSteps DEF HandleReady, HandleClosed, table, jobs, history
<1>3. CASE FinishRemove
  <2>1. /\ UNCHANGED <<stage, uid, dirty, scheduled, todo, contested>>
        /\ bg \in Channels /\ RemoveRecord(uid[bg]) /\ stage[bg] # "usable"
    BY <1>3 DEF FinishRemove, ldk, jobs, history, IInv, TypeOK, Removing
  <2>2. \A k \in Ids : k # uid[bg] => records'[k] = records[k]
    BY <2>1 DEF RemoveRecord, table, IInv, TypeOK, Rows
  <2>3. ASSUME NEW c \in Channels, Calm(c)'
        PROVE  /\ Calm(c) /\ uid'[c] = uid[c]
               /\ ShownOpen(uid[c]) \/ Shared(c) => (ShownOpen(uid[c]) \/ Shared(c))'
    <3>1. Calm(c) /\ c # bg /\ uid[c] \in Ids
      BY <2>1, <2>3 DEF Calm, IInv, Staged
    <3>2. CASE uid[c] = uid[bg]
      BY <2>1, <3>1, <3>2 DEF Shared
    <3>3. CASE uid[c] # uid[bg]
      BY <2>1, <2>2, <3>1, <3>3 DEF Shared, ShownOpen
    <3>4. QED BY <2>1, <3>1, <3>2, <3>3
  <2>4. QED BY <2>1, <2>3, KnownKept
<1>4. CASE PersistManager
  <2>1. scheduled' > 0
    BY <1>4 DEF PersistManager, IInv, TypeOK
  <2>2. QED BY <2>1, QuietSteps
<1>5. CASE Kill
  BY <1>5, QuietSteps DEF Kill
<1>6. QED BY <1>1, <1>2, <1>3, <1>4, <1>5 DEF Background

\* The list is read anew as the job starts, and no older job has the channel to do.
LEMMA KnownStartSteps ==
    ASSUME IInv, Known, NEW j \in Jobs, JobStart(j)
    PROVE  Known'
<1>1. /\ UNCHANGED <<stage, uid, dirty, records>>
      /\ todo' = [todo EXCEPT ![j] =
            {<<c, stage[c] = "usable">> : c \in {d \in Channels : Live(d)}}]
      /\ contested' = {c \in Channels : \E k \in Jobs \ {j} : Lists(k, c)}
  BY DEF JobStart, ldk, table
<1>2. ASSUME NEW c \in Channels, Calm(c)'
      PROVE  /\ \A k \in Jobs : <<c, FALSE>> \notin todo'[k]
             /\ <<c, TRUE>> \in todo'[j]
  <2>1. /\ todo'[j] = {<<d, stage[d] = "usable">> : d \in {d \in Channels : Live(d)}}
        /\ \A k \in Jobs \ {j} : todo'[k] = todo[k]
    BY <1>1 DEF IInv, TypeOK
  <2>2. stage[c] = "usable" /\ c \notin contested' /\ Live(c)
    BY <1>1, <1>2 DEF Calm, Live
  <2>3. ASSUME NEW k \in Jobs \ {j}
        PROVE  <<c, FALSE>> \notin todo'[k]
    BY <1>1, <2>1, <2>2, <2>3 DEF Lists
  <2>4. (stage[c] = "usable") = TRUE
    BY <2>2
  <2>5. <<c, TRUE>> \in todo'[j] /\ <<c, FALSE>> \notin todo'[j]
    BY <2>1, <2>2, <2>4
  <2>6. QED BY <2>3, <2>5
<1>3. QED BY <1>2 DEF Known

\* Only the entry of the channel itself writes its record, and it says usable.
LEMMA KnownUpdateSteps ==
    ASSUME IInv, Known, NEW j \in Jobs, UpdateRecord(j)
    PROVE  Known'
<1>1. /\ UNCHANGED <<stage, uid, dirty, scheduled, contested>> /\ opening = NoChannel
  BY DEF UpdateRecord, MainQueueIsFree, ldk, history
<1>2. PICK e \in todo[j] :
        /\ todo' = [todo EXCEPT ![j] = @ \ {e}]
        /\ \/ HasRow(uid[e[1]]) /\ WriteState(uid[e[1]], StateFor(e[2]))
           \/ /\ \/ ~HasRow(uid[e[1]])
                 \/ \E s \in records[uid[e[1]]] : ~Differs(s, StateFor(e[2]))
              /\ UNCHANGED table
  BY DEF UpdateRecord
<1>3. PICK d \in Channels, b \in BOOLEAN : e = <<d, b>>
  BY <1>2 DEF IInv, TypeOK
<1>4. /\ \A k \in Jobs \ {j} : todo'[k] = todo[k]
      /\ todo'[j] = todo[j] \ {e}
      /\ records \in [Ids -> SUBSET States]
  BY <1>2 DEF IInv, TypeOK, Rows
<1>5. ASSUME NEW c \in Channels, Calm(c)'
      PROVE  /\ \A k \in Jobs : <<c, FALSE>> \notin todo'[k]
             /\ \/ (ShownOpen(uid[c]) \/ Shared(c))'
                \/ \E k \in Jobs : <<c, TRUE>> \in todo'[k]
  <2>1. Calm(c) /\ uid[c] \in Ids
    BY <1>1, <1>5 DEF Calm, IInv, Staged
  <2>2. /\ \A k \in Jobs : <<c, FALSE>> \notin todo[k]
        /\ \/ ShownOpen(uid[c]) \/ Shared(c)
           \/ \E k \in Jobs : <<c, TRUE>> \in todo[k]
    BY <2>1 DEF Known
  <2>3. \A k \in Jobs : <<c, FALSE>> \notin todo'[k]
    BY <1>4, <2>2
  <2>4. Shared(c) => Shared(c)'
    BY <1>1 DEF Shared
  <2>5. CASE d = c /\ ~Shared(c)
    <3>1. b = TRUE /\ StateFor(b) = "open"
      BY <1>2, <1>3, <2>2, <2>5 DEF StateFor
    <3>2. HasRow(uid[c])
      BY <1>1, <2>1, <2>5, BoundAssumption
         DEF Calm, IInv, Recorded, MayBeFunded, Funded, NoChannel, Channels
    <3>3. ShownOpen(uid[c])'
      <4>1. CASE WriteState(uid[c], "open")
        <5>1. PICK rest \in Without(uid[c]) :
                 records' = [records EXCEPT ![uid[c]] = rest \cup {"open"}]
          BY <3>2, <4>1 DEF WriteState
        <5>2. QED BY <1>1, <1>4, <2>1, <5>1 DEF ShownOpen
      <4>2. CASE UNCHANGED table /\ \E s \in records[uid[c]] : ~Differs(s, "open")
        BY <1>1, <4>2 DEF ShownOpen, Differs, table
      <4>3. QED BY <1>2, <1>3, <2>5, <3>1, <3>2, <4>1, <4>2
    <3>4. QED BY <2>3, <3>3
  <2>6. CASE d # c /\ ~Shared(c)
    <3>1. uid[d] # uid[c]
      BY <2>6 DEF Shared
    <3>2. ShownOpen(uid[c]) => ShownOpen(uid[c])'
      BY <1>1, <1>2, <1>3, <1>4, <2>1, <3>1 DEF WriteState, ShownOpen, table
    <3>3. ASSUME NEW k \in Jobs, <<c, TRUE>> \in todo[k]
          PROVE  <<c, TRUE>> \in todo'[k]
      BY <1>3, <1>4, <2>6, <3>3
    <3>4. QED BY <2>2, <2>3, <2>6, <3>2, <3>3
  <2>7. QED BY <2>3, <2>4, <2>5, <2>6
<1>6. QED BY <1>5 DEF Known

LEMMA KnownHolds == Spec => []Known
<1>1. Init => Known
  BY DEF Init, Known, Calm
<1>2. IInv /\ Known /\ [Next]_vars => Known'
  <2> SUFFICES ASSUME IInv, Known, [Next]_vars PROVE Known'
    OBVIOUS
  <2>1. CASE UNCHANGED vars
    BY <2>1, QuietSteps DEF vars, ldk, table, jobs, history
  <2>2. QED
    BY <2>1, KnownMainSteps, KnownLdkSteps, KnownStartSteps, KnownUpdateSteps
       DEF Next, Job, Stopped
<1>3. QED BY <1>1, <1>2, Inductive, PTL DEF Spec
-----------------------------------------------------------------------------
(* The theorems *)

\* Every variable keeps its type.
THEOREM TypeCorrect == Spec => []TypeOK
<1>1. IInv => TypeOK
  BY DEF IInv
<1>2. QED BY <1>1, Inductive, PTL

\* A record without a channel is a copy, or its channel was lost in a kill: every
\* other record is owned by a channel that LDK has or whose end is being handled.
THEOREM GhostsAreExplained == Spec => []GhostOnlyIf
<1>1. IInv => GhostOnlyIf
  <2> SUFFICES ASSUME IInv, NEW i \in Ids, HasRow(i), i \notin copied
               PROVE  \E c \in Channels : uid[c] = i /\ Owns(c)
    BY DEF GhostOnlyIf
  <2>1. Due(i) > 0 /\ Due(i) <= Cardinality(Owners(i))
    BY DEF IInv, TypeOK, Counted, Owned, Due
  <2> HIDE DEF Due
  <2>2. Owners(i) # {}
    BY <2>1, FS_EmptySet, FiniteOwners, DueIsNat DEF IInv
  <2>3. QED BY <2>2 DEF Owners
<1>2. QED BY <1>1, Inductive, PTL

\* A funded channel with an id of its own has a record, once openChannelWith returned.
THEOREM FundedAreRecorded == Spec => []UnrecordedOnlyIf
<1>1. IInv => UnrecordedOnlyIf
  BY DEF IInv, Recorded, MayBeFunded, UnrecordedOnlyIf
<1>2. QED BY <1>1, Inductive, PTL

\* However jobs, removals, kills and the buttons interleave: once the manager is stored
\* and no job is under way for it, a usable channel with an id of its own is shown
\* as open, unless the last job began while an older one still had the channel to do.
THEOREM UsableAreShown == Spec => []UsableIsShown
<1>1. IInv /\ Known => UsableIsShown
  BY DEF IInv, TypeOK, Known, Calm, UsableIsShown, Settled, Lists
<1>2. QED BY <1>1, Inductive, KnownHolds, PTL
===============================================================================
