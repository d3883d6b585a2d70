---------------------------- MODULE MediaProofs ----------------------------
(* That a row never outlives its object, for all conversations, turns,     *)
(* keys, page sizes and budgets.                                           *)
EXTENDS Media, TLAPS

(* What a turn in flight has put is young and has no row yet, and no other *)
(* turn has put it.                                                        *)
FlightSafe ==
    /\ \A w \in Turns : \A k \in turn[w].keys : object[k] = "new" /\ row[k] = NoRow
    /\ \A v, w \in Turns : v # w => turn[v].keys \cap turn[w].keys = {}

(* What the collector looks up is past the cutoff, and what it is about to *)
(* delete has no row.                                                      *)
GcSafe ==
    \A k \in gc.keys :
        /\ object[k] \in {"old", "deleted"}
        /\ gc.at = "delete" => row[k] = NoRow

(* What an account deletion captured was put long ago; a row it still has  *)
(* goes with the cascade.                                                  *)
ErasureSafe ==
    \A u \in Users : \A k \in erasure[u].keys :
        /\ object[k] # "unused"
        /\ \A w \in Turns : k \notin turn[w].keys
        /\ \/ row[k] = NoRow
           \/ erasure[u].at = "captured" /\ row[k].conv \in OwnedBy(u)

(* The inductive invariant. *)
IInv == TypeOK /\ NoDanglingRow /\ FlightSafe /\ GcSafe /\ ErasureSafe

-----------------------------------------------------------------------------
LEMMA InitSafe == Init => IInv
<1> SUFFICES ASSUME Init PROVE IInv
  OBVIOUS
<1>1. TypeOK
  <2>1. alive \subseteq Conversations
    BY DEF Init
  <2>2. epoch \in [Conversations -> 1..MaxEpoch]
    BY SizesAssumption DEF Init
  <2>3. row \in [Keys -> Row]
    BY SizesAssumption DEF Init, Row, NoRow
  <2>4. object \in [Keys -> ObjectState] /\ faults \in 0..MaxFaults
    BY SizesAssumption DEF Init, ObjectState
  <2>5. turn \in [Turns -> Turn]
    BY SizesAssumption DEF Init, Turn, IdleTurn
  <2>6. gc \in Collector
    BY SizesAssumption DEF Init, Collector, Resting
  <2>7. erasure \in [Users -> Erasure]
    BY DEF Init, Erasure
  <2> QED BY <2>1, <2>2, <2>3, <2>4, <2>5, <2>6, <2>7 DEF TypeOK
<1>2. NoDanglingRow
  BY DEF Init, NoDanglingRow, Rows
<1>3. FlightSafe /\ GcSafe /\ ErasureSafe
  BY DEF Init, FlightSafe, GcSafe, ErasureSafe, IdleTurn, Resting
<1> QED BY <1>1, <1>2, <1>3 DEF IInv

(* The rows that are left are rows, and of the gone conversations none is. *)
LEMMA RowsWithoutType ==
    ASSUME TypeOK, NEW gone
    PROVE  /\ RowsWithout(gone) \in [Keys -> Row]
           /\ \A k \in Keys : RowsWithout(gone)[k] \in {row[k], NoRow}
           /\ \A k \in Keys : row[k].conv \in gone => RowsWithout(gone)[k] = NoRow
<1>1. NoRow \in Row
  BY SizesAssumption DEF NoRow, Row
<1> QED BY <1>1 DEF RowsWithout, TypeOK

-----------------------------------------------------------------------------
(* Media turns. *)

LEMMA ReadEpochStep ==
    ASSUME IInv, NEW w \in Turns, NEW c \in Conversations, NEW models \in 1..MaxModels,
           ReadEpoch(w, c, models)
    PROVE  IInv'
<1> DEFINE t == [conv |-> c, epoch |-> epoch[c], todo |-> models, keys |-> {}]
<1>1. t \in Turn
  BY SizesAssumption DEF IInv, TypeOK, Turn
<1>2. turn' = [turn EXCEPT ![w] = t]
  BY DEF ReadEpoch
<1>3. t.keys = {}
  OBVIOUS
<1> HIDE DEF t
<1>4. TypeOK'
  BY <1>1, <1>2 DEF IInv, TypeOK, ReadEpoch, dbVars
<1>5. \A v \in Turns : turn'[v].keys \subseteq turn[v].keys
  BY <1>2, <1>3 DEF IInv, TypeOK
<1>6. FlightSafe' /\ ErasureSafe'
  BY <1>5 DEF IInv, FlightSafe, ErasureSafe, ReadEpoch, dbVars, OwnedBy, NoRow
<1>7. NoDanglingRow' /\ GcSafe'
  BY DEF IInv, NoDanglingRow, GcSafe, Rows, Stored, ReadEpoch, dbVars, NoRow
<1> QED BY <1>4, <1>6, <1>7 DEF IInv

LEMMA PutStep ==
    ASSUME IInv, NEW w \in Turns, NEW k \in Keys, Put(w, k)
    PROVE  IInv'
<1> DEFINE t == [turn[w] EXCEPT !.todo = @ - 1, !.keys = @ \cup {k}]
<1>1. turn[w] \in Turn
  BY DEF IInv, TypeOK
<1>2. t \in Turn
  <2>1. turn[w].todo - 1 \in 0..MaxModels
    BY <1>1, SizesAssumption DEF Put, Turn
  <2>2. turn[w].keys \cup {k} \in SUBSET Keys
    BY <1>1 DEF Turn
  <2> QED BY <1>1, <2>1, <2>2 DEF Turn
<1>3. t.keys = turn[w].keys \cup {k}
  BY <1>1 DEF Turn
<1>4. turn' = [turn EXCEPT ![w] = t]
  BY DEF Put
<1> HIDE DEF t
<1>5. /\ object' = [object EXCEPT ![k] = "new"]
      /\ object[k] = "unused"
      /\ object \in [Keys -> ObjectState]
  BY DEF Put, IInv, TypeOK
<1>6. TypeOK'
  BY <1>2, <1>4, <1>5 DEF IInv, TypeOK, Put, dbVars, ObjectState
<1>7. row[k] = NoRow
  BY <1>5 DEF IInv, NoDanglingRow, Rows, Stored
<1>8. \A v \in Turns : turn'[v].keys = IF v = w THEN turn[w].keys \cup {k} ELSE turn[v].keys
  BY <1>3, <1>4 DEF IInv, TypeOK
<1>9. /\ \A v \in Turns : k \notin turn[v].keys /\ turn[v].keys \subseteq Keys
      /\ k \notin gc.keys
      /\ \A u \in Users : k \notin erasure[u].keys
  BY <1>5 DEF IInv, TypeOK, FlightSafe, GcSafe, ErasureSafe, Turn
<1>10. FlightSafe'
  BY <1>5, <1>7, <1>8, <1>9 DEF IInv, FlightSafe, Put, dbVars, NoRow
<1>11. NoDanglingRow'
  BY <1>5 DEF IInv, NoDanglingRow, Rows, Stored, Put, dbVars, NoRow
<1>12. GcSafe'
  BY <1>5, <1>9 DEF IInv, TypeOK, Collector, GcSafe, Put, dbVars, NoRow
<1>13. ErasureSafe'
  <2>1. \A u \in Users : erasure[u].keys \subseteq Keys
    BY DEF IInv, TypeOK, Erasure
  <2>2. \A u \in Users : \A j \in erasure[u].keys :
           object'[j] = object[j] /\ \A v \in Turns : j \notin turn'[v].keys
    BY <1>5, <1>8, <1>9, <2>1 DEF IInv, ErasureSafe
  <2> QED BY <2>2 DEF IInv, ErasureSafe, Put, dbVars, NoRow, OwnedBy
<1> QED BY <1>6, <1>10, <1>11, <1>12, <1>13 DEF IInv

(* A turn that ends has nothing in flight any more. *)
LEMMA IdleTurnSafe ==
    ASSUME TypeOK, NEW w \in Turns, turn' = [turn EXCEPT ![w] = IdleTurn]
    PROVE  /\ turn' \in [Turns -> Turn]
           /\ \A v \in Turns : turn'[v].keys = IF v = w THEN {} ELSE turn[v].keys
<1>1. IdleTurn \in Turn /\ IdleTurn.keys = {}
  BY SizesAssumption DEF IdleTurn, Turn
<1> QED BY <1>1 DEF TypeOK

LEMMA SaveTurnStep ==
    ASSUME IInv, NEW w \in Turns, SaveTurn(w)
    PROVE  IInv'
<1> DEFINE r == SavedRow(turn[w])
<1>1. turn[w] \in Turn /\ turn[w].conv \in Conversations
  BY DEF IInv, TypeOK, SaveTurn
<1>2. r \in Row
  BY <1>1, SizesAssumption DEF SavedRow, Row, Turn, IInv, TypeOK
<1>3. row' = [k \in Keys |-> IF k \in turn[w].keys THEN r ELSE row[k]]
  BY DEF SaveTurn
<1> HIDE DEF r
<1>4. /\ turn' \in [Turns -> Turn]
      /\ \A v \in Turns : turn'[v].keys = IF v = w THEN {} ELSE turn[v].keys
  BY IdleTurnSafe DEF SaveTurn, IInv
<1>5. TypeOK'
  BY <1>2, <1>3, <1>4 DEF IInv, TypeOK, SaveTurn
<1>6. \A v \in Turns : turn[v].keys \subseteq Keys
  BY DEF IInv, TypeOK, Turn
<1>7. FlightSafe'
  BY <1>3, <1>4, <1>6 DEF IInv, FlightSafe, SaveTurn, NoRow
<1>8. NoDanglingRow'
  BY <1>3 DEF IInv, NoDanglingRow, FlightSafe, Rows, Stored, SaveTurn, NoRow
<1>9. \A k \in turn[w].keys : object[k] = "new"
  BY DEF IInv, FlightSafe
<1>10. gc.keys \subseteq Keys /\ \A u \in Users : erasure[u].keys \subseteq Keys
  BY DEF IInv, TypeOK, Collector, Erasure
<1>11. GcSafe'
  BY <1>3, <1>9, <1>10 DEF IInv, GcSafe, SaveTurn, NoRow
<1>12. ErasureSafe'
  BY <1>3, <1>4, <1>10 DEF IInv, ErasureSafe, SaveTurn, OwnedBy, NoRow
<1> QED BY <1>5, <1>7, <1>8, <1>11, <1>12 DEF IInv

LEMMA FailTurnStep ==
    ASSUME IInv, NEW w \in Turns, FailTurn(w)
    PROVE  IInv'
<1>1. /\ turn' \in [Turns -> Turn]
      /\ \A v \in Turns : turn'[v].keys = IF v = w THEN {} ELSE turn[v].keys
  BY IdleTurnSafe DEF FailTurn, IInv
<1>2. TypeOK'
  BY <1>1 DEF IInv, TypeOK, FailTurn, dbVars
<1>3. FlightSafe' /\ ErasureSafe'
  BY <1>1 DEF IInv, FlightSafe, ErasureSafe, FailTurn, dbVars, OwnedBy, NoRow
<1>4. NoDanglingRow' /\ GcSafe'
  BY DEF IInv, NoDanglingRow, GcSafe, Rows, Stored, FailTurn, dbVars, NoRow
<1> QED BY <1>2, <1>3, <1>4 DEF IInv

-----------------------------------------------------------------------------
(* Rows that go. *)

(* Dropping rows disturbs nothing but what an erasure may count on. *)
LEMMA FewerRows ==
    ASSUME IInv, row' \in [Keys -> Row], \A k \in Keys : row'[k] \in {row[k], NoRow},
           alive' \subseteq Conversations,
           UNCHANGED <<epoch, object, turn, gc, faults>>
    PROVE  /\ NoDanglingRow' /\ FlightSafe' /\ GcSafe'
           /\ erasure' \in [Users -> Erasure] => TypeOK'
           /\ UNCHANGED erasure => ErasureSafe'
<1>1. erasure' \in [Users -> Erasure] => TypeOK'
  BY DEF IInv, TypeOK
<1>2. NoDanglingRow'
  BY DEF IInv, NoDanglingRow, Rows, Stored, NoRow
<1>3. /\ \A w \in Turns : turn[w].keys \subseteq Keys
      /\ gc.keys \subseteq Keys
      /\ \A u \in Users : erasure[u].keys \subseteq Keys
  BY DEF IInv, TypeOK, Turn, Collector, Erasure
<1>4. FlightSafe' /\ GcSafe'
  BY <1>3 DEF IInv, FlightSafe, GcSafe, NoRow
<1>5. UNCHANGED erasure => ErasureSafe'
  BY <1>3 DEF IInv, ErasureSafe, OwnedBy, NoRow
<1> QED BY <1>1, <1>2, <1>4, <1>5

LEMMA ConversationStep ==
    ASSUME IInv, Conversation
    PROVE  IInv'
<1>1. ASSUME NEW c \in Conversations, Rotate(c)
      PROVE  IInv'
  <2> epoch[c] + 1 \in 1..MaxEpoch
    BY <1>1, SizesAssumption DEF IInv, TypeOK, Rotate
  <2>1. TypeOK'
    BY <1>1 DEF IInv, TypeOK, Rotate
  <2>2. NoDanglingRow' /\ FlightSafe' /\ GcSafe' /\ ErasureSafe'
    BY <1>1 DEF IInv, Rotate, NoDanglingRow, Rows, Stored, FlightSafe, GcSafe, ErasureSafe,
                OwnedBy, NoRow
  <2> QED BY <2>1, <2>2 DEF IInv
<1>2. ASSUME NEW c \in Conversations, DeleteConversation(c)
      PROVE  IInv'
  <2>1. row' \in [Keys -> Row] /\ \A k \in Keys : row'[k] \in {row[k], NoRow}
    BY <1>2, RowsWithoutType DEF IInv, DeleteConversation
  <2>2. alive' \subseteq Conversations /\ UNCHANGED <<epoch, object, turn, gc, faults, erasure>>
    BY <1>2 DEF IInv, TypeOK, DeleteConversation
  <2> QED BY <2>1, <2>2, FewerRows DEF IInv, TypeOK
<1>3. ASSUME NEW k \in Keys, DeleteMessage(k)
      PROVE  IInv'
  <2>1. NoRow \in Row
    BY SizesAssumption DEF NoRow, Row
  <2>2. row' \in [Keys -> Row] /\ \A j \in Keys : row'[j] \in {row[j], NoRow}
    BY <1>3, <2>1 DEF IInv, TypeOK, DeleteMessage
  <2>3. alive' \subseteq Conversations /\ UNCHANGED <<epoch, object, turn, gc, faults, erasure>>
    BY <1>3 DEF IInv, TypeOK, DeleteMessage
  <2> QED BY <2>2, <2>3, FewerRows DEF IInv, TypeOK
<1> QED BY <1>1, <1>2, <1>3 DEF Conversation

-----------------------------------------------------------------------------
(* Account deletion. *)

LEMMA CaptureStep ==
    ASSUME IInv, NEW u \in Users, Capture(u)
    PROVE  IInv'
<1> DEFINE e == [at |-> "captured", keys |-> {k \in Rows : row[k].conv \in OwnedBy(u)}]
<1>1. e \in Erasure
  BY DEF Erasure, Rows
<1>2. erasure' = [erasure EXCEPT ![u] = e]
  BY DEF Capture
<1>3. e.at = "captured" /\ e.keys = {k \in Rows : row[k].conv \in OwnedBy(u)}
  OBVIOUS
<1> HIDE DEF e
<1>4. TypeOK'
  BY <1>1, <1>2 DEF IInv, TypeOK, Capture, dbVars
<1>5. NoDanglingRow' /\ FlightSafe' /\ GcSafe'
  BY DEF IInv, Capture, dbVars, NoDanglingRow, Rows, Stored, FlightSafe, GcSafe, NoRow
<1>6. \A k \in e.keys : /\ object[k] # "unused"
                        /\ \A w \in Turns : k \notin turn[w].keys
                        /\ row[k].conv \in OwnedBy(u)
  BY <1>3 DEF IInv, NoDanglingRow, Rows, Stored, FlightSafe
<1>7. \A v \in Users : erasure'[v] = IF v = u THEN e ELSE erasure[v]
  BY <1>2 DEF IInv, TypeOK
<1>8. ErasureSafe'
  BY <1>3, <1>6, <1>7 DEF IInv, ErasureSafe, Capture, dbVars, OwnedBy, NoRow
<1> QED BY <1>4, <1>5, <1>8 DEF IInv

LEMMA CascadeStep ==
    ASSUME IInv, NEW u \in Users, Cascade(u)
    PROVE  IInv'
<1>1. PICK target \in SUBSET erasure[u].keys :
        erasure' = [erasure EXCEPT ![u] = [at |-> "erased", keys |-> target]]
  BY DEF Cascade
<1> DEFINE e == [at |-> "erased", keys |-> target]
<1>2. erasure[u].keys \subseteq Keys
  BY DEF IInv, TypeOK, Erasure
<1>3. e \in Erasure /\ e.keys \subseteq erasure[u].keys
  BY <1>2 DEF Erasure
<1>4. erasure' = [erasure EXCEPT ![u] = e]
  BY <1>1
<1> HIDE DEF e
<1>5. /\ row' \in [Keys -> Row]
      /\ \A k \in Keys : row'[k] \in {row[k], NoRow}
      /\ \A k \in Keys : row[k].conv \in OwnedBy(u) => row'[k] = NoRow
  BY RowsWithoutType DEF IInv, Cascade
<1>6. alive' \subseteq Conversations /\ UNCHANGED <<epoch, object, turn, gc, faults>>
  BY DEF IInv, TypeOK, Cascade
<1>7. erasure' \in [Users -> Erasure]
  BY <1>3, <1>4 DEF IInv, TypeOK
<1>8. TypeOK' /\ NoDanglingRow' /\ FlightSafe' /\ GcSafe'
  BY <1>5, <1>6, <1>7, FewerRows
<1>9. \A v \in Users : /\ v # u => erasure'[v] = erasure[v]
                       /\ erasure'[v].keys \subseteq erasure[v].keys
  BY <1>3, <1>4 DEF IInv, TypeOK
<1>10. \A v \in Users : erasure[v].keys \subseteq Keys
  BY DEF IInv, TypeOK, Erasure
<1>11. ASSUME NEW v \in Users, NEW k \in erasure'[v].keys
       PROVE  /\ object[k] # "unused"
              /\ \A w \in Turns : k \notin turn[w].keys
              /\ \/ row'[k] = NoRow
                 \/ erasure'[v].at = "captured" /\ row'[k].conv \in OwnedBy(v)
  <2>1. k \in erasure[v].keys /\ k \in Keys
    BY <1>9, <1>10, <1>11
  <2>2. /\ object[k] # "unused"
        /\ \A w \in Turns : k \notin turn[w].keys
        /\ \/ row[k] = NoRow
           \/ erasure[v].at = "captured" /\ row[k].conv \in OwnedBy(v)
    BY <2>1 DEF IInv, ErasureSafe
  <2>3. CASE v = u
    BY <1>5, <2>1, <2>2, <2>3
  <2>4. CASE v # u
    BY <1>5, <1>9, <2>1, <2>2, <2>4
  <2> QED BY <2>3, <2>4
<1>12. ErasureSafe'
  BY <1>6, <1>11 DEF ErasureSafe, OwnedBy, NoRow
<1> QED BY <1>8, <1>12 DEF IInv

LEMMA RollBackStep ==
    ASSUME IInv, NEW u \in Users, RollBack(u)
    PROVE  IInv'
<1> DEFINE e == [at |-> "active", keys |-> {}]
<1>1. e \in Erasure /\ e.keys = {}
  BY DEF Erasure
<1>2. erasure' = [erasure EXCEPT ![u] = e]
  BY DEF RollBack
<1> HIDE DEF e
<1>3. TypeOK'
  BY <1>1, <1>2 DEF IInv, TypeOK, RollBack, dbVars
<1>4. NoDanglingRow' /\ FlightSafe' /\ GcSafe'
  BY DEF IInv, RollBack, dbVars, NoDanglingRow, Rows, Stored, FlightSafe, GcSafe, NoRow
<1>5. \A v \in Users : erasure'[v] = IF v = u THEN e ELSE erasure[v]
  BY <1>2 DEF IInv, TypeOK
<1>6. ErasureSafe'
  BY <1>1, <1>5 DEF IInv, ErasureSafe, RollBack, dbVars, OwnedBy, NoRow
<1> QED BY <1>3, <1>4, <1>6 DEF IInv

(* Deleting an object that has no row and that no turn put. *)
LEMMA DeletedSafe ==
    ASSUME IInv, NEW k \in Keys, row[k] = NoRow, object[k] # "unused",
           \A w \in Turns : k \notin turn[w].keys,
           object' \in {object, [object EXCEPT ![k] = "deleted"]},
           UNCHANGED <<dbVars, turn>>
    PROVE  /\ object' \in [Keys -> ObjectState]
           /\ NoDanglingRow' /\ FlightSafe'
           /\ \A j \in Keys : object'[j] \in {object[j], "deleted"}
           /\ \A j \in Keys : object[j] # "unused" => object'[j] # "unused"
<1>1. object \in [Keys -> ObjectState]
  BY DEF IInv, TypeOK
<1>2. object' \in [Keys -> ObjectState]
  BY <1>1 DEF ObjectState
<1>3. \A j \in Keys : object'[j] = object[j] \/ (j = k /\ object'[j] = "deleted")
  BY <1>1
<1>4. NoDanglingRow'
  BY <1>3 DEF IInv, NoDanglingRow, Rows, Stored, dbVars, NoRow
<1>5. \A w \in Turns : turn[w].keys \subseteq Keys
  BY DEF IInv, TypeOK, Turn
<1>6. FlightSafe'
  BY <1>3, <1>5 DEF IInv, FlightSafe, dbVars, NoRow
<1> QED BY <1>2, <1>3, <1>4, <1>6

LEMMA EraseObjectStep ==
    ASSUME IInv, NEW u \in Users, NEW k \in Keys, EraseObject(u, k)
    PROVE  IInv'
<1> DEFINE e == [erasure[u] EXCEPT !.keys = @ \ {k}]
<1>1. erasure[u] \in Erasure
  BY DEF IInv, TypeOK
<1>2. e \in Erasure /\ e.keys \subseteq erasure[u].keys /\ e.at = erasure[u].at
  BY <1>1 DEF Erasure
<1>3. erasure' = [erasure EXCEPT ![u] = e]
  BY DEF EraseObject
<1> HIDE DEF e
<1>4. /\ row[k] = NoRow /\ object[k] # "unused"
      /\ \A w \in Turns : k \notin turn[w].keys
  BY DEF IInv, ErasureSafe, EraseObject
<1>5. /\ object' \in {object, [object EXCEPT ![k] = "deleted"]}
      /\ UNCHANGED <<dbVars, turn>>
  BY DEF EraseObject
<1>6. /\ object' \in [Keys -> ObjectState]
      /\ NoDanglingRow' /\ FlightSafe'
      /\ \A j \in Keys : object'[j] \in {object[j], "deleted"}
      /\ \A j \in Keys : object[j] # "unused" => object'[j] # "unused"
  BY <1>4, <1>5, DeletedSafe
<1>7. TypeOK'
  BY <1>2, <1>3, <1>6 DEF IInv, TypeOK, EraseObject, dbVars
<1>8. gc.keys \subseteq Keys /\ \A v \in Users : erasure[v].keys \subseteq Keys
  BY DEF IInv, TypeOK, Collector, Erasure
<1>9. GcSafe'
  BY <1>6, <1>8 DEF IInv, GcSafe, EraseObject, dbVars, NoRow
<1>10. \A v \in Users : /\ erasure'[v].keys \subseteq erasure[v].keys
                        /\ erasure'[v].at = erasure[v].at
  BY <1>2, <1>3 DEF IInv, TypeOK
<1>11. ErasureSafe'
  BY <1>6, <1>8, <1>10 DEF IInv, ErasureSafe, EraseObject, dbVars, OwnedBy, NoRow
<1> QED BY <1>6, <1>7, <1>9, <1>11 DEF IInv
-----------------------------------------------------------------------------
(* The collector. *)

LEMMA AgeStep ==
    ASSUME IInv, NEW k \in Keys, Age(k)
    PROVE  IInv'
<1>1. /\ object \in [Keys -> ObjectState] /\ object[k] = "new"
      /\ object' = [object EXCEPT ![k] = "old"]
      /\ \A w \in Turns : k \notin turn[w].keys
  BY DEF IInv, TypeOK, Age, InFlight
<1>2. object' \in [Keys -> ObjectState]
  BY <1>1 DEF ObjectState
<1>3. \A j \in Keys : object'[j] = IF j = k THEN "old" ELSE object[j]
  BY <1>1
<1>4. TypeOK'
  BY <1>2 DEF IInv, TypeOK, Age, dbVars
<1>5. NoDanglingRow'
  BY <1>3 DEF IInv, NoDanglingRow, Rows, Stored, Age, dbVars, NoRow
<1>6. /\ \A w \in Turns : turn[w].keys \subseteq Keys
      /\ gc.keys \subseteq Keys
      /\ \A u \in Users : erasure[u].keys \subseteq Keys
  BY DEF IInv, TypeOK, Turn, Collector, Erasure
<1>7. FlightSafe'
  BY <1>1, <1>3, <1>6 DEF IInv, FlightSafe, Age, dbVars, NoRow
<1>8. GcSafe'
  BY <1>1, <1>3, <1>6 DEF IInv, GcSafe, Age, dbVars, NoRow
<1>9. ErasureSafe'
  BY <1>3, <1>6 DEF IInv, ErasureSafe, Age, dbVars, OwnedBy, NoRow
<1> QED BY <1>4, <1>5, <1>7, <1>8, <1>9 DEF IInv

(* A step of the collector that deletes nothing. *)
LEMMA GcLooks ==
    ASSUME IInv, gc' \in Collector, GcSafe', faults' \in 0..MaxFaults,
           UNCHANGED <<dbVars, object, turn, erasure>>
    PROVE  IInv'
<1>1. TypeOK'
  BY DEF IInv, TypeOK, dbVars
<1>2. NoDanglingRow' /\ FlightSafe' /\ ErasureSafe'
  BY DEF IInv, dbVars, NoDanglingRow, Rows, Stored, FlightSafe, ErasureSafe, OwnedBy, NoRow
<1> QED BY <1>1, <1>2 DEF IInv

LEMMA RestingType == Resting \in Collector /\ Resting.keys = {}
BY SizesAssumption DEF Resting, Collector

LEMMA GcListStep ==
    ASSUME IInv, GcList
    PROVE  IInv'
<1>1. PICK last \in Page(gc.cursor) \cup {gc.cursor} :
        gc' = [at |-> "find", keys |-> Eligible(Page(gc.cursor)),
               pages |-> IF gc.pages = 0 THEN 0 ELSE gc.pages - 1,
               cursor |-> last,
               more |-> Listed(gc.cursor) # Page(gc.cursor)]
  BY DEF GcList
<1>2. gc \in Collector
  BY DEF IInv, TypeOK
<1>3. Page(gc.cursor) \subseteq Keys
  BY DEF Page, Listed, Stored
<1>4. last \in 0..LastKey
  BY <1>2, <1>3, SizesAssumption DEF Collector, Keys
<1>5. (IF gc.pages = 0 THEN 0 ELSE gc.pages - 1) \in 0..PagesPerRun
  BY <1>2, SizesAssumption DEF Collector
<1>6. /\ Eligible(Page(gc.cursor)) \subseteq Keys
      /\ \A k \in Eligible(Page(gc.cursor)) : object[k] = "old"
  BY <1>3 DEF Eligible
<1>7. gc' \in Collector
  BY <1>1, <1>4, <1>5, <1>6 DEF Collector
<1>8. GcSafe'
  BY <1>1, <1>6 DEF GcSafe, GcList, dbVars, NoRow
<1> QED BY <1>7, <1>8, GcLooks DEF GcList, IInv, TypeOK

LEMMA GcDeleteStep ==
    ASSUME IInv, NEW k \in Keys, GcDelete(k)
    PROVE  IInv'
<1>1. gc \in Collector
  BY DEF IInv, TypeOK
<1>2. /\ row[k] = NoRow
      /\ object[k] \in {"old", "deleted"}
      /\ \A w \in Turns : k \notin turn[w].keys
  BY DEF IInv, GcSafe, FlightSafe, GcDelete
<1>3. /\ object' \in {object, [object EXCEPT ![k] = "deleted"]}
      /\ UNCHANGED <<dbVars, turn>>
  BY DEF GcDelete
<1>4. /\ object' \in [Keys -> ObjectState]
      /\ NoDanglingRow' /\ FlightSafe'
      /\ \A j \in Keys : object'[j] \in {object[j], "deleted"}
      /\ \A j \in Keys : object[j] # "unused" => object'[j] # "unused"
  BY <1>2, <1>3, DeletedSafe
<1>5. gc' \in Collector /\ gc'.keys \subseteq gc.keys /\ gc'.at = gc.at
  BY <1>1 DEF GcDelete, Collector
<1>6. faults' \in 0..MaxFaults
  BY SizesAssumption DEF GcDelete, IInv, TypeOK
<1>7. TypeOK'
  BY <1>4, <1>5, <1>6 DEF IInv, TypeOK, GcDelete, dbVars
<1>8. gc.keys \subseteq Keys /\ \A v \in Users : erasure[v].keys \subseteq Keys
  BY DEF IInv, TypeOK, Collector, Erasure
<1>9. GcSafe'
  BY <1>4, <1>5, <1>8 DEF IInv, GcSafe, GcDelete, dbVars, NoRow
<1>10. ErasureSafe'
  BY <1>4, <1>8 DEF IInv, ErasureSafe, GcDelete, dbVars, OwnedBy, NoRow
<1> QED BY <1>4, <1>7, <1>9, <1>10 DEF IInv

LEMMA GcStep ==
    ASSUME IInv, Gc \/ GcAbort
    PROVE  IInv'
<1>1. gc \in Collector /\ faults \in 0..MaxFaults
  BY DEF IInv, TypeOK
<1>2. CASE GcStart
  <2> DEFINE g == [at |-> "list", cursor |-> 0, pages |-> PagesPerRun, more |-> FALSE,
                   keys |-> {}]
  <2> gc' = g
    BY <1>2 DEF GcStart, Resting
  <2> g \in Collector /\ g.keys = {}
    BY SizesAssumption DEF Collector
  <2>1. gc' \in Collector /\ gc'.keys = {}
    BY DEF GcStart
  <2>2. GcSafe'
    BY <2>1 DEF GcSafe
  <2> QED BY <1>1, <1>2, <2>1, <2>2, GcLooks DEF GcStart
<1>3. CASE GcList
  BY <1>3, GcListStep
<1>4. CASE GcBail
  <2>1. GcSafe'
    BY <1>4, RestingType DEF GcSafe, GcBail
  <2> QED BY <1>1, <1>4, <2>1, RestingType, GcLooks DEF GcBail
<1>5. CASE GcFind
  <2>1. gc' \in Collector /\ gc'.keys = gc.keys \ Rows
    BY <1>1, <1>5 DEF GcFind, Collector, Orphans
  <2>2. gc.keys \subseteq Keys
    BY <1>1 DEF Collector
  <2>3. GcSafe'
    BY <1>5, <2>1, <2>2 DEF IInv, GcSafe, GcFind, dbVars, Rows, NoRow
  <2> QED BY <1>1, <1>5, <2>1, <2>3, GcLooks DEF GcFind
<1>6. ASSUME NEW k \in Keys, GcDelete(k)
      PROVE  IInv'
  BY <1>6, GcDeleteStep
<1>7. CASE GcNext
  <2>1. gc' \in Collector /\ gc'.keys = {}
    BY <1>1, <1>7, RestingType DEF GcNext, Collector
  <2>2. GcSafe'
    BY <2>1 DEF GcSafe
  <2> QED BY <1>1, <1>7, <2>1, <2>2, GcLooks DEF GcNext
<1>8. CASE GcAbort
  <2>1. GcSafe'
    BY <1>8, RestingType DEF GcSafe, GcAbort
  <2>2. faults' \in 0..MaxFaults
    BY <1>1, <1>8, SizesAssumption DEF GcAbort
  <2> QED BY <1>8, <2>1, <2>2, RestingType, GcLooks DEF GcAbort
<1> QED BY <1>2, <1>3, <1>4, <1>5, <1>6, <1>7, <1>8 DEF Gc

-----------------------------------------------------------------------------
LEMMA StutterSafe ==
    ASSUME IInv, UNCHANGED vars
    PROVE  IInv'
<1>1. gc' \in Collector /\ faults' \in 0..MaxFaults
  BY DEF IInv, TypeOK, vars
<1>2. GcSafe'
  BY DEF IInv, GcSafe, vars, dbVars, NoRow
<1> QED BY <1>1, <1>2, GcLooks DEF vars

THEOREM NextSafe == IInv /\ [Next]_vars => IInv'
<1> SUFFICES ASSUME IInv, [Next]_vars PROVE IInv'
  OBVIOUS
<1>1. ASSUME MediaTurn PROVE IInv'
  BY <1>1, ReadEpochStep, PutStep, SaveTurnStep, FailTurnStep DEF MediaTurn
<1>2. ASSUME Conversation PROVE IInv'
  BY <1>2, ConversationStep
<1>3. ASSUME DeleteUser PROVE IInv'
  BY <1>3, CaptureStep, CascadeStep, RollBackStep, EraseObjectStep DEF DeleteUser
<1>4. ASSUME NEW k \in Keys, Age(k) PROVE IInv'
  BY <1>4, AgeStep
<1>5. ASSUME Gc \/ GcAbort PROVE IInv'
  BY <1>5, GcStep
<1>6. ASSUME UNCHANGED vars PROVE IInv'
  BY <1>6, StutterSafe
<1> QED BY <1>1, <1>2, <1>3, <1>4, <1>5, <1>6 DEF Next

THEOREM Invariance == Spec => []IInv
BY InitSafe, NextSafe, PTL DEF Spec

(* Every variable of Media has its type in every reachable state. *)
THEOREM TypeCorrect == Spec => []TypeOK
<1>1. IInv => TypeOK
  BY DEF IInv
<1> QED BY <1>1, Invariance, PTL

(* The row of a media message never loses its object to the collector, to  *)
(* an account deletion or to their races with turns in flight (runR2Gc,    *)
(* deleteUser, executeMediaPipeline), with any number of each.             *)
THEOREM RowsNeverDangle == Spec => []NoDanglingRow
<1>1. IInv => NoDanglingRow
  BY DEF IInv
<1> QED BY <1>1, Invariance, PTL

=============================================================================
