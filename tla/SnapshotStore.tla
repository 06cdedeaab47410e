--------------------------- MODULE SnapshotStore ---------------------------
(***************************************************************************)
(* What the transaction layer promises, with no versions, locks, undo or   *)
(* vacuum: a store of rows that changes only when a transaction commits,   *)
(* at once and by exactly the writes of that transaction; a transaction    *)
(* reads the store as it was when its snapshot was taken, and may write a  *)
(* row only if nobody else has an uncommitted write on it and nobody has   *)
(* changed it since that snapshot (the first updater wins).                *)
(***************************************************************************)
CONSTANTS Rows,   \* logical rows
          Xids    \* transactions

VARIABLES
  store,    \* per row, the transaction that wrote its committed version, as a
            \* set: {} when the row does not exist
  status,   \* per transaction
  base,     \* per transaction, the store at its last snapshot
  pending   \* per transaction and row, its uncommitted write

vars == <<store, status, base, pending>>

NoWrites == [r \in Rows |-> "keep"]
NoRows   == [r \in Rows |-> {}]

Init ==
  /\ store \in [Rows -> SUBSET Xids]
  /\ status \in [Xids -> {"unborn", "closed"}]
  /\ base = [x \in Xids |-> NoRows]
  /\ pending = [x \in Xids |-> NoWrites]

Begin(x) ==
  /\ status[x] = "unborn"
  /\ status' = [status EXCEPT ![x] = "open"]
  /\ base' = [base EXCEPT ![x] = store]
  /\ UNCHANGED <<store, pending>>

\* A statement of a READ COMMITTED transaction starts.
Refresh(x) ==
  /\ status[x] = "open"
  /\ base' = [base EXCEPT ![x] = store]
  /\ UNCHANGED <<store, status, pending>>

\* x writes the rows of R: w[r] is "put" or "delete".
Write(x, R, w) ==
  /\ status[x] = "open"
  /\ \A r \in R :
       /\ store[r] = base[x][r]
       /\ \A y \in Xids \ {x} : pending[y][r] = "keep"
  /\ pending' = [pending EXCEPT ![x] =
                   [r \in Rows |-> IF r \in R THEN w ELSE pending[x][r]]]
  /\ UNCHANGED <<store, status, base>>

Close(x) ==
  /\ status' = [status EXCEPT ![x] = "closed"]
  /\ base' = [base EXCEPT ![x] = NoRows]
  /\ pending' = [pending EXCEPT ![x] = NoWrites]

Commit(x) ==
  /\ status[x] = "open"
  /\ store' = [r \in Rows |-> CASE pending[x][r] = "put"    -> {x}
                                [] pending[x][r] = "delete" -> {}
                                [] OTHER                    -> store[r]]
  /\ Close(x)

Abort(x) ==
  /\ status[x] = "open"
  /\ Close(x)
  /\ UNCHANGED store

Next ==
  \E x \in Xids :
    \/ Begin(x) \/ Refresh(x) \/ Commit(x) \/ Abort(x)
    \/ \E R \in SUBSET Rows, w \in {"put", "delete"} : Write(x, R, w)

Spec == Init /\ [][Next]_vars
============================================================================
