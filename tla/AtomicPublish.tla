--------------------------- MODULE AtomicPublish ---------------------------
(***************************************************************************)
(* What the trusted table of a full load or an upsert promises its         *)
(* readers, without transactions, locks, statements, failures or deaths:   *)
(* it changes by one publish at a time, each of them the whole of what the *)
(* contracts let through of a delivery, at most one for each run, and a    *)
(* run is called a success only once its publish is there.  TrustedTable   *)
(* is shown to implement this module.                                      *)
(***************************************************************************)
EXTENDS QualityContracts

CONSTANTS Delivery, Config, Run

VARIABLES
  config,     \* the configuration, which does not change
  rows,       \* the rows of the table; equal rows are not told apart
  published,  \* runs that have published
  succeeded   \* runs the ledger calls a success

publishVars == <<config, rows, published, succeeded>>

ValidRows(delivery) ==
  {delivery.rows[i] : i \in ValidIndexes(config.contracts, delivery.rows)}

\* The rows of the table no row of a batch takes the place of.
Kept(batch) == {row \in rows : ~ \E new \in batch : SameKey(new, row, config.keys)}

PublishInit ==
  /\ config \in Config
  /\ rows = {}
  /\ published = {}
  /\ succeeded = {}

FirstPublish(r) ==
  /\ r \notin published
  /\ published' = published \union {r}

\* A full load leaves nothing of what was there.
Replace(r, delivery) ==
  /\ config.strategy = "full"
  /\ FirstPublish(r)
  /\ rows' = ValidRows(delivery)
  /\ UNCHANGED <<config, succeeded>>

\* An upsert gives every key of the delivery its row, and leaves the others.
Upsert(r, delivery) ==
  /\ config.strategy = "upsert"
  /\ UpsertAccepts(config.keys, delivery.rows, ValidIndexes(config.contracts, delivery.rows))
  /\ FirstPublish(r)
  /\ rows' = ValidRows(delivery) \union Kept(ValidRows(delivery))
  /\ UNCHANGED <<config, succeeded>>

Succeed(r) ==
  /\ r \in published \ succeeded
  /\ succeeded' = succeeded \union {r}
  /\ UNCHANGED <<config, rows, published>>

PublishNext ==
  \E r \in Run :
    \/ \E delivery \in Delivery : Replace(r, delivery) \/ Upsert(r, delivery)
    \/ Succeed(r)

PublishSpec == PublishInit /\ [][PublishNext]_publishVars
=============================================================================
