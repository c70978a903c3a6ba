---------------------------- MODULE RecordDedup ----------------------------
(***************************************************************************)
(* The store behind the dedup processor (flb_record_dedup.c): a table from *)
(* the hash of a record to the second it was last added.  The 64-bit hash  *)
(* is taken to be free of collisions, so it is the data that was hashed.   *)
(***************************************************************************)
EXTENDS Integers, Functions

CONSTANTS
    TTL,             \* seconds a record stays known
    IgnoreFields,    \* names in the list ignore_fields
    IgnoreRegexes    \* names that patterns of the list ignore_regexes match

ASSUME DedupAssumption == TTL \in Nat

should_ignore_field(field) == field \in IgnoreFields \cup IgnoreRegexes

\* What of a record takes part in the hash when the lists are honoured.
Significant(body) == RestrictDomain(body, LAMBDA f : ~should_ignore_field(f))

\* mk_list_is_empty returns 0 for a list that is empty, so the raw data is
\* hashed when neither list is.
hash_msgpack_data_filtered(body) ==
    IF IgnoreFields /= {} /\ IgnoreRegexes /= {} THEN body ELSE Significant(body)

EmptyStore == [h \in {} |-> 0]

Known_Early(store, hash, now) ==
    hash \in DOMAIN store /\ now - store[hash] < TTL

Known(store, hash, now) ==
    hash \in DOMAIN store /\ now - store[hash] <= TTL

flb_record_dedup_add(store, hash, now) ==
    [h \in DOMAIN store \cup {hash} |-> IF h = hash THEN now ELSE store[h]]

\* The filter of a database opened with a time to live drops what is older.
flb_record_dedup_compact(store, now) ==
    RestrictValues(store, LAMBDA at : now <= at + TTL)
=============================================================================
