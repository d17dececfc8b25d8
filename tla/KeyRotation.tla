------------------------------- MODULE KeyRotation -------------------------------
(***************************************************************************)
(* The rotation of the S3 keys: a new access key, the deletion of every    *)
(* other one, and the secret that names the key the services use.  An      *)
(* attempt that fails is made again, a few times, from its beginning.      *)
(***************************************************************************)
EXTENDS Naturals, FiniteSets

CONSTANTS
    Rotators,   \* runs of rotate_s3_keys_job, or of the script, one at a time each
    Attempts,   \* attempts of a run: one and those of its RetryPolicy
    KeyLimit,   \* access keys that IAM allows a user
    MaxKeys     \* bound on the keys made

ASSUME KeyAssumption == Attempts \in Nat \ {0} /\ KeyLimit \in Nat \ {0} /\ MaxKeys \in Nat \ {0}

VARIABLES
    keys,       \* the access keys of the user, by number
    made,       \* the keys made so far
    secret,     \* the key that the secret names
    rotation,   \* each run: its point, its key, the keys left to delete, its attempts
    settled     \* history: the last run to end had no other beside it, and succeeded

keyVars == <<keys, made, secret, rotation, settled>>

NoRotation == [at |-> "idle", new |-> 0, left |-> {}, attempts |-> 0, alone |-> TRUE]

KeyInit ==
    /\ keys = {1} /\ made = 1 /\ secret = 1 /\ settled = TRUE
    /\ rotation = [r \in Rotators |-> NoRotation]

Rotating == {r \in Rotators : rotation[r].at # "idle"}

StartRotation(r) ==
    /\ r \notin Rotating
    /\ rotation' = [s \in Rotators |->
         IF s = r THEN [NoRotation EXCEPT !.at = "create", !.attempts = 1, !.alone = Rotating = {}]
         ELSE [rotation[s] EXCEPT !.alone = FALSE]]
    /\ UNCHANGED <<keys, made, secret, settled>>

\* An attempt is over without success, and is made again if there is one left.
Fail(r) ==
    IF rotation[r].attempts < Attempts
    THEN /\ rotation' = [rotation EXCEPT ![r].at = "create", ![r].attempts = @ + 1]
         /\ UNCHANGED settled
    ELSE rotation' = [rotation EXCEPT ![r] = NoRotation] /\ settled' = FALSE

CallFails(r) ==
    /\ r \in Rotating /\ Fail(r)
    /\ UNCHANGED <<keys, made, secret>>

\* The process is killed: the run fails, and there is no other attempt.
KillRotation(r) ==
    /\ r \in Rotating
    /\ rotation' = [rotation EXCEPT ![r] = NoRotation] /\ settled' = FALSE
    /\ UNCHANGED <<keys, made, secret>>

\* Slip: the limit is taken for one that may be passed by one.
CreateBeyond(r) ==
    /\ rotation[r].at = "create"
    /\ IF Cardinality(keys) <= KeyLimit
       THEN /\ made < MaxKeys /\ made' = made + 1
            /\ keys' = keys \union {made + 1}
            /\ rotation' = [rotation EXCEPT ![r].at = "list", ![r].new = made + 1]
            /\ UNCHANGED settled
       ELSE Fail(r) /\ UNCHANGED <<keys, made>>
    /\ UNCHANGED secret

\* create_access_key, which is refused above the limit
CreateKey(r) ==
    /\ rotation[r].at = "create"
    /\ IF Cardinality(keys) < KeyLimit
       THEN /\ made < MaxKeys /\ made' = made + 1
            /\ keys' = keys \union {made + 1}
            /\ rotation' = [rotation EXCEPT ![r].at = "list", ![r].new = made + 1]
            /\ UNCHANGED settled
       ELSE Fail(r) /\ UNCHANGED <<keys, made>>
    /\ UNCHANGED secret

\* Slip: the new key is not told from the others.
ListAll(r) ==
    /\ rotation[r].at = "list"
    /\ rotation' = [rotation EXCEPT ![r].at = "delete", ![r].left = keys]
    /\ UNCHANGED <<keys, made, secret, settled>>

ListKeys(r) ==
    /\ rotation[r].at = "list"
    /\ rotation' = [rotation EXCEPT ![r].at = "delete", ![r].left = keys \ {rotation[r].new}]
    /\ UNCHANGED <<keys, made, secret, settled>>

\* A key that another run has deleted by now raises.
DeleteKey(r, k) ==
    /\ rotation[r].at = "delete" /\ k \in rotation[r].left
    /\ keys' = keys \ {k}
    /\ IF k \in keys
       THEN rotation' = [rotation EXCEPT ![r].left = @ \ {k}] /\ UNCHANGED settled
       ELSE Fail(r)
    /\ UNCHANGED <<made, secret>>

\* kubectl patch, and the run has succeeded.
PatchSecret(r) ==
    /\ rotation[r].at = "delete" /\ rotation[r].left = {}
    /\ secret' = rotation[r].new
    /\ settled' = rotation[r].alone
    /\ rotation' = [rotation EXCEPT ![r] = NoRotation]
    /\ UNCHANGED <<keys, made>>

KeyNext ==
    \E r \in Rotators :
      \/ StartRotation(r) \/ CallFails(r) \/ KillRotation(r)
      \/ CreateKey(r) \/ ListKeys(r) \/ PatchSecret(r)
      \/ \E k \in 1 .. MaxKeys : DeleteKey(r, k)

KeySpec == KeyInit /\ [][KeyNext]_keyVars

-----------------------------------------------------------------------------
KeyTypeOK ==
    /\ made \in 1 .. MaxKeys /\ keys \subseteq 1 .. made /\ secret \in 1 .. made
    /\ Cardinality(keys) <= KeyLimit
    /\ \A r \in Rotators :
         /\ rotation[r].at \in {"idle", "create", "list", "delete"}
         /\ rotation[r].new \in 0 .. made /\ rotation[r].left \subseteq 1 .. made
         /\ rotation[r].attempts \in 0 .. Attempts /\ rotation[r].alone \in BOOLEAN
    /\ settled \in BOOLEAN

\* After a run that had no other beside it and succeeded, at whichever attempt and
\* whatever earlier runs left behind, the secret names the only key there is.
SecretBacked == settled /\ Rotating = {} => keys = {secret}
=============================================================================
