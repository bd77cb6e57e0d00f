------------------------------ MODULE IamAccess ------------------------------
(***************************************************************************)
(* Who may do what: access keys and attached policies on the identities of *)
(* one cluster's IAM service, written by three controllers that share an   *)
(* identity (S3Identity, S3Credentials, S3PolicyBinding), and the          *)
(* S3OIDCProvider controller.                                              *)
(*                                                                         *)
(* The IAM service stores an identity as one record without versions. Most *)
(* changes read the record and write it back whole, under a lock of the    *)
(* operator process for that identity (swadmin.iamUserLocks).              *)
(*                                                                         *)
(* "lit" is the name the CRs refer to: an S3Identity of that name, whose   *)
(* IAM name is "man", or, while there is none, an IAM user "lit" nobody    *)
(* manages.                                                                *)
(***************************************************************************)
EXTENDS Integers, FiniteSets

CONSTANTS
    Bindings,   \* S3PolicyBindings of the one policy
    MaxKey,     \* access key ids: the user's own is 1, the others are drawn
    CacheLag,   \* does the operator's cache lag behind the API server
    MaxEdits,   \* bound: what people change
    MaxFaults   \* bound: failed calls, restarts, losses of the IAM store

ASSUME BoundsAssumption ==
    /\ MaxKey \in Nat \ {0, 1} /\ MaxEdits \in Nat /\ MaxFaults \in Nat
    /\ CacheLag \in BOOLEAN

Users == {"man", "lit"}
Nobody == "nobody"
OwnKey == 1
AccessKeys == 1 .. MaxKey
SecretKeys == 1 .. 2
Pairs == AccessKeys \X SecretKeys
NoPair == <<0, 0>>

(* An identity: which incarnation of it, its account state, its keys, and  *)
(* whether the policy is attached.                                         *)
NoUser == [up |-> FALSE, inc |-> 0, disabled |-> FALSE, keys |-> {}, pol |-> FALSE]

(* The S3Credentials CR (cross: its Secret is in another namespace, where a*)
(* grant that is missing is like a Secret that is), its Secret, an         *)
(* S3PolicyBinding, the OIDC CR.                                           *)
NoCred == [exists |-> FALSE, cross |-> FALSE, retain |-> FALSE, deleting |-> FALSE, fin |-> FALSE,
           user |-> Nobody, key |-> 0, ready |-> FALSE]
NoSecret == [exists |-> FALSE, managed |-> FALSE, owner |-> "none", pair |-> NoPair]
NoBinding == [exists |-> FALSE, retain |-> FALSE, deleting |-> FALSE, fin |-> FALSE,
              subjects |-> {}, attached |-> {}, ready |-> FALSE]
NoProvider == [exists |-> FALSE, deleting |-> FALSE, fin |-> FALSE, phase |-> "none"]

VARIABLES
    users,      \* the identities in the IAM service
    policy,     \* the policy is there
    cluster,    \* the Seaweed CR is there
    ident,      \* the S3Identity CR: none, on, off (spec.disabled), deleting
    identPass,  \* the S3Identity controller's open read-modify-write
    cred, secret, seen,   \* the S3Credentials CR, its Secret, the cached copies
    keyPass,    \* the S3Credentials controller's pass
    binding,    \* the S3PolicyBinding CRs
    bindPass,   \* the S3PolicyBinding controller's pass
    provider,   \* the S3OIDCProvider CR
    edits, faults

iamVars == <<users, policy>>
identVars == <<ident, identPass>>
keyVars == <<cred, secret, seen, keyPass>>
bindVars == <<binding, bindPass>>
vars == <<iamVars, cluster, identVars, keyVars, bindVars, provider, edits, faults>>

(* A pass: where it is, the identity it holds the lock of and the record   *)
(* it has read. The cred and the Secret may have changed since they were   *)
(* read: a write of theirs is then rejected.                               *)
IdlePass == [pc |-> "idle", held |-> Nobody, buf |-> NoUser]
IdleKeyPass ==
    [pc |-> "idle", held |-> Nobody, buf |-> NoUser, c |-> NoCred, s |-> NoSecret,
     user |-> Nobody, pair |-> NoPair, stale |-> {}]
IdleBindPass ==
    [pc |-> "idle", held |-> Nobody, buf |-> NoUser, b |-> "none", stale |-> FALSE,
     gone |-> FALSE, detach |-> {}, attach |-> {}, done |-> {}, missing |-> FALSE]

Fault == faults < MaxFaults /\ faults' = faults + 1
Edit == edits < MaxEdits /\ edits' = edits + 1

(***************************************************************************)
(* swadmin.IAMClient.                                                      *)
(***************************************************************************)

(* lockUser: one mutation of an identity at a time.                        *)
MutFree(u) == TRUE

Free(u) == u \notin {identPass.held, keyPass.held, bindPass.held}

(* UpdateUser writes the whole identity; it fails when there is none.      *)
UpdateUser(u, id) ==
    users' = IF users[u].up THEN [users EXCEPT ![u] = [id EXCEPT !.inc = users[u].inc]] ELSE users

(* CreateUser and DeleteUser take no lock.                                 *)
CreateUser(u, disabled) ==
    users' = [users EXCEPT ![u] = [NoUser EXCEPT !.up = TRUE, !.inc = users[u].inc + 1,
                                               !.disabled = disabled]]
DeleteUser(u) == users' = [users EXCEPT ![u] = [NoUser EXCEPT !.inc = users[u].inc]]

(* resolveIdentityIAMName.                                                 *)
Resolve(name) == IF name = "lit" /\ ident # "none" THEN "man" ELSE name

(***************************************************************************)
(* S3Identity: creates the user, keeps its state, deletes it.              *)
(***************************************************************************)
IdentCreate ==
    /\ cluster /\ ident \in {"on", "off"} /\ identPass.pc = "idle" /\ ~users["man"].up
    /\ CreateUser("man", ident = "off")
    /\ UNCHANGED <<policy, cluster, identVars, keyVars, bindVars, provider, edits, faults>>

(* SetUserState: GetUser, then UpdateUser.                                 *)
IdentRead ==
    /\ cluster /\ ident \in {"on", "off"} /\ identPass.pc = "idle" /\ users["man"].up
    /\ users["man"].disabled # (ident = "off") /\ Free("man")
    /\ identPass' = [pc |-> "write", held |-> "man",
                     buf |-> [users["man"] EXCEPT !.disabled = (ident = "off")]]
    /\ UNCHANGED <<iamVars, cluster, ident, keyVars, bindVars, provider, edits, faults>>

IdentWrite ==
    /\ identPass.pc = "write"
    /\ UpdateUser("man", identPass.buf)
    /\ identPass' = IdlePass
    /\ UNCHANGED <<policy, cluster, ident, keyVars, bindVars, provider, edits, faults>>

(* handleDeletion: DeleteUser, then the finalizer.                         *)
IdentDelete ==
    /\ cluster /\ ident = "deleting" /\ identPass.pc = "idle"
    /\ IF users["man"].up
         THEN DeleteUser("man") /\ identPass' = [identPass EXCEPT !.pc = "finalize"]
         ELSE users' = users /\ identPass' = [identPass EXCEPT !.pc = "finalize"]
    /\ UNCHANGED <<policy, cluster, ident, keyVars, bindVars, provider, edits, faults>>

IdentFinalize ==
    /\ identPass.pc = "finalize" /\ ident' = "none" /\ identPass' = IdlePass
    /\ UNCHANGED <<iamVars, cluster, keyVars, bindVars, provider, edits, faults>>

(***************************************************************************)
(* S3Credentials.                                                          *)
(***************************************************************************)

(* Writes to the API server, which the cache sees now or later. It lags on *)
(* the CR or on the Secret at a time.                                      *)
PutCred(c) ==
    /\ cred' = c
    /\ \/ seen' = [seen EXCEPT !.cred = c, !.lag = @ \ {"cred"}]
       \/ CacheLag /\ seen.lag = {} /\ c # cred /\ seen' = [seen EXCEPT !.lag = @ \cup {"cred"}]

PutSecret(s) ==
    /\ secret' = s
    /\ \/ seen' = [seen EXCEPT !.secret = s, !.lag = @ \ {"secret"}]
       \/ CacheLag /\ seen.lag = {} /\ s # secret /\ seen' = [seen EXCEPT !.lag = @ \cup {"secret"}]

KeyPassTo(p) == keyPass' = p /\ UNCHANGED <<cred, secret, seen>>

(* The end of a pass with a write of the CR, which an old copy cannot make.*)
KeyUpdate(c) ==
    IF "cred" \in keyPass.stale
      THEN KeyPassTo(IdleKeyPass)
      ELSE PutCred(c) /\ keyPass' = IdleKeyPass /\ secret' = secret

MutCredUser(c) == Resolve("lit")

(* Once provisioned the credential keeps its user (the pin). A key recorded*)
(* without a user is older than pinning, and the reference's own name's.   *)
CredUser(c) ==
    CASE c.user # Nobody               -> c.user
      [] c.user = Nobody /\ c.key # 0  -> "lit"
      [] OTHER                         -> Resolve("lit")

InUse ==
    {cred.key, secret.pair[1], seen.cred.key, seen.secret.pair[1], keyPass.c.key, keyPass.pair[1]}
      \cup {k[1] : k \in users["man"].keys \cup users["lit"].keys \cup bindPass.buf.keys
                         \cup identPass.buf.keys}

FreshKeys == AccessKeys \ (InUse \cup {OwnKey})

(* GenerateKeyPair: a random key is one nobody has.                        *)
GenerateKeyPair == <<CHOOSE k \in FreshKeys : TRUE, 1>>

(* The pair reconcileKey works for: the one in the Secret, or a new one.   *)
DesiredPair ==
    IF seen.secret.exists /\ seen.secret.pair # NoPair THEN seen.secret.pair ELSE GenerateKeyPair

(* A cross-namespace Secret must be there: the controller creates none.    *)
SecretMissing(c) == c.cross /\ ~seen.secret.exists

(* A pass that changes nothing is left out: the pair of the Secret is      *)
(* registered and recorded, or a dependency is still missing.              *)
KeyInOrder(c, u) ==
    IF cluster /\ users[u].up /\ ~SecretMissing(c)
      THEN /\ c.fin /\ c.ready /\ c.user = u
           /\ seen.secret.exists /\ c.key = seen.secret.pair[1]
           /\ seen.secret.pair \in users[u].keys
      ELSE ~c.ready /\ (cluster => c.fin)

(* A deletion leaves the Secret of another namespace alone.                *)
DropSecret(c) == IF c.cross THEN "finalize" ELSE "remove"
KeepSecret(c) == IF c.cross THEN "finalize" ELSE "orphan"

MutKeyPass(c, u, pair) ==
    LET p    == [IdleKeyPass EXCEPT !.c = c, !.s = seen.secret, !.user = u, !.stale = seen.lag]
        same == {k \in users[u].keys : k[1] = pair[1]}
    IN  CASE ~cluster -> [p EXCEPT !.pc = "pending"]
          [] cluster /\ c.deleting -> [p EXCEPT !.pc = IF c.retain THEN KeepSecret(c) ELSE "revoke"]
          [] cluster /\ ~c.deleting /\ ~c.fin -> [p EXCEPT !.pc = "protect"]
          [] cluster /\ ~c.deleting /\ c.fin /\ (~users[u].up \/ SecretMissing(c)) ->
               [p EXCEPT !.pc = "pending"]
          [] OTHER -> [p EXCEPT !.pair = pair,
                                !.pc = IF same = {} THEN "create"
                                       ELSE "secret"]

(* A pass up to its first change: it reads the CR and the Secret from the  *)
(* cache and the identity, without the lock; then come the cluster, the    *)
(* finalizer, the identity, the key. The cache is late by at most one pass,*)
(* except that a deletion, which looks for the Secret at its end, may still*)
(* not find it.                                                            *)
KeyPass(c, u, pair) ==
    LET p    == [IdleKeyPass EXCEPT !.c = c, !.s = seen.secret, !.user = u, !.stale = seen.lag]
        same == {k \in users[u].keys : k[1] = pair[1]}
    IN  CASE ~cluster -> [p EXCEPT !.pc = "pending"]
          [] cluster /\ c.deleting -> [p EXCEPT !.pc = IF c.retain THEN KeepSecret(c) ELSE "revoke"]
          [] cluster /\ ~c.deleting /\ ~c.fin -> [p EXCEPT !.pc = "protect"]
          [] cluster /\ ~c.deleting /\ c.fin /\ (~users[u].up \/ SecretMissing(c)) ->
               [p EXCEPT !.pc = "pending"]
          [] OTHER -> [p EXCEPT !.pair = pair,
                                !.pc = IF same = {} THEN "create"
                                       ELSE IF same = {pair} THEN "secret" ELSE "update"]

KeyBegin ==
    /\ keyPass.pc = "idle" /\ seen.cred.exists
    /\ FreshKeys # {}   \* the bound MaxKey: there is a key to draw
    /\ LET u == CredUser(seen.cred)
       IN  /\ (cluster /\ seen.cred.deleting) \/ ~KeyInOrder(seen.cred, u)
           /\ keyPass' = KeyPass(seen.cred, u, DesiredPair)
    /\ seen' = IF seen.cred.deleting THEN seen ELSE [cred |-> cred, secret |-> secret, lag |-> {}]
    /\ UNCHANGED <<cred, secret, iamVars, cluster, identVars, bindVars, provider, edits, faults>>

(* The finalizer is added; a dependency is missing, or a call has failed.  *)
KeyProtect ==
    /\ keyPass.pc = "protect" /\ KeyUpdate([cred EXCEPT !.fin = TRUE])
    /\ UNCHANGED <<iamVars, cluster, identVars, bindVars, provider, edits, faults>>

KeyPending ==
    /\ keyPass.pc = "pending"
    /\ KeyUpdate([cred EXCEPT !.ready = FALSE])
    /\ UNCHANGED <<iamVars, cluster, identVars, bindVars, provider, edits, faults>>

(* CreateAccessKey: one call, under the lock.                              *)
KeyCreate ==
    /\ keyPass.pc = "create" /\ Free(keyPass.user)
    /\ IF users[keyPass.user].up /\ \A k \in users[keyPass.user].keys : k[1] # keyPass.pair[1]
         THEN /\ users' = [users EXCEPT ![keyPass.user].keys = @ \cup {keyPass.pair}]
              /\ KeyPassTo([keyPass EXCEPT !.pc = "secret"])
         ELSE users' = users /\ KeyPassTo([keyPass EXCEPT !.pc = "pending"])
    /\ UNCHANGED <<policy, cluster, identVars, bindVars, provider, edits, faults>>

(* UpdateAccessKey: GetUser, then UpdateUser.                              *)
KeyRead ==
    /\ keyPass.pc = "update" /\ Free(keyPass.user)
    /\ LET id == users[keyPass.user]
       IN  IF id.up /\ \E k \in id.keys : k[1] = keyPass.pair[1]
             THEN KeyPassTo([keyPass EXCEPT !.pc = "write", !.held = keyPass.user,
                               !.buf = [id EXCEPT !.keys =
                                          {k \in @ : k[1] # keyPass.pair[1]} \cup {keyPass.pair}]])
             ELSE KeyPassTo([keyPass EXCEPT !.pc = "pending"])
    /\ UNCHANGED <<iamVars, cluster, identVars, bindVars, provider, edits, faults>>

KeyWrite ==
    /\ keyPass.pc = "write"
    /\ UpdateUser(keyPass.user, keyPass.buf)
    /\ KeyPassTo([keyPass EXCEPT !.pc = IF users[keyPass.user].up THEN "secret" ELSE "pending",
                                 !.held = Nobody, !.buf = NoUser])
    /\ UNCHANGED <<policy, cluster, identVars, bindVars, provider, edits, faults>>

MutKeySecret ==
    /\ keyPass.pc = "secret"
    /\ LET next == [keyPass EXCEPT !.pc = "clean", !.s = NoSecret, !.stale = @ \ {"secret"}]
       IN  CASE keyPass.s.exists /\ keyPass.s.pair = keyPass.pair -> KeyPassTo(next)
             [] keyPass.s.exists /\ keyPass.s.pair # keyPass.pair ->
                  IF "secret" \in keyPass.stale THEN KeyPassTo(IdleKeyPass)
                  ELSE /\ PutSecret([secret EXCEPT !.pair = keyPass.pair])
                       /\ keyPass' = next /\ cred' = cred
             [] OTHER ->
                  /\ PutSecret([exists |-> TRUE, managed |-> TRUE, owner |-> "cr", pair |-> keyPass.pair])
                  /\ keyPass' = next /\ cred' = cred
    /\ UNCHANGED <<iamVars, cluster, identVars, bindVars, provider, edits, faults>>

(* writeSecret: create it as ours, or update the copy that was read; an    *)
(* error ends the pass without a status write.                             *)
KeySecret ==
    /\ keyPass.pc = "secret"
    /\ LET next == [keyPass EXCEPT !.pc = "clean", !.s = NoSecret, !.stale = @ \ {"secret"}]
       IN  CASE keyPass.s.exists /\ keyPass.s.pair = keyPass.pair -> KeyPassTo(next)
             [] keyPass.s.exists /\ keyPass.s.pair # keyPass.pair ->
                  IF "secret" \in keyPass.stale THEN KeyPassTo(IdleKeyPass)
                  ELSE /\ PutSecret([secret EXCEPT !.pair = keyPass.pair])
                       /\ keyPass' = next /\ cred' = cred
             [] OTHER ->
                  IF secret.exists THEN KeyPassTo(IdleKeyPass)
                  ELSE /\ PutSecret([exists |-> TRUE, managed |-> TRUE, owner |-> "cr",
                                     pair |-> keyPass.pair])
                       /\ keyPass' = next /\ cred' = cred
    /\ UNCHANGED <<iamVars, cluster, identVars, bindVars, provider, edits, faults>>

(* The key this one replaces is revoked (DeleteAccessKey is idempotent).   *)
KeyClean ==
    /\ keyPass.pc = "clean"
    /\ IF keyPass.c.key \notin {0, keyPass.pair[1]}
         THEN /\ Free(keyPass.user)
              /\ users' = [users EXCEPT ![keyPass.user].keys = {k \in @ : k[1] # keyPass.c.key}]
         ELSE users' = users
    /\ KeyPassTo([keyPass EXCEPT !.pc = "status"])
    /\ UNCHANGED <<policy, cluster, identVars, bindVars, provider, edits, faults>>

KeyReady ==
    /\ keyPass.pc = "status"
    /\ KeyUpdate([cred EXCEPT !.user = keyPass.user, !.key = keyPass.pair[1], !.ready = TRUE])
    /\ UNCHANGED <<iamVars, cluster, identVars, bindVars, provider, edits, faults>>

(* handleDeletion: revoke the key the status records, remove the Secret if *)
(* it is marked as ours (by name: whatever is there by now is deleted); or *)
(* keep both, and cut the Secret from its owner.                           *)
KeyRevoke ==
    /\ keyPass.pc = "revoke"
    /\ IF keyPass.c.key # 0
         THEN /\ Free(keyPass.user)
              /\ users' = [users EXCEPT ![keyPass.user].keys = {k \in @ : k[1] # keyPass.c.key}]
         ELSE users' = users
    /\ KeyPassTo([keyPass EXCEPT !.pc = DropSecret(keyPass.c)])
    /\ UNCHANGED <<policy, cluster, identVars, bindVars, provider, edits, faults>>

KeyRemove ==
    /\ keyPass.pc = "remove"
    /\ LET next == [keyPass EXCEPT !.pc = "finalize"]
       IN  IF seen.secret.exists /\ seen.secret.managed /\ secret.exists
             THEN PutSecret(NoSecret) /\ keyPass' = next /\ cred' = cred
             ELSE KeyPassTo(next)
    /\ UNCHANGED <<iamVars, cluster, identVars, bindVars, provider, edits, faults>>

KeyOrphan ==
    /\ keyPass.pc = "orphan"
    /\ LET next == [keyPass EXCEPT !.pc = "finalize"]
       IN  IF seen.secret.exists /\ seen.secret.managed /\ seen.secret.owner # "none"
             THEN IF "secret" \in seen.lag
                    THEN KeyPassTo(IdleKeyPass)
                    ELSE PutSecret([secret EXCEPT !.owner = "none"]) /\ keyPass' = next /\ cred' = cred
             ELSE KeyPassTo(next)
    /\ UNCHANGED <<iamVars, cluster, identVars, bindVars, provider, edits, faults>>

(* The finalizer goes and the CR with it: its Secret has lost its owner.   *)
(* One that is created again names the same Secret.                        *)
CredGone ==
    /\ PutCred([NoCred EXCEPT !.cross = cred.cross])
    /\ secret' = IF secret.owner = "cr" THEN [secret EXCEPT !.owner = "gone"] ELSE secret

KeyFinalize ==
    /\ keyPass.pc = "finalize"
    /\ IF "cred" \in keyPass.stale THEN KeyPassTo(IdleKeyPass) ELSE CredGone /\ keyPass' = IdleKeyPass
    /\ UNCHANGED <<iamVars, cluster, identVars, bindVars, provider, edits, faults>>

(* A call fails, before or after it took effect: an IAM call makes the CR  *)
(* Failed, a call to the API server ends the pass.                         *)
KeyFails ==
    /\ keyPass.pc # "idle" /\ Fault
    /\ \/ KeyPassTo(IdleKeyPass)
       \/ /\ keyPass.pc \in {"create", "update", "write", "clean"}
          /\ KeyPassTo([keyPass EXCEPT !.pc = "pending", !.held = Nobody, !.buf = NoUser])
    /\ UNCHANGED <<iamVars, cluster, identVars, bindVars, provider, edits>>

(***************************************************************************)
(* S3PolicyBinding.                                                        *)
(***************************************************************************)
BindPassTo(p) == bindPass' = p /\ binding' = binding

(* The end of a pass with a write of the CR.                               *)
BindUpdate(b, o) ==
    /\ bindPass' = IdleBindPass
    /\ binding' = IF bindPass.stale THEN binding ELSE [binding EXCEPT ![b] = o]

(* A pass that changes nothing is left out.                                *)
BindInOrder(o, desired) ==
    IF cluster /\ policy
      THEN /\ o.fin /\ o.ready = (o.attached = desired)
           /\ o.attached = {u \in desired : users[u].up} /\ \A u \in o.attached : users[u].pol
      ELSE ~o.ready /\ (cluster => o.fin)

(* The head of Reconcile, up to the first change of an identity.           *)
BindBegin(b) ==
    /\ bindPass.pc = "idle" /\ binding[b].exists
    /\ LET o == binding[b]
           desired == {Resolve(s) : s \in o.subjects}
           p == [IdleBindPass EXCEPT !.pc = "detach", !.b = b]
       IN  /\ (cluster /\ o.deleting) \/ ~BindInOrder(o, desired)
           /\ CASE ~cluster -> BindUpdate(b, [o EXCEPT !.ready = FALSE])
                [] cluster /\ o.deleting ->
                     BindPassTo([p EXCEPT !.gone = TRUE, !.detach = IF o.retain THEN {} ELSE o.attached])
                [] cluster /\ ~o.deleting /\ ~o.fin -> BindUpdate(b, [o EXCEPT !.fin = TRUE])
                [] cluster /\ ~o.deleting /\ o.fin /\ ~policy ->
                     BindUpdate(b, [o EXCEPT !.ready = FALSE])
                [] OTHER -> BindPassTo([p EXCEPT !.detach = o.attached \ desired, !.attach = desired])
    /\ UNCHANGED <<iamVars, cluster, identVars, keyVars, provider, edits, faults>>

(* The identities still to be changed: first those to detach from.         *)
BindTodo == IF bindPass.detach # {} THEN bindPass.detach ELSE bindPass.attach

(* What is left after u, which had the policy changed or was not there.    *)
BindDone(u, found) ==
    [bindPass EXCEPT !.detach = @ \ {u},
                     !.attach  = IF bindPass.detach = {} THEN @ \ {u} ELSE @,
                     !.done    = IF bindPass.detach = {} /\ found THEN @ \cup {u} ELSE @,
                     !.missing = @ \/ (bindPass.detach = {} /\ ~found),
                     !.pc = "detach", !.held = Nobody, !.buf = NoUser]

(* AttachPolicy and DetachPolicy: GetUser, then UpdateUser if it matters.  *)
BindRead(u) ==
    /\ bindPass.pc = "detach" /\ u \in BindTodo /\ Free(u)
    /\ LET want == bindPass.detach = {}
       IN  IF users[u].up /\ users[u].pol # want
             THEN BindPassTo([bindPass EXCEPT !.pc = "write", !.held = u,
                                !.buf = [users[u] EXCEPT !.pol = want]])
             ELSE BindPassTo(BindDone(u, users[u].up))
    /\ UNCHANGED <<iamVars, cluster, identVars, keyVars, provider, edits, faults>>

BindWrite ==
    /\ bindPass.pc = "write"
    /\ UpdateUser(bindPass.held, bindPass.buf)
    /\ BindPassTo(BindDone(bindPass.held, users[bindPass.held].up))
    /\ UNCHANGED <<policy, cluster, identVars, keyVars, provider, edits, faults>>

(* All done: the status, or the finalizer.                                 *)
BindEnds ==
    /\ bindPass.pc = "detach" /\ BindTodo = {}
    /\ LET b == bindPass.b
       IN  BindUpdate(b, IF bindPass.gone THEN NoBinding
                         ELSE [binding[b] EXCEPT !.attached = bindPass.done,
                                                 !.ready = ~bindPass.missing])
    /\ UNCHANGED <<iamVars, cluster, identVars, keyVars, provider, edits, faults>>

(* A call fails: while attaching, the status keeps those attached so far.  *)
BindFails ==
    /\ bindPass.pc # "idle" /\ Fault
    /\ \/ BindPassTo(IdleBindPass)
       \/ /\ ~bindPass.gone /\ BindTodo # {}
          /\ BindUpdate(bindPass.b,
               [binding[bindPass.b] EXCEPT
                  !.attached = IF bindPass.detach = {} THEN bindPass.done ELSE @, !.ready = FALSE])
    /\ UNCHANGED <<iamVars, cluster, identVars, keyVars, provider, edits>>

(***************************************************************************)
(* S3OIDCProvider: the IAM client cannot register one yet (ErrOIDCNotWired)*)
(* and so there is never one to remove.                                    *)
(***************************************************************************)
PutOIDCProvider == "Failed"

MutProviderReconcile ==
    /\ provider.exists
    /\ provider' =
         CASE provider.deleting -> NoProvider
           [] ~provider.deleting /\ ~cluster -> [provider EXCEPT !.phase = "Pending"]
           [] ~provider.deleting /\ cluster /\ ~provider.fin -> [provider EXCEPT !.fin = TRUE]
           [] OTHER -> [provider EXCEPT !.phase = "Ready"]
    /\ UNCHANGED <<iamVars, cluster, identVars, keyVars, bindVars, edits, faults>>

ProviderReconcile ==
    /\ provider.exists
    /\ provider' =
         CASE provider.deleting -> NoProvider
           [] ~provider.deleting /\ ~cluster -> [provider EXCEPT !.phase = "Pending"]
           [] ~provider.deleting /\ cluster /\ ~provider.fin -> [provider EXCEPT !.fin = TRUE]
           [] OTHER -> [provider EXCEPT !.phase = PutOIDCProvider]
    /\ UNCHANGED <<iamVars, cluster, identVars, keyVars, bindVars, edits, faults>>

(***************************************************************************)
(* Everything else: people, Kubernetes, the S3Policy controller, faults.   *)
(***************************************************************************)
Spoil(what) == [keyPass EXCEPT !.stale = IF keyPass.pc = "idle" THEN {} ELSE @ \cup {what}]

IdentEdit ==
    /\ Edit
    /\ \E i \in {"on", "off", "deleting"} :
         ident' = i /\ <<ident, i>> \in {<<"none", "on">>, <<"on", "off">>, <<"off", "on">>,
                                        <<"on", "deleting">>, <<"off", "deleting">>}
    /\ UNCHANGED <<iamVars, cluster, identPass, keyVars, bindVars, provider, faults>>

CredEdit ==
    /\ Edit /\ keyPass' = Spoil("cred")
    /\ \/ /\ ~cred.exists /\ PutCred([cred EXCEPT !.exists = TRUE]) /\ secret' = secret
       \/ /\ cred.exists /\ ~cred.deleting
          /\ IF cred.fin
               THEN /\ \E r \in BOOLEAN : PutCred([cred EXCEPT !.deleting = TRUE, !.retain = r])
                    /\ secret' = secret
               ELSE CredGone
    /\ UNCHANGED <<iamVars, cluster, identVars, bindVars, provider, faults>>

(* A person gives a pair of their own, rotates the secret key, blanks the  *)
(* Secret, or deletes it.                                                  *)
SecretEdit ==
    /\ Edit /\ keyPass' = Spoil("secret") /\ cred' = cred
    /\ \E s \in {[secret EXCEPT !.exists = TRUE, !.pair = <<OwnKey, 1>>],
                 [secret EXCEPT !.pair = <<@[1], 2>>], [secret EXCEPT !.pair = NoPair], NoSecret} :
         /\ s # secret /\ (secret.exists \/ s.exists) /\ (s.pair[2] = 2 => s.pair[1] # 0)
         /\ PutSecret(s)
    /\ UNCHANGED <<iamVars, cluster, identVars, bindVars, provider, faults>>

BindEdit(b) ==
    /\ Edit /\ ~binding[b].deleting
    /\ \/ \E s \in SUBSET Users \ {{}, binding[b].subjects} :
            binding' = [binding EXCEPT ![b] = [@ EXCEPT !.exists = TRUE, !.subjects = s]]
       \/ /\ binding[b].exists /\ \E r \in BOOLEAN :
               binding' = [binding EXCEPT ![b] = IF @.fin THEN [@ EXCEPT !.deleting = TRUE, !.retain = r]
                                                          ELSE NoBinding]
    /\ bindPass' = [bindPass EXCEPT !.stale = @ \/ bindPass.b = b]
    /\ UNCHANGED <<iamVars, cluster, identVars, keyVars, provider, faults>>

ProviderEdit ==
    /\ Edit /\ ~provider.deleting
    /\ provider' = IF ~provider.exists THEN [NoProvider EXCEPT !.exists = TRUE]
                   ELSE IF provider.fin THEN [provider EXCEPT !.deleting = TRUE] ELSE NoProvider
    /\ UNCHANGED <<iamVars, cluster, identVars, keyVars, bindVars, faults>>

ClusterEdit ==
    /\ Edit /\ cluster' = ~cluster
    /\ UNCHANGED <<iamVars, identVars, keyVars, bindVars, provider, faults>>

(* The S3Policy controller puts the policy, again if it is lost.           *)
PolicyPut ==
    /\ ~policy /\ policy' = TRUE
    /\ UNCHANGED <<users, cluster, identVars, keyVars, bindVars, provider, edits, faults>>

(* The garbage collector; the cache.                                       *)
Collect ==
    /\ secret.exists /\ secret.owner = "gone" /\ PutSecret(NoSecret)
    /\ cred' = cred /\ keyPass' = Spoil("secret")
    /\ UNCHANGED <<iamVars, cluster, identVars, bindVars, provider, edits, faults>>

CacheSync ==
    /\ seen.lag # {} /\ seen' = [cred |-> cred, secret |-> secret, lag |-> {}]
    /\ UNCHANGED <<iamVars, cluster, identVars, cred, secret, keyPass, bindVars, provider, edits, faults>>

(* A restart of the operator, and of a filer with an ephemeral store.      *)
Restart ==
    /\ Fault /\ identPass' = IdlePass /\ keyPass' = IdleKeyPass /\ bindPass' = IdleBindPass
    /\ UNCHANGED <<iamVars, cluster, ident, cred, secret, seen, binding, provider, edits>>

StoreLost ==
    /\ Fault /\ policy' = FALSE
    /\ users' = [u \in Users |-> [NoUser EXCEPT !.inc = users[u].inc]]
    /\ UNCHANGED <<cluster, identVars, keyVars, bindVars, provider, edits>>

(* CRs just created: the S3Identity or a user of that name, a Secret of    *)
(* the user's or none; or a credential from before the pinning.            *)
LegacyKey == 2

Created ==
    /\ users = [u \in Users |-> IF u = "lit" THEN [NoUser EXCEPT !.up = TRUE] ELSE NoUser]
    /\ \E x \in BOOLEAN : cred = [NoCred EXCEPT !.exists = TRUE, !.cross = x]
    /\ secret \in {NoSecret, [NoSecret EXCEPT !.exists = TRUE, !.pair = <<OwnKey, 1>>]}

Legacy ==
    /\ users = [u \in Users |-> IF u = "lit" THEN [NoUser EXCEPT !.up = TRUE, !.keys = {<<LegacyKey, 1>>}]
                                ELSE NoUser]
    /\ cred = [NoCred EXCEPT !.exists = TRUE, !.fin = TRUE, !.key = LegacyKey, !.ready = TRUE]
    /\ secret = [exists |-> TRUE, managed |-> TRUE, owner |-> "cr", pair |-> <<LegacyKey, 1>>]

Init ==
    /\ ident \in {"none", "on"} /\ cluster = TRUE /\ policy = FALSE
    /\ Created \/ Legacy
    /\ seen = [cred |-> cred, secret |-> secret, lag |-> {}]
    /\ binding = [b \in Bindings |-> [NoBinding EXCEPT !.exists = TRUE, !.subjects = {"lit"}]]
    /\ provider = IF ident = "on" THEN [NoProvider EXCEPT !.exists = TRUE, !.fin = TRUE, !.phase = "Failed"]
                  ELSE NoProvider
    /\ identPass = IdlePass /\ keyPass = IdleKeyPass /\ bindPass = IdleBindPass
    /\ edits = 0 /\ faults = 0

IdentStep == IdentCreate \/ IdentRead \/ IdentWrite \/ IdentDelete \/ IdentFinalize
KeyStep ==
    \/ KeyProtect \/ KeyPending \/ KeyCreate \/ KeyRead \/ KeyWrite
    \/ KeySecret \/ KeyClean \/ KeyReady \/ KeyRevoke \/ KeyRemove \/ KeyOrphan \/ KeyFinalize
BindStep == BindWrite \/ BindEnds \/ \E u \in Users : BindRead(u)
People ==
    \/ IdentEdit \/ CredEdit \/ SecretEdit \/ ProviderEdit \/ ClusterEdit
    \/ \E b \in Bindings : BindEdit(b)

Next ==
    \/ IdentStep \/ KeyBegin \/ KeyStep \/ BindStep \/ ProviderReconcile
    \/ \E b \in Bindings : BindBegin(b)
    \/ KeyFails \/ BindFails \/ Restart \/ StoreLost
    \/ PolicyPut \/ Collect \/ CacheSync \/ People

Spec == Init /\ [][Next]_vars

(* Each CR is reconciled again and again (iamResyncInterval, 10 s while it *)
(* is not Ready) and a pass goes on. A lock is handed over first come,     *)
(* first served, so a pass that waits for one gets it (strong fairness).   *)
Fairness ==
    /\ WF_vars(IdentStep) /\ SF_vars(IdentRead) /\ WF_vars(KeyBegin) /\ SF_vars(KeyStep)
    /\ SF_vars(BindStep) /\ \A b \in Bindings : SF_vars(BindBegin(b))
    /\ WF_vars(ProviderReconcile)
    /\ WF_vars(PolicyPut) /\ WF_vars(Collect) /\ WF_vars(CacheSync)

FairSpec == Spec /\ Fairness

(***************************************************************************)
(* Properties.                                                             *)
(***************************************************************************)

UserType ==
    [up : BOOLEAN, inc : Nat, disabled : BOOLEAN, keys : SUBSET Pairs, pol : BOOLEAN]
Holders == Users \cup {Nobody}
CredType ==
    [exists : BOOLEAN, cross : BOOLEAN, retain : BOOLEAN, deleting : BOOLEAN, fin : BOOLEAN,
     user : Holders, key : 0 .. MaxKey, ready : BOOLEAN]
SecretType ==
    [exists : BOOLEAN, managed : BOOLEAN, owner : {"none", "cr", "gone"}, pair : Pairs \cup {NoPair}]
BindingType ==
    [exists : BOOLEAN, retain : BOOLEAN, deleting : BOOLEAN, fin : BOOLEAN,
     subjects : SUBSET Users, attached : SUBSET Users, ready : BOOLEAN]
ProviderType ==
    [exists : BOOLEAN, deleting : BOOLEAN, fin : BOOLEAN, phase : {"none", "Pending", "Failed"}]
SeenType == [cred : CredType, secret : SecretType, lag : SUBSET {"cred", "secret"}]
IdentPassType == [pc : {"idle", "write", "finalize"}, held : Holders, buf : UserType]
KeyPassType ==
    [pc : {"idle", "pending", "orphan", "revoke", "protect", "create", "update", "write", "secret",
           "clean", "status", "remove", "finalize"},
     held : Holders, buf : UserType, c : CredType, s : SecretType, user : Holders,
     pair : Pairs \cup {NoPair}, stale : SUBSET {"cred", "secret"}]
BindPassType ==
    [pc : {"idle", "detach", "write"}, held : Holders, buf : UserType, b : Bindings \cup {"none"},
     stale : BOOLEAN, gone : BOOLEAN, detach : SUBSET Users, attach : SUBSET Users,
     done : SUBSET Users, missing : BOOLEAN]

(* The variables have their types; a finalizer holds back a deletion.      *)
TypeOK ==
    /\ users \in [Users -> UserType] /\ {policy, cluster} \subseteq BOOLEAN
    /\ ident \in {"none", "on", "off", "deleting"} /\ identPass \in IdentPassType
    /\ cred \in CredType /\ secret \in SecretType /\ seen \in SeenType
    /\ \A c \in {cred, seen.cred, keyPass.c} : c.deleting => c.fin
    /\ keyPass \in KeyPassType /\ binding \in [Bindings -> BindingType]
    /\ bindPass \in BindPassType /\ provider \in ProviderType
    /\ edits \in 0 .. MaxEdits /\ faults \in 0 .. MaxFaults

(* What a step changes of an identity.                                     *)
Changes(u) ==
    {f \in {"disabled", "keys", "pol"} : users'[u][f] # users[u][f]}
KeyChanges(u) ==
    LET new == users'[u].keys  old == users[u].keys
    IN  {k[1] : k \in (new \ old) \cup (old \ new)}

(* A writer whose copy is of an earlier incarnation of the identity.       *)
Outdated(u) ==
    \E p \in {identPass, keyPass, bindPass} : p.held = u /\ p.buf.inc # users[u].inc

(* No update of an identity is lost: one call changes one thing, whatever  *)
(* the other controllers do between its reading and its writing, as long   *)
(* as nobody deletes and creates the identity in between (iamUserLocks).   *)
NoClobber ==
    [][\A u \in Users :
         users[u].up /\ users'[u].up /\ users'[u].inc = users[u].inc /\ ~Outdated(u) =>
             Cardinality(Changes(u)) <= 1 /\ Cardinality(KeyChanges(u)) <= 1]_vars

(* The operator never overwrites a pair in the Secret, even when the       *)
(* person writes it while a pass works from an older copy (writeSecret).   *)
PairKept ==
    [][secret.exists /\ secret'.exists /\ secret.pair # NoPair /\ secret'.pair # secret.pair =>
         edits' # edits]_vars

(* A provisioned credential stays with its user, when the reference        *)
(* resolves to another one since and when passes work from copies that     *)
(* do not show the pin yet; one from before the pinning with the literal   *)
(* reference.                                                              *)
PinHolds ==
    [][cred.exists /\ cred'.exists /\ (cred.user # Nobody \/ cred.key # 0) =>
         CredUser(cred)' = CredUser(cred)]_vars

Served ==
    /\ cred.exists /\ ~cred.deleting /\ cluster /\ users[CredUser(cred)].up
    /\ cred.cross => secret.exists

(* In the end, whatever was edited, lost or failed on the way: the pair in *)
(* the Secret opens the door, the policy is attached to every identity     *)
(* listed, and what is deleted goes.                                       *)
AccessSettles ==
    /\ <>[](Served => /\ cred.ready /\ secret.exists /\ cred.key = secret.pair[1]
                      /\ secret.pair \in users[CredUser(cred)].keys)
    /\ \A b \in Bindings :
         <>[](binding[b].exists /\ ~binding[b].deleting /\ cluster =>
                \A s \in binding[b].subjects : users[Resolve(s)].up => users[Resolve(s)].pol)
    /\ <>[](cluster => ~cred.deleting /\ \A b \in Bindings : ~binding[b].deleting)
    /\ <>[]~provider.deleting

(***************************************************************************)
(* Formulas that TLC refutes: what a doc, a comment or a reader expects    *)
(* and the code does not keep. README.md, "Observations", has the constants*)
(***************************************************************************)
(* The policy is attached to exactly the subjects listed, once the binding *)
(* that lists them is Ready and nothing is under way.                      *)
AttachedExactly ==
    \A b \in Bindings :
        binding[b].exists /\ binding[b].ready /\ ~binding[b].deleting /\ bindPass.pc = "idle" =>
            \A u \in Users : users[u].pol => \E c \in Bindings : u \in binding[c].attached
=============================================================================
