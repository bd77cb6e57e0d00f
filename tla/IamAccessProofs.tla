--------------------------- MODULE IamAccessProofs ---------------------------
(***************************************************************************)
(* Proofs about IamAccess, for any set of bindings, any supply of keys, a  *)
(* cache that lags or not, and any number of edits and faults.             *)
(***************************************************************************)
EXTENDS IamAccess, FiniteSetTheorems, TLAPS

(***************************************************************************)
(* Types, by component.                                                    *)
(***************************************************************************)
UsersOK ==
    /\ users \in [Users -> UserType] /\ policy \in BOOLEAN /\ cluster \in BOOLEAN
    /\ ident \in {"none", "on", "off", "deleting"} /\ identPass \in IdentPassType
StoredOK ==
    /\ cred \in CredType /\ secret \in SecretType /\ seen \in SeenType
    /\ (cred.deleting => cred.fin) /\ (seen.cred.deleting => seen.cred.fin)
Works == {"create", "update", "write", "secret", "clean", "status"}
KeyPassOK ==
    /\ keyPass \in KeyPassType /\ (keyPass.c.deleting => keyPass.c.fin)
    /\ keyPass.pc # "idle" => keyPass.user \in Users
    /\ keyPass.pc \in Works => keyPass.pair \in Pairs
BindOK ==
    /\ binding \in [Bindings -> BindingType] /\ bindPass \in BindPassType
    /\ bindPass.pc # "idle" => bindPass.b \in Bindings
    /\ bindPass.pc = "write" => bindPass.held \in Users
RestOK == provider \in ProviderType /\ edits \in 0 .. MaxEdits /\ faults \in 0 .. MaxFaults

TypeInv == UsersOK /\ StoredOK /\ KeyPassOK /\ BindOK /\ RestOK

LEMMA TypeParts == TypeInv => TypeOK
BY DEF TypeInv, UsersOK, StoredOK, KeyPassOK, BindOK, RestOK, TypeOK, SeenType, KeyPassType

(* The records that mean that nothing is there.                            *)
LEMMA NothingTypes ==
    /\ NoUser \in UserType /\ NoCred \in CredType /\ NoSecret \in SecretType
    /\ NoBinding \in BindingType /\ NoProvider \in ProviderType /\ NoPair \notin Pairs
    /\ "man" \in Users /\ "lit" \in Users /\ Nobody \notin Users
<1>1. NoUser \in UserType BY DEF NoUser, UserType
<1>2. NoCred \in CredType BY BoundsAssumption DEF NoCred, CredType, Holders
<1>3. NoSecret \in SecretType BY DEF NoSecret, SecretType
<1>4. NoBinding \in BindingType BY DEF NoBinding, BindingType
<1>5. NoProvider \in ProviderType BY DEF NoProvider, ProviderType
<1>6. NoPair \notin Pairs BY DEF NoPair, Pairs, AccessKeys
<1>7. "man" \in Users /\ "lit" \in Users /\ Nobody \notin Users BY DEF Users, Nobody
<1> QED BY <1>1, <1>2, <1>3, <1>4, <1>5, <1>6, <1>7

LEMMA IdleTypes ==
    IdlePass \in IdentPassType /\ IdleKeyPass \in KeyPassType /\ IdleBindPass \in BindPassType
<1>1. IdlePass \in IdentPassType BY NothingTypes DEF IdlePass, IdentPassType, Holders
<1>2. IdleKeyPass \in KeyPassType BY NothingTypes DEF IdleKeyPass, KeyPassType, Holders
<1>3. IdleBindPass \in BindPassType BY NothingTypes DEF IdleBindPass, BindPassType, Holders
<1> QED BY <1>1, <1>2, <1>3

LEMMA TypeInit == Init => TypeInv
<1> SUFFICES ASSUME Init PROVE TypeInv
  OBVIOUS
<1>1. UsersOK
  <2>1. [NoUser EXCEPT !.up = TRUE] \in UserType /\ NoUser \in UserType
    BY NothingTypes DEF UserType, NoUser
  <2>2. <<LegacyKey, 1>> \in Pairs BY BoundsAssumption DEF LegacyKey, Pairs, AccessKeys, SecretKeys
  <2>4. [NoUser EXCEPT !.up = TRUE, !.keys = {<<LegacyKey, 1>>}] \in UserType
    BY <2>1, <2>2 DEF UserType, NoUser
  <2>5. users \in [Users -> UserType] BY <2>1, <2>4 DEF Init, Created, Legacy
  <2>3. policy \in BOOLEAN /\ cluster \in BOOLEAN /\ ident \in {"none", "on", "off", "deleting"}
    BY DEF Init
  <2> QED BY <2>3, <2>5, IdleTypes DEF Init, UsersOK
<1>2. StoredOK
  <2>1. cred \in CredType /\ ~cred.deleting
    <3>1. ASSUME NEW x \in BOOLEAN, cred = [NoCred EXCEPT !.exists = TRUE, !.cross = x]
          PROVE  cred \in CredType /\ ~cred.deleting
      BY <3>1, NothingTypes DEF NoCred, CredType
    <3>2. CASE Legacy
      <4>1. LegacyKey \in 0 .. MaxKey BY BoundsAssumption DEF LegacyKey
      <4>2. PICK k \in 0 .. MaxKey : k = LegacyKey BY <4>1
      <4>3. cred = [NoCred EXCEPT !.exists = TRUE, !.fin = TRUE, !.key = k, !.ready = TRUE]
        BY <3>2, <4>2 DEF Legacy
      <4> QED BY <4>3, NothingTypes DEF NoCred, CredType
    <3> QED BY <3>1, <3>2 DEF Init, Created
  <2>2. <<OwnKey, 1>> \in Pairs /\ <<LegacyKey, 1>> \in Pairs
    BY BoundsAssumption DEF OwnKey, LegacyKey, Pairs, AccessKeys, SecretKeys
  <2>3. [NoSecret EXCEPT !.exists = TRUE, !.pair = <<OwnKey, 1>>] \in SecretType
    BY <2>2, NothingTypes DEF NoSecret, SecretType
  <2>5. [exists |-> TRUE, managed |-> TRUE, owner |-> "cr", pair |-> <<LegacyKey, 1>>] \in SecretType
    BY <2>2 DEF SecretType
  <2>4. secret \in SecretType BY <2>3, <2>5, NothingTypes DEF Init, Created, Legacy
  <2> QED BY <2>1, <2>4 DEF Init, StoredOK, SeenType
<1>3. KeyPassOK
  <2>1. IdleKeyPass.pc = "idle" /\ ~IdleKeyPass.c.deleting BY DEF IdleKeyPass, NoCred
  <2> QED BY <2>1, IdleTypes DEF Init, KeyPassOK, Works
<1>4. BindOK
  <2>1. [NoBinding EXCEPT !.exists = TRUE, !.subjects = {"lit"}] \in BindingType
    BY NothingTypes DEF NoBinding, BindingType
  <2>2. IdleBindPass.pc = "idle" BY DEF IdleBindPass
  <2> QED BY <2>1, <2>2, IdleTypes DEF Init, BindOK
<1>5. RestOK
  <2>1. [NoProvider EXCEPT !.exists = TRUE, !.fin = TRUE, !.phase = "Failed"] \in ProviderType
    BY DEF NoProvider, ProviderType
  <2> QED BY <2>1, NothingTypes, BoundsAssumption DEF Init, RestOK
<1> QED BY <1>1, <1>2, <1>3, <1>4, <1>5 DEF TypeInv

(***************************************************************************)
(* Identities.                                                             *)
(***************************************************************************)
LEMMA UpdateUserType ==
    ASSUME UsersOK, NEW u \in Users, NEW id \in UserType, UpdateUser(u, id)
    PROVE  users' \in [Users -> UserType]
<1>1. users \in [Users -> UserType] BY DEF UsersOK
<1>2. users[u] \in UserType BY <1>1
<1>3. [id EXCEPT !.inc = users[u].inc] \in UserType BY <1>2 DEF UserType
<1> QED BY <1>1, <1>3 DEF UpdateUser

LEMMA KeysType ==
    ASSUME UsersOK, NEW u \in Users, NEW ks \in SUBSET Pairs, users' = [users EXCEPT ![u].keys = ks]
    PROVE  users' \in [Users -> UserType]
<1>1. users \in [Users -> UserType] /\ users[u] \in UserType BY DEF UsersOK
<1>2. [users[u] EXCEPT !.keys = ks] \in UserType BY <1>1 DEF UserType
<1> QED BY <1>1, <1>2

LEMMA IdentType ==
    ASSUME TypeInv, IdentStep
    PROVE  UsersOK'
<1>1. /\ UsersOK /\ users \in [Users -> UserType] /\ users["man"] \in UserType /\ "man" \in Users
      /\ identPass \in IdentPassType
  BY NothingTypes DEF TypeInv, UsersOK
<1>2. CASE IdentCreate
  <2>1. (ident = "off") \in BOOLEAN OBVIOUS
  <2>2. PICK d \in BOOLEAN : d = (ident = "off") BY <2>1
  <2>3. users["man"].inc + 1 \in Nat BY <1>1 DEF UserType
  <2>4. PICK id : id = [NoUser EXCEPT !.up = TRUE, !.inc = users["man"].inc + 1, !.disabled = d] OBVIOUS
  <2>5. id \in UserType BY <2>3, <2>4, NothingTypes DEF UserType
  <2>6. users' = [users EXCEPT !["man"] = id] BY <1>2, <2>2, <2>4 DEF IdentCreate, CreateUser
  <2>7. users' \in [Users -> UserType] BY <1>1, <2>5, <2>6
  <2> QED BY <1>1, <1>2, <2>7 DEF IdentCreate, identVars, UsersOK
<1>3. CASE IdentRead
  <2>1. PICK d \in BOOLEAN : d = (ident = "off") OBVIOUS
  <2>2. PICK id : id = [users["man"] EXCEPT !.disabled = d] OBVIOUS
  <2>3. id \in UserType BY <1>1, <2>2 DEF UserType
  <2>4. identPass' = [pc |-> "write", held |-> "man", buf |-> id] BY <1>3, <2>1, <2>2 DEF IdentRead
  <2>5. identPass' \in IdentPassType BY <1>1, <2>3, <2>4 DEF IdentPassType, Holders
  <2> QED BY <1>1, <1>3, <2>5 DEF IdentRead, iamVars, UsersOK
<1>4. CASE IdentWrite
  <2>1. identPass.buf \in UserType BY <1>1 DEF IdentPassType
  <2>2. users' \in [Users -> UserType] BY <1>1, <1>4, <2>1, UpdateUserType DEF IdentWrite
  <2> QED BY <1>1, <1>4, <2>2, IdleTypes DEF IdentWrite, UsersOK
<1>5. CASE IdentDelete
  <2>1. PICK id : id = [NoUser EXCEPT !.inc = users["man"].inc] OBVIOUS
  <2>2. id \in UserType BY <1>1, <2>1, NothingTypes DEF UserType
  <2>3. users' = users \/ users' = [users EXCEPT !["man"] = id]
    BY <1>5, <2>1 DEF IdentDelete, DeleteUser
  <2>4. users' \in [Users -> UserType] BY <1>1, <2>2, <2>3
  <2>5. identPass' = [identPass EXCEPT !.pc = "finalize"] BY <1>5 DEF IdentDelete
  <2>6. identPass' \in IdentPassType BY <1>1, <2>5 DEF IdentPassType
  <2> QED BY <1>1, <1>5, <2>4, <2>6 DEF IdentDelete, UsersOK
<1>6. CASE IdentFinalize BY <1>1, <1>6, IdleTypes DEF IdentFinalize, iamVars, UsersOK
<1> QED BY <1>2, <1>3, <1>4, <1>5, <1>6 DEF IdentStep

(***************************************************************************)
(* The S3Credentials controller. The cache shows what is stored, unless it *)
(* lags, and a pass works for the CR and the Secret that are stored, unless*)
(* it knows better: its copy is stale.                                     *)
(***************************************************************************)
SamePair(s, t) == s.exists = t.exists /\ s.pair = t.pair

SeenInv ==
    /\ "cred" \notin seen.lag => seen.cred = cred
    /\ "secret" \notin seen.lag => SamePair(seen.secret, secret)

(* The user a credential is pinned to, by its status or by its age.        *)
Pin(c) == IF c.user # Nobody THEN c.user ELSE IF c.key # 0 THEN "lit" ELSE Nobody

CopyInv ==
    keyPass.pc # "idle" =>
        /\ Pin(keyPass.c) # Nobody => keyPass.user = Pin(keyPass.c)
        /\ "cred" \notin keyPass.stale => keyPass.c = cred
        /\ keyPass.pc \in {"create", "update", "write", "secret"} =>
             /\ "secret" \notin keyPass.stale => SamePair(keyPass.s, secret)
             /\ keyPass.s.exists /\ keyPass.s.pair # NoPair => keyPass.pair = keyPass.s.pair

KeyInv == StoredOK /\ KeyPassOK /\ SeenInv /\ CopyInv

LEMMA PutCredFacts ==
    ASSUME StoredOK, SeenInv, NEW c \in CredType, c.deleting => c.fin, PutCred(c),
           secret' \in SecretType, SamePair(secret, secret')
    PROVE  StoredOK' /\ SeenInv' /\ cred' = c
<1>1. cred' = c BY DEF PutCred
<1>2. seen \in SeenType /\ seen.cred \in CredType /\ seen.secret \in SecretType
  BY DEF StoredOK, SeenType
<1>3. CASE seen' = [seen EXCEPT !.cred = c, !.lag = @ \ {"cred"}]
  <2>1. seen' \in SeenType /\ seen'.cred = c /\ seen'.secret = seen.secret
        /\ seen'.lag = seen.lag \ {"cred"}
    BY <1>2, <1>3 DEF SeenType
  <2> QED BY <1>1, <1>2, <2>1 DEF StoredOK, SeenInv, SamePair
<1>4. CASE seen.lag = {} /\ seen' = [seen EXCEPT !.lag = @ \cup {"cred"}]
  <2>1. seen' \in SeenType /\ seen'.cred = seen.cred /\ seen'.secret = seen.secret
        /\ seen'.lag = {"cred"}
    BY <1>2, <1>4 DEF SeenType
  <2> QED BY <1>1, <1>2, <1>4, <2>1 DEF StoredOK, SeenInv, SamePair
<1> QED BY <1>3, <1>4 DEF PutCred

LEMMA PutSecretFacts ==
    ASSUME StoredOK, SeenInv, NEW s \in SecretType, PutSecret(s), cred' = cred
    PROVE  StoredOK' /\ SeenInv' /\ secret' = s
<1>1. secret' = s BY DEF PutSecret
<1>2. seen \in SeenType /\ seen.cred \in CredType /\ seen.secret \in SecretType
  BY DEF StoredOK, SeenType
<1>3. CASE seen' = [seen EXCEPT !.secret = s, !.lag = @ \ {"secret"}]
  <2>1. seen' \in SeenType /\ seen'.cred = seen.cred /\ seen'.secret = s
        /\ seen'.lag = seen.lag \ {"secret"}
    BY <1>2, <1>3 DEF SeenType
  <2> QED BY <1>1, <1>2, <2>1 DEF StoredOK, SeenInv, SamePair
<1>4. CASE seen.lag = {} /\ seen' = [seen EXCEPT !.lag = @ \cup {"secret"}]
  <2>1. seen' \in SeenType /\ seen'.cred = seen.cred /\ seen'.secret = seen.secret
        /\ seen'.lag = {"secret"}
    BY <1>2, <1>4 DEF SeenType
  <2> QED BY <1>1, <1>2, <1>4, <2>1 DEF StoredOK, SeenInv, SamePair
<1> QED BY <1>3, <1>4 DEF PutSecret

LEMMA StoredKept ==
    ASSUME StoredOK, SeenInv, UNCHANGED <<cred, secret, seen>>
    PROVE  StoredOK' /\ SeenInv'
BY DEF StoredOK, SeenInv, SamePair

LEMMA IdleFacts ==
    ASSUME keyPass' = IdleKeyPass
    PROVE  KeyPassOK' /\ CopyInv'
<1>1. IdleKeyPass.pc = "idle" /\ ~IdleKeyPass.c.deleting BY DEF IdleKeyPass, NoCred
<1> QED BY <1>1, IdleTypes DEF KeyPassOK, CopyInv, Works

LEMMA KeyUpdateFacts ==
    ASSUME StoredOK, SeenInv, NEW c \in CredType, c.deleting => c.fin, KeyUpdate(c)
    PROVE  KeyInv'
<1>1. CASE KeyPassTo(IdleKeyPass)
  BY <1>1, StoredKept, IdleFacts DEF KeyPassTo, KeyInv
<1>2. CASE PutCred(c) /\ keyPass' = IdleKeyPass /\ secret' = secret
  <2>1. SamePair(secret, secret') /\ secret' \in SecretType BY <1>2 DEF SamePair, StoredOK
  <2> QED BY <1>2, <2>1, PutCredFacts, IdleFacts DEF KeyInv
<1> QED BY <1>1, <1>2 DEF KeyUpdate

(* The next step of a pass, with the same copies in hand.                  *)
LEMMA PassGoesOn ==
    ASSUME KeyInv, keyPass.pc # "idle", NEW p \in KeyPassType, KeyPassTo(p),
           p.c = keyPass.c, p.s = keyPass.s, p.user = keyPass.user, p.pair = keyPass.pair,
           p.stale = keyPass.stale,
           p.pc \in Works => keyPass.pc \in Works,
           p.pc \in {"create", "update", "write", "secret"} =>
             keyPass.pc \in {"create", "update", "write", "secret"}
    PROVE  KeyInv'
<1>1. StoredOK' /\ SeenInv' BY StoredKept DEF KeyInv, KeyPassTo
<1>2. KeyPassOK' BY DEF KeyInv, KeyPassTo, KeyPassOK
<1>3. CopyInv' BY DEF KeyInv, KeyPassTo, CopyInv, SamePair
<1> QED BY <1>1, <1>2, <1>3 DEF KeyInv

LEMMA DesiredPairType ==
    ASSUME StoredOK, FreshKeys # {}
    PROVE  /\ DesiredPair \in Pairs
           /\ seen.secret.exists /\ seen.secret.pair # NoPair => DesiredPair = seen.secret.pair
<1>1. seen.secret.pair \in Pairs \cup {NoPair} BY DEF StoredOK, SeenType, SecretType
<1>2. PICK k \in FreshKeys : k = CHOOSE i \in FreshKeys : TRUE OBVIOUS
<1>3. GenerateKeyPair = <<k, 1>> BY <1>2 DEF GenerateKeyPair
<1>4. k \in AccessKeys /\ 1 \in SecretKeys BY <1>2 DEF FreshKeys, SecretKeys
<1>5. GenerateKeyPair \in Pairs BY <1>3, <1>4 DEF Pairs
<1> QED BY <1>1, <1>5 DEF DesiredPair

LEMMA CredUserType ==
    ASSUME NEW c \in CredType
    PROVE  CredUser(c) \in Users /\ (Pin(c) # Nobody => CredUser(c) = Pin(c))
<1>1. c.user \in Users \cup {Nobody} BY DEF CredType, Holders
<1>2. Resolve("lit") \in Users BY NothingTypes DEF Resolve
<1>3. "lit" \in Users BY NothingTypes
<1> QED BY <1>1, <1>2, <1>3 DEF CredUser, Pin

LEMMA KeyPassFacts ==
    ASSUME StoredOK, NEW u \in Users, NEW pair \in Pairs
    PROVE  LET q == KeyPass(seen.cred, u, pair)
           IN  /\ q \in KeyPassType /\ q.pc # "idle" /\ q.held = Nobody /\ q.pc # "write"
               /\ q.c = seen.cred /\ q.s = seen.secret /\ q.user = u /\ q.stale = seen.lag
               /\ q.pc \in Works => q.pair = pair
<1> DEFINE p == [IdleKeyPass EXCEPT !.c = seen.cred, !.s = seen.secret, !.user = u, !.stale = seen.lag]
           Fine(q) == /\ q \in KeyPassType /\ q.pc # "idle" /\ q.held = Nobody /\ q.pc # "write"
                      /\ q.c = seen.cred /\ q.s = seen.secret /\ q.user = u /\ q.stale = seen.lag
                      /\ q.pc \in Works => q.pair = pair
<1>1. seen.cred \in CredType /\ seen.secret \in SecretType /\ seen.lag \in SUBSET {"cred", "secret"}
  BY DEF StoredOK, SeenType
<1>2. /\ p \in KeyPassType /\ p.held = Nobody /\ p.c = seen.cred /\ p.s = seen.secret /\ p.user = u
      /\ p.stale = seen.lag
  BY <1>1, IdleTypes DEF IdleKeyPass, KeyPassType, Holders
<1> HIDE DEF p
<1>3. \A x \in {"pending", "orphan", "revoke", "protect", "finalize"} : Fine([p EXCEPT !.pc = x])
  BY <1>2 DEF KeyPassType, Works
<1>4. \A x \in {"create", "secret", "update"} : Fine([p EXCEPT !.pair = pair, !.pc = x])
  BY <1>2 DEF KeyPassType, Works
<1>5. PICK q : q = KeyPass(seen.cred, u, pair) OBVIOUS
<1>6. \/ \E x \in {"pending", "orphan", "revoke", "protect", "finalize"} : q = [p EXCEPT !.pc = x]
      \/ \E x \in {"create", "secret", "update"} : q = [p EXCEPT !.pair = pair, !.pc = x]
  <2> DEFINE same == {k \in users[u].keys : k[1] = pair[1]}
             x1 == IF seen.cred.retain THEN KeepSecret(seen.cred) ELSE "revoke"
             x2 == IF same = {} THEN "create" ELSE IF same = {pair} THEN "secret" ELSE "update"
  <2>1. x1 \in {"orphan", "revoke", "finalize"} /\ x2 \in {"create", "secret", "update"}
    BY DEF KeepSecret
  <2>2. q = CASE ~cluster -> [p EXCEPT !.pc = "pending"]
              [] cluster /\ seen.cred.deleting -> [p EXCEPT !.pc = x1]
              [] cluster /\ ~seen.cred.deleting /\ ~seen.cred.fin -> [p EXCEPT !.pc = "protect"]
              [] cluster /\ ~seen.cred.deleting /\ seen.cred.fin
                   /\ (~users[u].up \/ SecretMissing(seen.cred)) -> [p EXCEPT !.pc = "pending"]
              [] OTHER -> [p EXCEPT !.pair = pair, !.pc = x2]
    BY <1>5 DEF KeyPass, p
  <2> HIDE DEF x1, x2
  <2> QED BY <2>1, <2>2
<1>7. Fine(q) BY <1>3, <1>4, <1>6
<1> QED BY <1>5, <1>7

LEMMA KeyBeginInv ==
    ASSUME TypeInv, KeyInv, KeyBegin
    PROVE  KeyInv'
<1>1. PICK u : u = CredUser(seen.cred) OBVIOUS
<1>2. PICK pair : pair = DesiredPair OBVIOUS
<1>3. seen.cred \in CredType /\ seen.secret \in SecretType /\ StoredOK /\ FreshKeys # {} /\ SeenInv
  BY DEF KeyInv, StoredOK, SeenType, KeyBegin
<1>4. u \in Users /\ (Pin(seen.cred) # Nobody => u = Pin(seen.cred)) BY <1>1, <1>3, CredUserType
<1>5. pair \in Pairs /\ (seen.secret.exists /\ seen.secret.pair # NoPair => pair = seen.secret.pair)
  BY <1>2, <1>3, DesiredPairType
<1>6. keyPass' = KeyPass(seen.cred, u, pair) BY <1>1, <1>2 DEF KeyBegin
<1>7. /\ keyPass' \in KeyPassType /\ keyPass'.c = seen.cred /\ keyPass'.s = seen.secret
      /\ keyPass'.user = u /\ keyPass'.stale = seen.lag /\ (keyPass'.pc \in Works => keyPass'.pair = pair)
  BY <1>3, <1>4, <1>5, <1>6, KeyPassFacts
<1>8. cred' = cred /\ secret' = secret BY DEF KeyBegin
<1>9. KeyPassOK' BY <1>3, <1>4, <1>5, <1>7 DEF KeyPassOK, StoredOK
<1>10. CopyInv' BY <1>3, <1>4, <1>5, <1>7, <1>8 DEF CopyInv, SeenInv, SamePair, Works
<1>11. StoredOK' /\ SeenInv'
  <2>1. CASE seen' = seen BY <1>3, <1>8, <2>1, StoredKept
  <2>2. CASE seen' = [cred |-> cred, secret |-> secret, lag |-> {}]
    BY <1>3, <1>8, <2>2 DEF StoredOK, SeenInv, SeenType, SamePair
  <2> QED BY <2>1, <2>2 DEF KeyBegin
<1> QED BY <1>9, <1>10, <1>11 DEF KeyInv

LEMMA GoneFacts ==
    ASSUME StoredOK, SeenInv, CredGone
    PROVE  StoredOK' /\ SeenInv' /\ ~cred'.exists /\ SamePair(secret, secret')
<1>1. secret \in SecretType BY DEF StoredOK
<1>2. secret' \in SecretType /\ SamePair(secret, secret')
  <2>1. [secret EXCEPT !.owner = "gone"] \in SecretType
        /\ SamePair(secret, [secret EXCEPT !.owner = "gone"])
    BY <1>1 DEF SecretType, SamePair
  <2> QED BY <1>1, <2>1 DEF CredGone, SamePair
<1>3. PICK c : c = [NoCred EXCEPT !.cross = cred.cross] OBVIOUS
<1>4. c \in CredType /\ ~c.deleting /\ ~c.exists BY <1>3, NothingTypes DEF NoCred, CredType, StoredOK
<1>5. PutCred(c) BY <1>3 DEF CredGone
<1> QED BY <1>2, <1>4, <1>5, PutCredFacts

LEMMA KeyStepInv ==
    ASSUME TypeInv, KeyInv, KeyStep
    PROVE  KeyInv'
<1>1. /\ StoredOK /\ SeenInv /\ KeyPassOK /\ CopyInv /\ cred \in CredType /\ (cred.deleting => cred.fin)
      /\ keyPass \in KeyPassType /\ secret \in SecretType
  BY DEF KeyInv, StoredOK, KeyPassOK
<1>2. CASE KeyProtect
  <2>1. PICK c : c = [cred EXCEPT !.fin = TRUE] OBVIOUS
  <2>2. c \in CredType /\ c.fin BY <1>1, <2>1 DEF CredType
  <2> QED BY <1>1, <1>2, <2>1, <2>2, KeyUpdateFacts DEF KeyProtect
<1>3. CASE KeyPending
  <2>1. PICK c : c = [cred EXCEPT !.ready = FALSE] OBVIOUS
  <2>2. c \in CredType /\ (c.deleting => c.fin) BY <1>1, <2>1 DEF CredType
  <2> QED BY <1>1, <1>3, <2>1, <2>2, KeyUpdateFacts DEF KeyPending
<1>4. CASE KeyCreate
  <2>1. PICK x \in {"secret", "pending"} : KeyPassTo([keyPass EXCEPT !.pc = x])
    BY <1>4 DEF KeyCreate
  <2>2. PICK p : p = [keyPass EXCEPT !.pc = x] OBVIOUS
  <2>3. /\ p \in KeyPassType /\ p.pc = x /\ p.c = keyPass.c /\ p.s = keyPass.s /\ p.user = keyPass.user
        /\ p.pair = keyPass.pair /\ p.stale = keyPass.stale
    BY <1>1, <2>2 DEF KeyPassType
  <2>4. keyPass.pc = "create" BY <1>4 DEF KeyCreate
  <2> QED BY <2>1, <2>2, <2>3, <2>4, PassGoesOn DEF Works
<1>5. CASE KeyRead
  <2>1. CASE KeyPassTo([keyPass EXCEPT !.pc = "pending"])
    <3>1. PICK p : p = [keyPass EXCEPT !.pc = "pending"] OBVIOUS
    <3>2. /\ p \in KeyPassType /\ p.pc = "pending" /\ p.c = keyPass.c /\ p.s = keyPass.s
          /\ p.user = keyPass.user /\ p.pair = keyPass.pair /\ p.stale = keyPass.stale
      BY <1>1, <3>1 DEF KeyPassType
    <3>3. keyPass.pc = "update" BY <1>5 DEF KeyRead
    <3> QED BY <2>1, <3>1, <3>2, <3>3, PassGoesOn DEF Works
  <2>2. CASE ~KeyPassTo([keyPass EXCEPT !.pc = "pending"])
    <3> DEFINE ks == {k \in users[keyPass.user].keys : k[1] # keyPass.pair[1]} \cup {keyPass.pair}
    <3>1. PICK id : id = [users[keyPass.user] EXCEPT !.keys = ks] OBVIOUS
    <3>2. PICK p : p = [keyPass EXCEPT !.pc = "write", !.held = keyPass.user, !.buf = id] OBVIOUS
    <3>3. KeyPassTo(p) BY <1>5, <2>2, <3>1, <3>2 DEF KeyRead
    <3>4. keyPass.pc = "update" BY <1>5 DEF KeyRead
    <3>5. keyPass.user \in Users /\ keyPass.pair \in Pairs BY <1>1, <3>4 DEF KeyPassOK, Works
    <3>6. users[keyPass.user] \in UserType BY <3>5 DEF TypeInv, UsersOK
    <3>7. ks \in SUBSET Pairs BY <3>5, <3>6 DEF UserType
    <3> HIDE DEF ks
    <3>8. id \in UserType BY <3>1, <3>6, <3>7 DEF UserType
    <3>9. /\ p \in KeyPassType /\ p.pc = "write" /\ p.c = keyPass.c /\ p.s = keyPass.s
          /\ p.user = keyPass.user /\ p.pair = keyPass.pair /\ p.stale = keyPass.stale
      BY <1>1, <3>2, <3>5, <3>8 DEF KeyPassType, Holders
    <3> QED BY <3>3, <3>4, <3>9, PassGoesOn DEF Works
  <2> QED BY <2>1, <2>2
<1>6. CASE KeyWrite
  <2>1. PICK x \in {"secret", "pending"} :
          KeyPassTo([keyPass EXCEPT !.pc = x, !.held = Nobody, !.buf = NoUser])
    BY <1>6 DEF KeyWrite
  <2>2. PICK p : p = [keyPass EXCEPT !.pc = x, !.held = Nobody, !.buf = NoUser] OBVIOUS
  <2>3. /\ p \in KeyPassType /\ p.pc = x /\ p.c = keyPass.c /\ p.s = keyPass.s /\ p.user = keyPass.user
        /\ p.pair = keyPass.pair /\ p.stale = keyPass.stale
    BY <1>1, <2>2, NothingTypes DEF KeyPassType, Holders
  <2>4. keyPass.pc = "write" BY <1>6 DEF KeyWrite
  <2> QED BY <2>1, <2>2, <2>3, <2>4, PassGoesOn DEF Works
<1>7. CASE KeySecret
  <2>1. PICK p : p = [keyPass EXCEPT !.pc = "clean", !.s = NoSecret, !.stale = @ \ {"secret"}] OBVIOUS
  <2>2. /\ p \in KeyPassType /\ p.pc = "clean" /\ p.c = keyPass.c /\ p.user = keyPass.user
        /\ p.pair = keyPass.pair /\ p.stale = keyPass.stale \ {"secret"}
    BY <1>1, <2>1, NothingTypes DEF KeyPassType
  <2>3. keyPass.pc = "secret" /\ keyPass.pair \in Pairs /\ keyPass.user \in Users
    BY <1>1, <1>7 DEF KeySecret, KeyPassOK, Works
  <2>4. keyPass' = p /\ cred' = cred => KeyPassOK' /\ CopyInv'
    BY <1>1, <2>2, <2>3 DEF KeyPassOK, CopyInv, Works
  <2>5. PICK s : s = [secret EXCEPT !.pair = keyPass.pair] OBVIOUS
  <2>6. PICK t : t = [exists |-> TRUE, managed |-> TRUE, owner |-> "cr", pair |-> keyPass.pair] OBVIOUS
  <2>7. s \in SecretType /\ t \in SecretType BY <1>1, <2>3, <2>5, <2>6 DEF SecretType
  <2>8. \/ KeyPassTo(p) \/ KeyPassTo(IdleKeyPass)
        \/ PutSecret(s) /\ keyPass' = p /\ cred' = cred
        \/ PutSecret(t) /\ keyPass' = p /\ cred' = cred
    BY <1>7, <2>1, <2>5, <2>6 DEF KeySecret
  <2>9. CASE KeyPassTo(p) BY <1>1, <2>4, <2>9, StoredKept DEF KeyPassTo, KeyInv
  <2>10. CASE KeyPassTo(IdleKeyPass) BY <1>1, <2>10, StoredKept, IdleFacts DEF KeyPassTo, KeyInv
  <2>11. CASE (PutSecret(s) \/ PutSecret(t)) /\ keyPass' = p /\ cred' = cred
    BY <1>1, <2>4, <2>7, <2>11, PutSecretFacts DEF KeyInv
  <2> QED BY <2>8, <2>9, <2>10, <2>11
<1>8. CASE KeyClean
  <2>1. PICK p : p = [keyPass EXCEPT !.pc = "status"] OBVIOUS
  <2>2. /\ p \in KeyPassType /\ p.pc = "status" /\ p.c = keyPass.c /\ p.s = keyPass.s
        /\ p.user = keyPass.user /\ p.pair = keyPass.pair /\ p.stale = keyPass.stale
    BY <1>1, <2>1 DEF KeyPassType
  <2>3. KeyPassTo(p) /\ keyPass.pc = "clean" BY <1>8, <2>1 DEF KeyClean
  <2> QED BY <2>2, <2>3, PassGoesOn DEF Works
<1>9. CASE KeyReady
  <2>1. keyPass.pc = "status" /\ keyPass.pair \in Pairs /\ keyPass.user \in Users
    BY <1>1, <1>9 DEF KeyReady, KeyPassOK, Works
  <2>2. PICK k \in 0 .. MaxKey : k = keyPass.pair[1] BY <2>1, BoundsAssumption DEF Pairs, AccessKeys
  <2>3. PICK c : c = [cred EXCEPT !.user = keyPass.user, !.key = k, !.ready = TRUE] OBVIOUS
  <2>4. c \in CredType /\ (c.deleting => c.fin) BY <1>1, <2>1, <2>2, <2>3 DEF CredType, Holders
  <2> QED BY <1>1, <1>9, <2>2, <2>3, <2>4, KeyUpdateFacts DEF KeyReady
<1>10. CASE KeyRevoke
  <2>1. PICK p : p = [keyPass EXCEPT !.pc = DropSecret(keyPass.c)] OBVIOUS
  <2>2. /\ p \in KeyPassType /\ p.pc \in {"remove", "finalize"} /\ p.c = keyPass.c /\ p.s = keyPass.s
        /\ p.user = keyPass.user /\ p.pair = keyPass.pair /\ p.stale = keyPass.stale
    BY <1>1, <2>1 DEF KeyPassType, DropSecret
  <2>3. KeyPassTo(p) /\ keyPass.pc = "revoke" BY <1>10, <2>1 DEF KeyRevoke
  <2> QED BY <2>2, <2>3, PassGoesOn DEF Works
<1>11. CASE KeyRemove \/ KeyOrphan
  <2>1. PICK p : p = [keyPass EXCEPT !.pc = "finalize"] OBVIOUS
  <2>2. /\ p \in KeyPassType /\ p.pc = "finalize" /\ p.c = keyPass.c /\ p.s = keyPass.s
        /\ p.user = keyPass.user /\ p.pair = keyPass.pair /\ p.stale = keyPass.stale
    BY <1>1, <2>1 DEF KeyPassType
  <2>3. keyPass.pc \in {"remove", "orphan"} BY <1>11 DEF KeyRemove, KeyOrphan
  <2>4. PICK s : s = [secret EXCEPT !.owner = "none"] OBVIOUS
  <2>5. s \in SecretType BY <1>1, <2>4 DEF SecretType
  <2>6. \/ KeyPassTo(p) \/ KeyPassTo(IdleKeyPass)
        \/ (PutSecret(s) \/ PutSecret(NoSecret)) /\ keyPass' = p /\ cred' = cred
    BY <1>11, <2>1, <2>4 DEF KeyRemove, KeyOrphan
  <2>7. keyPass' = p /\ cred' = cred => KeyPassOK' /\ CopyInv'
    BY <1>1, <2>2, <2>3 DEF KeyPassOK, CopyInv, Works
  <2>8. CASE KeyPassTo(p) BY <2>2, <2>3, <2>8, PassGoesOn DEF Works
  <2>9. CASE KeyPassTo(IdleKeyPass) BY <1>1, <2>9, StoredKept, IdleFacts DEF KeyPassTo, KeyInv
  <2>10. CASE (PutSecret(s) \/ PutSecret(NoSecret)) /\ keyPass' = p /\ cred' = cred
    BY <1>1, <2>5, <2>7, <2>10, PutSecretFacts, NothingTypes DEF KeyInv
  <2> QED BY <2>6, <2>8, <2>9, <2>10
<1>12. CASE KeyFinalize
  <2>1. CASE KeyPassTo(IdleKeyPass) BY <1>1, <2>1, StoredKept, IdleFacts DEF KeyPassTo, KeyInv
  <2>2. CASE CredGone /\ keyPass' = IdleKeyPass BY <1>1, <2>2, GoneFacts, IdleFacts DEF KeyInv
  <2> QED BY <1>12, <2>1, <2>2 DEF KeyFinalize
<1> QED
  BY <1>2, <1>3, <1>4, <1>5, <1>6, <1>7, <1>8, <1>9, <1>10, <1>11, <1>12 DEF KeyStep

(* A write of somebody else's spoils the copies of the pass.               *)
LEMMA SpoilFacts ==
    ASSUME KeyInv, NEW what \in {"cred", "secret"}, keyPass' = Spoil(what),
           what # "cred" => cred' = cred, what # "secret" => SamePair(secret, secret')
    PROVE  KeyPassOK' /\ CopyInv'
<1>1. keyPass \in KeyPassType BY DEF KeyInv, KeyPassOK
<1>2. PICK x : x = IF keyPass.pc = "idle" THEN {} ELSE keyPass.stale \cup {what} OBVIOUS
<1>3. x \in SUBSET {"cred", "secret"} /\ (keyPass.pc # "idle" => what \in x /\ keyPass.stale \subseteq x)
  BY <1>1, <1>2 DEF KeyPassType
<1>4. keyPass' = [keyPass EXCEPT !.stale = x] BY <1>2 DEF Spoil
<1>5. /\ keyPass' \in KeyPassType /\ keyPass'.pc = keyPass.pc /\ keyPass'.c = keyPass.c
      /\ keyPass'.s = keyPass.s /\ keyPass'.user = keyPass.user /\ keyPass'.pair = keyPass.pair
      /\ keyPass'.stale = x
  BY <1>1, <1>3, <1>4 DEF KeyPassType
<1> HIDE <1>4
<1>6. KeyPassOK' BY <1>5 DEF KeyInv, KeyPassOK
<1>7. CopyInv'
  <2>1. CASE what = "cred" BY <1>3, <1>5, <2>1 DEF KeyInv, CopyInv, SamePair
  <2>2. CASE what = "secret" BY <1>3, <1>5, <2>2 DEF KeyInv, CopyInv, SamePair
  <2> QED BY <2>1, <2>2
<1> QED BY <1>6, <1>7

LEMMA KeyNext ==
    ASSUME TypeInv, KeyInv, [Next]_vars
    PROVE  KeyInv'
<1>1. /\ StoredOK /\ SeenInv /\ KeyPassOK /\ CopyInv /\ cred \in CredType /\ (cred.deleting => cred.fin)
      /\ keyPass \in KeyPassType /\ secret \in SecretType
  BY DEF KeyInv, StoredOK, KeyPassOK
<1>2. ASSUME UNCHANGED keyVars PROVE KeyInv'
  BY <1>1, <1>2, StoredKept DEF keyVars, KeyInv, KeyPassOK, CopyInv, SamePair
<1>3. CASE KeyFails
  <2>1. CASE KeyPassTo(IdleKeyPass) BY <1>1, <2>1, StoredKept, IdleFacts DEF KeyPassTo, KeyInv
  <2>2. CASE ~KeyPassTo(IdleKeyPass)
    <3>1. PICK p : p = [keyPass EXCEPT !.pc = "pending", !.held = Nobody, !.buf = NoUser] OBVIOUS
    <3>2. KeyPassTo(p) /\ keyPass.pc # "idle" BY <1>3, <2>2, <3>1 DEF KeyFails
    <3>3. /\ p \in KeyPassType /\ p.pc = "pending" /\ p.c = keyPass.c /\ p.s = keyPass.s
          /\ p.user = keyPass.user /\ p.pair = keyPass.pair /\ p.stale = keyPass.stale
      BY <1>1, <3>1, NothingTypes DEF KeyPassType, Holders
    <3> QED BY <3>2, <3>3, PassGoesOn DEF Works
  <2> QED BY <2>1, <2>2
<1>4. CASE CredEdit
  <2>1. keyPass' = Spoil("cred") BY <1>4 DEF CredEdit
  <2>2. PICK r \in BOOLEAN :
          \/ PutCred([cred EXCEPT !.exists = TRUE]) /\ secret' = secret
          \/ PutCred([cred EXCEPT !.deleting = TRUE, !.retain = r]) /\ secret' = secret /\ cred.fin
          \/ CredGone
    BY <1>4 DEF CredEdit
  <2>3. PICK c : c = [cred EXCEPT !.exists = TRUE] OBVIOUS
  <2>4. PICK d : d = [cred EXCEPT !.deleting = TRUE, !.retain = r] OBVIOUS
  <2>5. c \in CredType /\ (c.deleting => c.fin) BY <1>1, <2>3 DEF CredType
  <2>6. d \in CredType /\ d.fin = cred.fin BY <1>1, <2>4 DEF CredType
  <2>7. CASE secret' = secret /\ ((PutCred(d) /\ cred.fin) \/ PutCred(c))
    <3>1. SamePair(secret, secret') /\ secret' \in SecretType BY <1>1, <2>7 DEF SamePair
    <3>2. StoredOK' /\ SeenInv' BY <1>1, <2>5, <2>6, <2>7, <3>1, PutCredFacts
    <3> QED BY <2>1, <3>1, <3>2, SpoilFacts DEF KeyInv
  <2>8. CASE CredGone BY <1>1, <2>1, <2>8, GoneFacts, SpoilFacts DEF KeyInv
  <2> QED BY <2>2, <2>3, <2>4, <2>7, <2>8
<1>5. CASE SecretEdit
  <2>1. keyPass' = Spoil("secret") /\ cred' = cred BY <1>5 DEF SecretEdit
  <2>2. PICK s : /\ s \in {[secret EXCEPT !.exists = TRUE, !.pair = <<OwnKey, 1>>],
                          [secret EXCEPT !.pair = <<@[1], 2>>], [secret EXCEPT !.pair = NoPair], NoSecret}
                 /\ s.pair[2] = 2 => s.pair[1] # 0
                 /\ PutSecret(s)
    BY <1>5 DEF SecretEdit
  <2>3. s \in SecretType
    <3>1. <<OwnKey, 1>> \in Pairs BY BoundsAssumption DEF OwnKey, Pairs, AccessKeys, SecretKeys
    <3>2. CASE s = [secret EXCEPT !.exists = TRUE, !.pair = <<OwnKey, 1>>]
      BY <1>1, <3>1, <3>2 DEF SecretType
    <3>3. CASE s = [secret EXCEPT !.pair = <<@[1], 2>>]
      <4>1. s.pair = <<secret.pair[1], 2>> BY <1>1, <3>3 DEF SecretType
      <4>2. secret.pair[1] # 0 BY <2>2, <4>1
      <4>3. secret.pair \in Pairs BY <1>1, <4>2 DEF SecretType, NoPair
      <4>4. <<secret.pair[1], 2>> \in Pairs BY <4>3 DEF Pairs, SecretKeys
      <4> QED BY <1>1, <3>3, <4>4 DEF SecretType
    <3>4. CASE s = [secret EXCEPT !.pair = NoPair] BY <1>1, <3>4 DEF SecretType
    <3> QED BY <2>2, <3>2, <3>3, <3>4, NothingTypes
  <2> QED BY <1>1, <2>1, <2>2, <2>3, PutSecretFacts, SpoilFacts DEF KeyInv
<1>6. CASE Collect
  <2>1. keyPass' = Spoil("secret") /\ cred' = cred /\ PutSecret(NoSecret) BY <1>6 DEF Collect
  <2> QED BY <1>1, <2>1, PutSecretFacts, SpoilFacts, NothingTypes DEF KeyInv
<1>7. CASE CacheSync
  <2>1. StoredOK' /\ SeenInv' BY <1>1, <1>7 DEF CacheSync, StoredOK, SeenInv, SeenType, SamePair
  <2>2. KeyPassOK' /\ CopyInv' BY <1>1, <1>7 DEF CacheSync, KeyPassOK, CopyInv, SamePair
  <2> QED BY <2>1, <2>2 DEF KeyInv
<1>8. CASE Restart BY <1>1, <1>8, StoredKept, IdleFacts DEF Restart, KeyInv
<1>9. CASE IdentStep \/ BindStep \/ ProviderReconcile \/ BindFails \/ StoreLost \/ PolicyPut
           \/ IdentEdit \/ ProviderEdit \/ ClusterEdit
           \/ (\E b \in Bindings : BindBegin(b) \/ BindEdit(b))
  BY <1>2, <1>9
  DEF IdentStep, IdentCreate, IdentRead, IdentWrite, IdentDelete, IdentFinalize, BindStep, BindWrite,
      BindEnds, BindRead, ProviderReconcile, BindFails, StoreLost, PolicyPut, IdentEdit, ProviderEdit,
      ClusterEdit, BindBegin, BindEdit
<1>10. CASE UNCHANGED vars BY <1>2, <1>10 DEF vars
<1> QED
  BY <1>3, <1>4, <1>5, <1>6, <1>7, <1>8, <1>9, <1>10, KeyBeginInv, KeyStepInv DEF Next, People

(***************************************************************************)
(* The S3PolicyBinding controller, the rest, and the types.                *)
(***************************************************************************)
LEMMA BindUpdateType ==
    ASSUME BindOK, NEW b \in Bindings, NEW o \in BindingType, BindUpdate(b, o)
    PROVE  BindOK'
<1>1. IdleBindPass.pc = "idle" BY DEF IdleBindPass
<1>2. binding' \in [Bindings -> BindingType] BY DEF BindUpdate, BindOK
<1>3. bindPass' = IdleBindPass BY DEF BindUpdate
<1> QED BY <1>1, <1>2, <1>3, IdleTypes DEF BindOK

LEMMA BindDoneFacts ==
    ASSUME NEW u \in Users, NEW found \in BOOLEAN, bindPass \in BindPassType
    PROVE  LET q == BindDone(u, found)
           IN  /\ q \in BindPassType /\ q.pc = "detach" /\ q.b = bindPass.b /\ q.held = Nobody
<1>1. PICK x \in SUBSET Users : x = bindPass.detach \ {u} BY DEF BindPassType
<1>2. PICK y \in SUBSET Users : y = IF bindPass.detach = {} THEN bindPass.attach \ {u} ELSE bindPass.attach
  BY DEF BindPassType
<1>3. PICK z \in SUBSET Users :
        z = IF bindPass.detach = {} /\ found THEN bindPass.done \cup {u} ELSE bindPass.done
  BY DEF BindPassType
<1>4. PICK m \in BOOLEAN : m = (bindPass.missing \/ (bindPass.detach = {} /\ ~found))
  OBVIOUS
<1>5. PICK q : q = [bindPass EXCEPT !.detach = x, !.attach = y, !.done = z, !.missing = m,
                                   !.pc = "detach", !.held = Nobody, !.buf = NoUser]
  OBVIOUS
<1>6. q \in BindPassType /\ q.pc = "detach" /\ q.b = bindPass.b /\ q.held = Nobody
  BY <1>5, NothingTypes DEF BindPassType, Holders
<1>7. q = BindDone(u, found) BY <1>1, <1>2, <1>3, <1>4, <1>5 DEF BindDone
<1> QED BY <1>6, <1>7

LEMMA BindTodoType == ASSUME BindOK PROVE BindTodo \in SUBSET Users
BY DEF BindOK, BindPassType, BindTodo

LEMMA BindType ==
    ASSUME TypeInv, [Next]_vars
    PROVE  BindOK'
<1>1. /\ BindOK /\ binding \in [Bindings -> BindingType] /\ bindPass \in BindPassType
      /\ users \in [Users -> UserType]
  BY DEF TypeInv, BindOK, UsersOK
<1>2. ASSUME UNCHANGED bindVars PROVE BindOK'
  BY <1>1, <1>2 DEF bindVars, BindOK
<1>3. ASSUME NEW b \in Bindings, BindBegin(b) PROVE BindOK'
  <2>1. binding[b] \in BindingType BY <1>1
  <2> DEFINE o == binding[b]
             desired == {Resolve(s) : s \in o.subjects}
             off == IF o.retain THEN {} ELSE o.attached
             p == [IdleBindPass EXCEPT !.pc = "detach", !.b = b]
  <2>2. /\ [o EXCEPT !.ready = FALSE] \in BindingType /\ [o EXCEPT !.fin = TRUE] \in BindingType
        /\ off \in SUBSET Users /\ o.attached \ desired \in SUBSET Users
    BY <2>1 DEF BindingType
  <2>3. desired \in SUBSET Users
    <3>1. \A s \in Users : Resolve(s) \in Users BY NothingTypes DEF Resolve
    <3> QED BY <2>1, <3>1 DEF BindingType
  <2>4. p \in BindPassType /\ p.pc = "detach" /\ p.b = b
    BY IdleTypes DEF BindPassType, IdleBindPass
  <2>5. PICK q : q = [p EXCEPT !.gone = TRUE, !.detach = off] OBVIOUS
  <2>6. PICK r : r = [p EXCEPT !.detach = o.attached \ desired, !.attach = desired] OBVIOUS
  <2>7. \/ BindUpdate(b, [o EXCEPT !.ready = FALSE]) \/ BindUpdate(b, [o EXCEPT !.fin = TRUE])
        \/ BindPassTo(q) \/ BindPassTo(r)
    BY <1>3, <2>5, <2>6 DEF BindBegin
  <2> HIDE DEF p, o, desired, off
  <2>8. q \in BindPassType /\ q.pc = "detach" /\ q.b = b BY <2>2, <2>4, <2>5 DEF BindPassType
  <2>9. r \in BindPassType /\ r.pc = "detach" /\ r.b = b BY <2>2, <2>3, <2>4, <2>6 DEF BindPassType
  <2>10. CASE BindPassTo(q) \/ BindPassTo(r) BY <1>1, <2>8, <2>9, <2>10 DEF BindPassTo, BindOK
  <2> QED BY <1>1, <2>2, <2>7, <2>10, BindUpdateType
<1>4. ASSUME NEW u \in Users, BindRead(u) PROVE BindOK'
  <2>1. users[u] \in UserType BY <1>1
  <2>2. PICK want \in BOOLEAN : want = (bindPass.detach = {}) OBVIOUS
  <2>3. PICK id : id = [users[u] EXCEPT !.pol = want] OBVIOUS
  <2>4. id \in UserType BY <2>1, <2>3 DEF UserType
  <2>5. PICK q : q = [bindPass EXCEPT !.pc = "write", !.held = u, !.buf = id] OBVIOUS
  <2>6. q \in BindPassType /\ q.pc = "write" /\ q.held = u /\ q.b = bindPass.b
    BY <1>1, <2>4, <2>5 DEF BindPassType, Holders
  <2>7. BindPassTo(q) \/ BindPassTo(BindDone(u, users[u].up))
    BY <1>4, <2>2, <2>3, <2>5 DEF BindRead
  <2>8. users[u].up \in BOOLEAN /\ bindPass.pc = "detach" BY <1>4, <2>1 DEF UserType, BindRead
  <2>9. CASE BindPassTo(q) BY <1>1, <2>6, <2>8, <2>9 DEF BindPassTo, BindOK
  <2>10. CASE BindPassTo(BindDone(u, users[u].up))
    <3>1. PICK r : r = BindDone(u, users[u].up) OBVIOUS
    <3>2. r \in BindPassType /\ r.pc = "detach" /\ r.b = bindPass.b BY <1>1, <2>8, <3>1, BindDoneFacts
    <3> QED BY <1>1, <2>8, <2>10, <3>1, <3>2 DEF BindPassTo, BindOK
  <2> QED BY <2>7, <2>9, <2>10
<1>5. CASE BindWrite
  <2>1. bindPass.pc = "write" /\ bindPass.held \in Users BY <1>1, <1>5 DEF BindWrite, BindOK
  <2>2. users[bindPass.held].up \in BOOLEAN BY <1>1, <2>1 DEF UserType
  <2>3. PICK r : r = BindDone(bindPass.held, users[bindPass.held].up) OBVIOUS
  <2>4. r \in BindPassType /\ r.pc = "detach" /\ r.b = bindPass.b BY <1>1, <2>1, <2>2, <2>3, BindDoneFacts
  <2>5. BindPassTo(r) BY <1>5, <2>3 DEF BindWrite
  <2> QED BY <1>1, <2>1, <2>4, <2>5 DEF BindPassTo, BindOK
<1>6. CASE BindEnds
  <2>1. PICK b \in Bindings : b = bindPass.b BY <1>1, <1>6 DEF BindEnds, BindOK
  <2>2. PICK x \in BOOLEAN : x = ~bindPass.missing OBVIOUS
  <2>3. PICK o : o = [binding[b] EXCEPT !.attached = bindPass.done, !.ready = x] OBVIOUS
  <2>4. o \in BindingType BY <1>1, <2>1, <2>3 DEF BindingType, BindPassType
  <2>5. BindUpdate(b, NoBinding) \/ BindUpdate(b, o) BY <1>6, <2>1, <2>2, <2>3 DEF BindEnds
  <2> QED BY <1>1, <2>4, <2>5, BindUpdateType, NothingTypes
<1>7. CASE BindFails
  <2>1. CASE BindPassTo(IdleBindPass)
    <3>1. IdleBindPass.pc = "idle" BY DEF IdleBindPass
    <3> QED BY <1>1, <2>1, <3>1, IdleTypes DEF BindPassTo, BindOK
  <2>2. CASE ~BindPassTo(IdleBindPass)
    <3>1. PICK b \in Bindings : b = bindPass.b BY <1>1, <1>7 DEF BindFails, BindOK
    <3>2. PICK x : x = IF bindPass.detach = {} THEN bindPass.done ELSE binding[b].attached OBVIOUS
    <3>3. x \in SUBSET Users BY <1>1, <3>1, <3>2 DEF BindPassType, BindingType
    <3>4. PICK o : o = [binding[b] EXCEPT !.attached = x, !.ready = FALSE] OBVIOUS
    <3>5. o \in BindingType BY <1>1, <3>3, <3>4 DEF BindingType
    <3>6. BindUpdate(b, o) BY <1>7, <2>2, <3>1, <3>2, <3>4 DEF BindFails
    <3> QED BY <1>1, <3>5, <3>6, BindUpdateType
  <2> QED BY <2>1, <2>2
<1>8. ASSUME NEW b \in Bindings, BindEdit(b) PROVE BindOK'
  <2>1. binding[b] \in BindingType BY <1>1
  <2>2. \A s \in SUBSET Users : [binding[b] EXCEPT !.exists = TRUE, !.subjects = s] \in BindingType
    BY <2>1 DEF BindingType
  <2>3. \A r \in BOOLEAN : [binding[b] EXCEPT !.deleting = TRUE, !.retain = r] \in BindingType
    BY <2>1 DEF BindingType
  <2>4. \E o \in BindingType : binding' = [binding EXCEPT ![b] = o]
    <3>1. CASE \E s \in SUBSET Users \ {{}, binding[b].subjects} :
                 binding' = [binding EXCEPT ![b] = [@ EXCEPT !.exists = TRUE, !.subjects = s]]
      BY <2>2, <3>1
    <3>2. CASE \E r \in BOOLEAN :
                 binding' = [binding EXCEPT ![b] = IF @.fin THEN [@ EXCEPT !.deleting = TRUE, !.retain = r]
                                                            ELSE NoBinding]
      BY <2>3, <3>2, NothingTypes
    <3> QED BY <1>8, <3>1, <3>2 DEF BindEdit
  <2>5. PICK x \in BOOLEAN : x = (bindPass.stale \/ bindPass.b = b) OBVIOUS
  <2>6. bindPass' = [bindPass EXCEPT !.stale = x] BY <1>8, <2>5 DEF BindEdit
  <2>7. bindPass' \in BindPassType /\ bindPass'.pc = bindPass.pc /\ bindPass'.b = bindPass.b
        /\ bindPass'.held = bindPass.held
    BY <1>1, <2>6 DEF BindPassType
  <2> QED BY <1>1, <2>4, <2>7 DEF BindOK
<1>9. CASE Restart
  <2>1. IdleBindPass.pc = "idle" BY DEF IdleBindPass
  <2> QED BY <1>1, <1>9, <2>1, IdleTypes DEF Restart, BindOK
<1>10. CASE IdentStep \/ KeyBegin \/ KeyStep \/ ProviderReconcile \/ KeyFails \/ StoreLost \/ PolicyPut
           \/ Collect \/ CacheSync \/ IdentEdit \/ CredEdit \/ SecretEdit \/ ProviderEdit \/ ClusterEdit
  BY <1>2, <1>10
  DEF IdentStep, IdentCreate, IdentRead, IdentWrite, IdentDelete, IdentFinalize, KeyBegin, KeyStep,
      KeyProtect, KeyPending, KeyCreate, KeyRead, KeyWrite, KeySecret, KeyClean, KeyReady, KeyRevoke,
      KeyRemove, KeyOrphan, KeyFinalize, ProviderReconcile, KeyFails, StoreLost, PolicyPut, Collect,
      CacheSync, IdentEdit, CredEdit, SecretEdit, ProviderEdit, ClusterEdit
<1>11. CASE UNCHANGED vars BY <1>2, <1>11 DEF vars
<1> QED
  BY <1>3, <1>4, <1>5, <1>6, <1>7, <1>8, <1>9, <1>10, <1>11 DEF Next, People, BindStep

LEMMA UsersType ==
    ASSUME TypeInv, [Next]_vars
    PROVE  UsersOK'
<1>1. /\ UsersOK /\ users \in [Users -> UserType] /\ identPass \in IdentPassType
      /\ keyPass \in KeyPassType /\ bindPass \in BindPassType /\ KeyPassOK /\ BindOK
  BY DEF TypeInv, UsersOK, KeyPassOK, BindOK
<1>2. ASSUME users' \in [Users -> UserType], UNCHANGED <<policy, cluster, identVars>> PROVE UsersOK'
  BY <1>1, <1>2 DEF UsersOK, identVars
<1>3. CASE KeyCreate
  <2>1. keyPass.user \in Users /\ keyPass.pair \in Pairs BY <1>1, <1>3 DEF KeyCreate, KeyPassOK, Works
  <2>2. users[keyPass.user].keys \cup {keyPass.pair} \in SUBSET Pairs BY <1>1, <2>1 DEF UserType
  <2>3. users' = users \/ users' = [users EXCEPT ![keyPass.user].keys = users[keyPass.user].keys \cup {keyPass.pair}]
    BY <1>3 DEF KeyCreate
  <2> QED BY <1>1, <1>2, <1>3, <2>1, <2>2, <2>3, KeysType DEF KeyCreate
<1>4. CASE KeyWrite
  <2>1. keyPass.user \in Users /\ keyPass.buf \in UserType BY <1>1, <1>4 DEF KeyWrite, KeyPassOK, KeyPassType
  <2> QED BY <1>1, <1>2, <1>4, <2>1, UpdateUserType DEF KeyWrite
<1>5. CASE KeyClean \/ KeyRevoke
  <2>1. keyPass.user \in Users BY <1>1, <1>5 DEF KeyClean, KeyRevoke, KeyPassOK
  <2>2. PICK ks : ks = {k \in users[keyPass.user].keys : k[1] # keyPass.c.key} OBVIOUS
  <2>3. ks \in SUBSET Pairs BY <1>1, <2>1, <2>2 DEF UserType
  <2>4. users' = users \/ users' = [users EXCEPT ![keyPass.user].keys = ks]
    BY <1>5, <2>2 DEF KeyClean, KeyRevoke
  <2> QED BY <1>1, <1>2, <1>5, <2>1, <2>3, <2>4, KeysType DEF KeyClean, KeyRevoke
<1>6. CASE BindWrite
  <2>1. bindPass.held \in Users /\ bindPass.buf \in UserType BY <1>1, <1>6 DEF BindWrite, BindOK, BindPassType
  <2> QED BY <1>1, <1>2, <1>6, <2>1, UpdateUserType DEF BindWrite
<1>7. CASE StoreLost
  <2>1. \A u \in Users : [NoUser EXCEPT !.inc = users[u].inc] \in UserType
    BY <1>1, NothingTypes DEF UserType, NoUser
  <2>2. users' \in [Users -> UserType] BY <1>7, <2>1 DEF StoreLost
  <2> QED BY <1>1, <1>7, <2>2 DEF StoreLost, UsersOK, identVars
<1>8. CASE Restart BY <1>1, <1>8, IdleTypes DEF Restart, iamVars, UsersOK
<1>9. CASE IdentEdit BY <1>1, <1>9 DEF IdentEdit, iamVars, UsersOK
<1>10. CASE ClusterEdit BY <1>1, <1>10 DEF ClusterEdit, iamVars, identVars, UsersOK
<1>11. CASE PolicyPut BY <1>1, <1>11 DEF PolicyPut, identVars, UsersOK
<1>12. CASE KeyBegin \/ KeyProtect \/ KeyPending \/ KeyRead \/ KeySecret \/ KeyReady \/ KeyRemove
           \/ KeyOrphan \/ KeyFinalize \/ KeyFails \/ BindEnds \/ BindFails \/ ProviderReconcile
           \/ Collect \/ CacheSync \/ CredEdit \/ SecretEdit \/ ProviderEdit
           \/ (\E b \in Bindings : BindBegin(b) \/ BindEdit(b)) \/ (\E u \in Users : BindRead(u))
  BY <1>1, <1>2, <1>12
  DEF KeyBegin, KeyProtect, KeyPending, KeyRead, KeySecret, KeyReady, KeyRemove, KeyOrphan, KeyFinalize,
      KeyFails, BindEnds, BindFails, ProviderReconcile, Collect, CacheSync, CredEdit, SecretEdit,
      ProviderEdit, BindBegin, BindEdit, BindRead, iamVars
<1>13. CASE UNCHANGED vars BY <1>1, <1>2, <1>13 DEF vars, iamVars
<1> QED
  BY <1>3, <1>4, <1>5, <1>6, <1>7, <1>8, <1>9, <1>10, <1>11, <1>12, <1>13, IdentType
  DEF Next, People, KeyStep, BindStep

LEMMA RestType ==
    ASSUME TypeInv, [Next]_vars
    PROVE  RestOK'
<1>1. RestOK /\ provider \in ProviderType BY DEF TypeInv, RestOK
<1> USE DEF vars, IdentStep, IdentCreate, IdentRead, IdentWrite, IdentDelete, IdentFinalize, KeyBegin,
            KeyStep, KeyProtect, KeyPending, KeyCreate, KeyRead, KeyWrite, KeySecret, KeyClean, KeyReady,
            KeyRevoke, KeyRemove, KeyOrphan, KeyFinalize, BindStep, BindWrite, BindEnds, BindRead, BindBegin,
            KeyFails, BindFails, Restart, StoreLost, PolicyPut, Collect, CacheSync,
            People, IdentEdit, CredEdit, SecretEdit, ClusterEdit, BindEdit
<1>2. /\ UNCHANGED edits \/ Edit
      /\ UNCHANGED faults \/ Fault
  <2>1. ASSUME IdentStep \/ KeyBegin \/ KeyStep \/ BindStep \/ ProviderReconcile
               \/ (\E b \in Bindings : BindBegin(b)) \/ PolicyPut \/ Collect \/ CacheSync
               \/ UNCHANGED vars
        PROVE  UNCHANGED <<edits, faults>>
    BY <2>1 DEF ProviderReconcile
  <2>2. ASSUME KeyFails \/ BindFails \/ Restart \/ StoreLost PROVE UNCHANGED edits /\ Fault
    BY <2>2
  <2>3. ASSUME People PROVE Edit /\ UNCHANGED faults BY <2>3 DEF ProviderEdit
  <2> QED BY <2>1, <2>2, <2>3 DEF Next
<1>3. edits' \in 0 .. MaxEdits /\ faults' \in 0 .. MaxFaults
  BY <1>1, <1>2, BoundsAssumption DEF RestOK, Edit, Fault
<1>4. provider' \in ProviderType
  <2>1. CASE provider' = provider BY <1>1, <2>1
  <2>2. CASE ProviderReconcile \/ ProviderEdit
    <3>1. /\ [provider EXCEPT !.phase = "Pending"] \in ProviderType
          /\ [provider EXCEPT !.phase = "Failed"] \in ProviderType
          /\ [provider EXCEPT !.fin = TRUE] \in ProviderType
          /\ [provider EXCEPT !.deleting = TRUE] \in ProviderType
          /\ [NoProvider EXCEPT !.exists = TRUE] \in ProviderType
      BY <1>1 DEF ProviderType, NoProvider
    <3> QED BY <2>2, <3>1, NothingTypes DEF ProviderReconcile, ProviderEdit, PutOIDCProvider
  <2>3. provider' = provider \/ ProviderReconcile \/ ProviderEdit BY DEF Next
  <2> QED BY <2>1, <2>2, <2>3
<1> QED BY <1>3, <1>4 DEF RestOK

Inv == TypeInv /\ KeyInv

LEMMA InvHolds == Spec => []Inv
<1>1. Init => Inv
  <2> SUFFICES ASSUME Init PROVE Inv
    OBVIOUS
  <2>1. TypeInv BY TypeInit
  <2>2. SeenInv BY DEF Init, SeenInv, SamePair
  <2>3. IdleKeyPass.pc = "idle" BY DEF IdleKeyPass
  <2>4. CopyInv BY <2>3 DEF Init, CopyInv
  <2> QED BY <2>1, <2>2, <2>4 DEF Inv, KeyInv, TypeInv
<1>2. Inv /\ [Next]_vars => Inv'
  <2> SUFFICES ASSUME TypeInv, KeyInv, [Next]_vars PROVE Inv'
    BY DEF Inv
  <2>1. KeyInv' BY KeyNext
  <2>2. UsersOK' /\ BindOK' /\ RestOK' BY UsersType, BindType, RestType
  <2> QED BY <2>1, <2>2 DEF Inv, TypeInv, KeyInv
<1> QED BY <1>1, <1>2, PTL DEF Spec

(* Type correctness of the three controllers' state, the identities and    *)
(* the stored objects; a finalizer holds back every deletion, in the cache *)
(* and in a pass's copy too.                                               *)
THEOREM AccessTypeCorrect == Spec => []TypeOK
<1>1. Inv => TypeOK BY TypeParts DEF Inv
<1> QED BY <1>1, InvHolds, PTL

(***************************************************************************)
(* The pin and the pair.                                                   *)
(***************************************************************************)
PinStep == cred.exists /\ cred'.exists /\ Pin(cred) # Nobody => Pin(cred') = Pin(cred)
PairStep ==
    secret.exists /\ secret'.exists /\ secret.pair # NoPair /\ secret'.pair # secret.pair => edits' # edits

(* The steps that write neither the credential nor its Secret.             *)
LEMMA StoredUntouched ==
    ASSUME \/ IdentStep \/ KeyBegin \/ BindStep \/ ProviderReconcile \/ KeyFails \/ BindFails \/ Restart
           \/ StoreLost \/ PolicyPut \/ CacheSync \/ IdentEdit \/ ProviderEdit \/ ClusterEdit
           \/ KeyCreate \/ KeyRead \/ KeyWrite \/ KeyClean \/ KeyRevoke
           \/ \E b \in Bindings : BindBegin(b) \/ BindEdit(b)
           \/ UNCHANGED vars
    PROVE  cred' = cred /\ secret' = secret
<1> USE DEF keyVars, KeyPassTo
<1>1. CASE IdentStep \/ KeyBegin \/ BindStep \/ ProviderReconcile
  BY <1>1 DEF IdentStep, IdentCreate, IdentRead, IdentWrite, IdentDelete, IdentFinalize, KeyBegin,
              BindStep, BindWrite, BindEnds, BindRead, ProviderReconcile
<1>2. CASE KeyFails \/ BindFails \/ Restart \/ StoreLost \/ PolicyPut \/ CacheSync \/ IdentEdit
           \/ ProviderEdit \/ ClusterEdit
  BY <1>2 DEF KeyFails, BindFails, Restart, StoreLost, PolicyPut, CacheSync, IdentEdit, ProviderEdit,
              ClusterEdit
<1>3. CASE KeyCreate \/ KeyRead \/ KeyWrite \/ KeyClean \/ KeyRevoke
  BY <1>3 DEF KeyCreate, KeyRead, KeyWrite, KeyClean, KeyRevoke
<1>4. CASE (\E b \in Bindings : BindBegin(b) \/ BindEdit(b)) \/ UNCHANGED vars
  BY <1>4 DEF BindBegin, BindEdit, vars
<1> QED BY <1>1, <1>2, <1>3, <1>4

LEMMA PinNext ==
    ASSUME Inv, [Next]_vars
    PROVE  PinStep
<1>1. cred \in CredType /\ CopyInv /\ KeyPassOK BY DEF Inv, KeyInv, StoredOK
<1>2. ASSUME cred' = cred PROVE PinStep BY <1>2 DEF PinStep
<1>3. ASSUME NEW c, KeyUpdate(c), Pin(c) = Pin(cred) PROVE PinStep
  BY <1>2, <1>3 DEF KeyUpdate, KeyPassTo, PutCred, PinStep
<1>4. CASE KeyProtect
  <2>1. Pin([cred EXCEPT !.fin = TRUE]) = Pin(cred) BY <1>1 DEF CredType, Pin
  <2> QED BY <1>3, <1>4, <2>1 DEF KeyProtect
<1>5. CASE KeyPending
  <2>1. Pin([cred EXCEPT !.ready = FALSE]) = Pin(cred) BY <1>1 DEF CredType, Pin
  <2> QED BY <1>3, <1>5, <2>1 DEF KeyPending
<1>6. CASE KeyReady
  <2>1. PICK c : c = [cred EXCEPT !.user = keyPass.user, !.key = keyPass.pair[1], !.ready = TRUE] OBVIOUS
  <2>3. KeyUpdate(c) /\ keyPass.pc = "status" BY <1>6, <2>1 DEF KeyReady
  <2>6. keyPass.user \in Users /\ keyPass.user # Nobody
    BY <1>1, <2>3, NothingTypes DEF KeyPassOK, Users, Nobody
  <2>2. Pin(c) = keyPass.user
    <3>1. c.user = keyPass.user BY <1>1, <2>1 DEF CredType
    <3> QED BY <2>6, <3>1 DEF Pin
  <2>4. CASE "cred" \in keyPass.stale BY <1>2, <2>3, <2>4 DEF KeyUpdate, KeyPassTo
  <2>5. CASE "cred" \notin keyPass.stale
    <3>1. Pin(cred) # Nobody => keyPass.user = Pin(cred) BY <1>1, <2>3, <2>5 DEF CopyInv
    <3> QED BY <2>2, <2>3, <2>5, <3>1 DEF KeyUpdate, PutCred, PinStep
  <2> QED BY <2>4, <2>5
<1>7. ASSUME CredGone PROVE PinStep
  <2>1. ~[NoCred EXCEPT !.cross = cred.cross].exists BY DEF NoCred
  <2> QED BY <1>7, <2>1 DEF CredGone, PutCred, PinStep
<1>8. CASE KeyFinalize BY <1>2, <1>7, <1>8 DEF KeyFinalize, KeyPassTo
<1>9. CASE CredEdit
  <2>1. CASE ~cred.exists BY <2>1 DEF PinStep
  <2>2. ASSUME NEW r \in BOOLEAN, PutCred([cred EXCEPT !.deleting = TRUE, !.retain = r]) PROVE PinStep
    <3>1. Pin([cred EXCEPT !.deleting = TRUE, !.retain = r]) = Pin(cred) BY <1>1 DEF CredType, Pin
    <3> QED BY <2>2, <3>1 DEF PutCred, PinStep
  <2> QED BY <1>7, <1>9, <2>1, <2>2 DEF CredEdit
<1>10. CASE KeySecret \/ KeyRemove \/ KeyOrphan \/ SecretEdit \/ Collect
  BY <1>2, <1>10 DEF KeySecret, KeyRemove, KeyOrphan, SecretEdit, Collect, KeyPassTo
<1>11. CASE KeyStep
  BY <1>2, <1>4, <1>5, <1>6, <1>8, <1>10, <1>11, StoredUntouched DEF KeyStep
<1>12. CASE People BY <1>2, <1>9, <1>10, <1>12, StoredUntouched DEF People
<1> QED BY <1>2, <1>10, <1>11, <1>12, StoredUntouched DEF Next

LEMMA PairNext ==
    ASSUME Inv, [Next]_vars
    PROVE  PairStep
<1>1. secret \in SecretType /\ CopyInv /\ KeyPassOK BY DEF Inv, KeyInv, StoredOK
<1>2. ASSUME secret' = secret PROVE PairStep BY <1>2 DEF PairStep
<1>3. ASSUME NEW s, PutSecret(s), ~s.exists \/ s.pair = secret.pair PROVE PairStep
  BY <1>3 DEF PutSecret, PairStep
<1>4. CASE KeySecret
  <2>1. keyPass.pc = "secret" BY <1>4 DEF KeySecret
  <2>2. \/ KeyPassTo([keyPass EXCEPT !.pc = "clean", !.s = NoSecret, !.stale = @ \ {"secret"}])
        \/ KeyPassTo(IdleKeyPass)
        \/ /\ keyPass.s.exists /\ keyPass.s.pair # keyPass.pair /\ "secret" \notin keyPass.stale
           /\ PutSecret([secret EXCEPT !.pair = keyPass.pair])
        \/ ~secret.exists
    BY <1>4 DEF KeySecret
  <2>3. CASE /\ keyPass.s.exists /\ keyPass.s.pair # keyPass.pair /\ "secret" \notin keyPass.stale
             /\ PutSecret([secret EXCEPT !.pair = keyPass.pair])
    <3>1. SamePair(keyPass.s, secret) /\ (keyPass.s.pair # NoPair => keyPass.pair = keyPass.s.pair)
      BY <1>1, <2>1, <2>3 DEF CopyInv
    <3>2. secret.pair = NoPair BY <2>3, <3>1 DEF SamePair
    <3> QED BY <3>2 DEF PairStep
  <2>4. CASE ~secret.exists BY <2>4 DEF PairStep
  <2> QED BY <1>2, <2>2, <2>3, <2>4 DEF KeyPassTo
<1>5. CASE KeyRemove \/ KeyOrphan \/ Collect
  <2>1. [secret EXCEPT !.owner = "none"].pair = secret.pair /\ ~NoSecret.exists
    BY <1>1 DEF SecretType, NoSecret
  <2>2. \/ secret' = secret \/ PutSecret([secret EXCEPT !.owner = "none"]) \/ PutSecret(NoSecret)
    BY <1>5 DEF KeyRemove, KeyOrphan, Collect, KeyPassTo
  <2> QED BY <1>2, <1>3, <2>1, <2>2
<1>6. ASSUME CredGone PROVE PairStep BY <1>1, <1>6 DEF CredGone, SecretType, PairStep
<1>7. CASE KeyProtect \/ KeyPending \/ KeyReady \/ KeyFinalize \/ CredEdit
  BY <1>2, <1>6, <1>7 DEF KeyProtect, KeyPending, KeyReady, KeyFinalize, CredEdit, KeyUpdate, KeyPassTo
<1>8. CASE SecretEdit
  <2>1. edits' = edits + 1 /\ edits \in Int BY <1>8 DEF SecretEdit, Edit, Inv, TypeInv, RestOK
  <2> QED BY <2>1 DEF PairStep
<1>9. CASE KeyStep BY <1>2, <1>4, <1>5, <1>7, <1>9, StoredUntouched DEF KeyStep
<1>10. CASE People BY <1>2, <1>7, <1>8, <1>10, StoredUntouched DEF People
<1> QED BY <1>2, <1>5, <1>9, <1>10, StoredUntouched DEF Next

(* A provisioned credential stays with its user for its whole life, through*)
(* any lag of the cache, any edit and restart: the status a pass writes is *)
(* the pinned user's, or the write is rejected (resolveIdentityIAMName is  *)
(* not asked again once status.user is set, or a key without a user is).   *)
THEOREM PinStays == Spec => PinHolds
<1>1. Inv /\ [Next]_vars => PinStep BY PinNext
<1>2. Inv /\ PinStep =>
        (cred.exists /\ cred'.exists /\ (cred.user # Nobody \/ cred.key # 0) =>
           CredUser(cred)' = CredUser(cred))
  <2> SUFFICES ASSUME Inv, PinStep, cred.exists, cred'.exists, cred.user # Nobody \/ cred.key # 0
               PROVE  CredUser(cred)' = CredUser(cred)
    OBVIOUS
  <2>1. "lit" # Nobody BY DEF Nobody
  <2>2. Pin(cred) # Nobody /\ CredUser(cred) = Pin(cred) BY <2>1 DEF Pin, CredUser
  <2>3. Pin(cred') = Pin(cred) BY <2>2 DEF PinStep
  <2>4. CredUser(cred)' = Pin(cred') BY <2>1, <2>2, <2>3 DEF Pin, CredUser
  <2> QED BY <2>2, <2>3, <2>4
<1> QED BY <1>1, <1>2, InvHolds, PTL DEF Spec, PinHolds

(* The operator never replaces a pair in the Secret: only a person does.   *)
(* A pass that read the Secret without a pair, or not at all, and finds one*)
(* when it writes is rejected (writeSecret).                               *)
THEOREM PairStays == Spec => PairKept
<1>1. Inv /\ [Next]_vars => PairStep BY PairNext
<1>2. PairStep <=> (secret.exists /\ secret'.exists /\ secret.pair # NoPair /\ secret'.pair # secret.pair =>
                      edits' # edits)
  BY DEF PairStep
<1> QED BY <1>1, <1>2, InvHolds, PTL DEF Spec, PairKept

(***************************************************************************)
(* The locks. Whoever is between its reading and its writing of an identity*)
(* holds it alone, so its copy differs from the identity in the one thing  *)
(* it is about to write, unless the identity was deleted and created since.*)
(***************************************************************************)
IdentNear(b, r) ==
    b.inc <= r.inc /\ (r.up /\ b.inc = r.inc => b.keys = r.keys /\ b.pol = r.pol)
KeyNear(b, r, pair) ==
    /\ b.inc <= r.inc
    /\ r.up /\ b.inc = r.inc =>
         /\ b.disabled = r.disabled /\ b.pol = r.pol
         /\ b.keys = {k \in r.keys : k[1] # pair[1]} \cup {pair}
BindNear(b, r) ==
    b.inc <= r.inc /\ (r.up /\ b.inc = r.inc => b.disabled = r.disabled /\ b.keys = r.keys)

LockInv ==
    /\ identPass.held = IF identPass.pc = "write" THEN "man" ELSE Nobody
    /\ keyPass.held = IF keyPass.pc = "write" THEN keyPass.user ELSE Nobody
    /\ bindPass.pc # "write" => bindPass.held = Nobody
    /\ \A u \in Users :
         /\ ~(identPass.held = u /\ keyPass.held = u) /\ ~(identPass.held = u /\ bindPass.held = u)
         /\ ~(keyPass.held = u /\ bindPass.held = u)
         /\ identPass.held = u => IdentNear(identPass.buf, users[u])
         /\ keyPass.held = u => KeyNear(keyPass.buf, users[u], keyPass.pair)
         /\ bindPass.held = u => BindNear(bindPass.buf, users[u])

(* What happens to an identity that the step does not hold.                *)
Calm(u) ==
    \/ users'[u] = users[u]
    \/ ~users'[u].up /\ users'[u].inc = users[u].inc
    \/ ~users[u].up /\ users'[u].inc = users[u].inc + 1

Released(p) == p.pc # "write" /\ p.held = Nobody
SameHold(p, q) == p.pc = q.pc /\ p.held = q.held /\ p.buf = q.buf

(* A step that takes no lock: it may give some up, and whoever keeps one   *)
(* finds the identity as it was.                                           *)
NoLockTaken ==
    /\ Released(identPass') \/ SameHold(identPass', identPass)
    /\ \/ Released(keyPass')
       \/ /\ SameHold(keyPass', keyPass) /\ keyPass'.user = keyPass.user
          /\ keyPass'.pair = keyPass.pair
    /\ Released(bindPass') \/ SameHold(bindPass', bindPass)
    /\ \A u \in Users : Calm(u) \/ u \notin {identPass'.held, keyPass'.held, bindPass'.held}

LEMMA CalmNear ==
    ASSUME NEW u \in Users, users \in [Users -> UserType], Calm(u), NEW b \in UserType, NEW pair
    PROVE  /\ IdentNear(b, users[u]) => IdentNear(b, users'[u])
           /\ KeyNear(b, users[u], pair) => KeyNear(b, users'[u], pair)
           /\ BindNear(b, users[u]) => BindNear(b, users'[u])
<1>1. users[u].inc \in Nat /\ b.inc \in Nat BY DEF UserType
<1>2. CASE users'[u] = users[u] BY <1>2
<1>3. CASE ~users'[u].up /\ users'[u].inc = users[u].inc
  BY <1>1, <1>3 DEF IdentNear, KeyNear, BindNear
<1>4. CASE ~users[u].up /\ users'[u].inc = users[u].inc + 1
  BY <1>1, <1>4 DEF IdentNear, KeyNear, BindNear
<1> QED BY <1>2, <1>3, <1>4 DEF Calm

LEMMA LockKept ==
    ASSUME TypeInv, LockInv, NoLockTaken
    PROVE  LockInv'
<1>1. /\ users \in [Users -> UserType] /\ identPass.buf \in UserType /\ keyPass.buf \in UserType
      /\ bindPass.buf \in UserType /\ Nobody \notin Users
  BY NothingTypes DEF TypeInv, UsersOK, KeyPassOK, BindOK, IdentPassType, KeyPassType, BindPassType
<1>2. identPass'.held = IF identPass'.pc = "write" THEN "man" ELSE Nobody
  BY DEF LockInv, NoLockTaken, Released, SameHold
<1>3. keyPass'.held = IF keyPass'.pc = "write" THEN keyPass'.user ELSE Nobody
  BY DEF LockInv, NoLockTaken, Released, SameHold
<1>4. bindPass'.pc # "write" => bindPass'.held = Nobody
  BY DEF LockInv, NoLockTaken, Released, SameHold
<1>5. ASSUME NEW u \in Users
      PROVE  /\ ~(identPass'.held = u /\ keyPass'.held = u) /\ ~(identPass'.held = u /\ bindPass'.held = u)
             /\ ~(keyPass'.held = u /\ bindPass'.held = u)
  BY <1>1, <1>5 DEF LockInv, NoLockTaken, Released, SameHold
<1>6. ASSUME NEW u \in Users, identPass'.held = u PROVE IdentNear(identPass'.buf, users'[u])
  <2>1. Calm(u) /\ SameHold(identPass', identPass) BY <1>1, <1>6 DEF NoLockTaken, Released
  <2>2. IdentNear(identPass.buf, users[u]) BY <1>6, <2>1 DEF LockInv, SameHold
  <2> QED BY <1>1, <2>1, <2>2, CalmNear DEF SameHold
<1>7. ASSUME NEW u \in Users, keyPass'.held = u PROVE KeyNear(keyPass'.buf, users'[u], keyPass'.pair)
  <2>1. Calm(u) /\ SameHold(keyPass', keyPass) /\ keyPass'.pair = keyPass.pair
    BY <1>1, <1>7 DEF NoLockTaken, Released
  <2>2. KeyNear(keyPass.buf, users[u], keyPass.pair) BY <1>7, <2>1 DEF LockInv, SameHold
  <2> QED BY <1>1, <2>1, <2>2, CalmNear DEF SameHold
<1>8. ASSUME NEW u \in Users, bindPass'.held = u PROVE BindNear(bindPass'.buf, users'[u])
  <2>1. Calm(u) /\ SameHold(bindPass', bindPass) BY <1>1, <1>8 DEF NoLockTaken, Released
  <2>2. BindNear(bindPass.buf, users[u]) BY <1>8, <2>1 DEF LockInv, SameHold
  <2> QED BY <1>1, <2>1, <2>2, CalmNear DEF SameHold
<1> QED BY <1>2, <1>3, <1>4, <1>5, <1>6, <1>7, <1>8 DEF LockInv

(* The record a pass of the S3Credentials controller goes on with.         *)
LEMMA KeyHold ==
    ASSUME TypeInv, LockInv
    PROVE  /\ keyPass.pc # "write" => \A x \in {"pending", "secret", "status", "remove", "finalize"} :
                                       Released([keyPass EXCEPT !.pc = x])
           /\ Released([keyPass EXCEPT !.pc = "clean", !.s = NoSecret, !.stale = @ \ {"secret"}])
              \/ keyPass.pc = "write"
           /\ \A x \in {"pending", "secret"} :
                Released([keyPass EXCEPT !.pc = x, !.held = Nobody, !.buf = NoUser])
           /\ Released(IdleKeyPass) /\ Released(IdlePass) /\ Released(IdleBindPass)
<1>1. keyPass \in KeyPassType BY DEF TypeInv, KeyPassOK
<1>2. keyPass.pc # "write" => keyPass.held = Nobody BY DEF LockInv
<1>3. Released(IdleKeyPass) /\ Released(IdlePass) /\ Released(IdleBindPass)
  BY DEF Released, IdleKeyPass, IdlePass, IdleBindPass
<1> QED BY <1>1, <1>2, <1>3 DEF Released, KeyPassType

LEMMA IdentLocks ==
    ASSUME TypeInv, LockInv, IdentCreate \/ IdentWrite \/ IdentDelete \/ IdentFinalize
    PROVE  NoLockTaken
<1>1. users \in [Users -> UserType] /\ identPass \in IdentPassType /\ "man" \in Users
  BY NothingTypes DEF TypeInv, UsersOK
<1>2. keyPass' = keyPass /\ bindPass' = bindPass
  BY DEF IdentCreate, IdentWrite, IdentDelete, IdentFinalize, keyVars, bindVars
<1>3. ASSUME NEW u \in Users, u # "man" PROVE Calm(u)
  BY <1>1, <1>3
  DEF IdentCreate, IdentWrite, IdentDelete, IdentFinalize, CreateUser, UpdateUser, DeleteUser, iamVars, Calm
<1>4. CASE IdentCreate
  <2>1. PICK d : d = (ident = "off") OBVIOUS
  <2>2. users'["man"] = [NoUser EXCEPT !.up = TRUE, !.inc = users["man"].inc + 1, !.disabled = d]
    BY <1>1, <1>4, <2>1 DEF IdentCreate, CreateUser
  <2>3. ~users["man"].up /\ users'["man"].inc = users["man"].inc + 1 /\ identPass' = identPass
    BY <1>4, <2>2 DEF IdentCreate, identVars, NoUser
  <2> QED BY <1>2, <1>3, <2>3 DEF NoLockTaken, SameHold, Calm
<1>5. CASE IdentWrite
  <2>1. identPass.held = "man" /\ identPass' = IdlePass BY <1>5 DEF IdentWrite, LockInv
  <2>2. "man" \notin {identPass'.held, keyPass'.held, bindPass'.held}
    BY <1>1, <1>2, <2>1, NothingTypes DEF LockInv, IdlePass
  <2> QED BY <1>2, <1>3, <2>1, <2>2, KeyHold DEF NoLockTaken, SameHold
<1>6. CASE IdentDelete
  <2>1. identPass.held = Nobody /\ identPass' = [identPass EXCEPT !.pc = "finalize"]
    BY <1>6 DEF IdentDelete, LockInv
  <2>2. Released(identPass') BY <1>1, <2>1 DEF IdentPassType, Released
  <2>3. Calm("man") BY <1>1, <1>6 DEF IdentDelete, DeleteUser, NoUser, Calm
  <2> QED BY <1>2, <1>3, <2>2, <2>3 DEF NoLockTaken, SameHold
<1>7. CASE IdentFinalize
  <2>1. users' = users /\ identPass' = IdlePass BY <1>7 DEF IdentFinalize, iamVars
  <2> QED BY <1>2, <2>1, KeyHold DEF NoLockTaken, SameHold, Calm
<1> QED BY <1>4, <1>5, <1>6, <1>7

(* The keys of an identity nobody holds may change.                        *)
LEMMA FreeKeys ==
    ASSUME TypeInv, LockInv, NEW u \in Users, NEW ks, Released(keyPass'), UNCHANGED <<identPass, bindPass>>,
           users' = users \/ (users' = [users EXCEPT ![u].keys = ks] /\ Free(u))
    PROVE  NoLockTaken
<1>1. users \in [Users -> UserType] BY DEF TypeInv, UsersOK
<1>2. ASSUME NEW v \in Users PROVE Calm(v) \/ v \notin {identPass'.held, keyPass'.held, bindPass'.held}
  <2>1. CASE users' = users \/ v # u BY <1>1, <2>1 DEF Calm
  <2>2. CASE v = u /\ Free(u) BY <2>2, NothingTypes DEF Free, Released
  <2> QED BY <2>1, <2>2
<1> QED BY <1>2 DEF NoLockTaken, SameHold

LEMMA KeyLocks ==
    ASSUME Inv, LockInv, KeyBegin \/ KeyStep \/ KeyFails, ~KeyRead
    PROVE  NoLockTaken
<1>1. /\ TypeInv /\ users \in [Users -> UserType] /\ keyPass \in KeyPassType /\ KeyPassOK
      /\ Released(IdleKeyPass)
  BY KeyHold DEF Inv, TypeInv, UsersOK, KeyPassOK
<1>2. ASSUME Released(keyPass'), UNCHANGED <<users, identPass, bindPass>> PROVE NoLockTaken
  BY <1>2 DEF NoLockTaken, SameHold, Calm
<1>3. CASE KeyBegin
  <2>1. PICK u : u = CredUser(seen.cred) OBVIOUS
  <2>2. PICK pair : pair = DesiredPair OBVIOUS
  <2>3. StoredOK /\ seen.cred \in CredType /\ FreshKeys # {}
    BY <1>3 DEF Inv, KeyInv, StoredOK, SeenType, KeyBegin
  <2>4. u \in Users /\ pair \in Pairs BY <2>1, <2>2, <2>3, CredUserType, DesiredPairType
  <2>5. keyPass' = KeyPass(seen.cred, u, pair) BY <1>3, <2>1, <2>2 DEF KeyBegin
  <2>6. Released(keyPass') BY <2>3, <2>4, <2>5, KeyPassFacts DEF Released
  <2> QED BY <1>2, <1>3, <2>6 DEF KeyBegin, iamVars, identVars, bindVars
<1>4. CASE KeyFails
  <2>1. Released(keyPass') BY <1>1, <1>4, KeyHold DEF KeyFails, KeyPassTo
  <2> QED BY <1>2, <1>4, <2>1 DEF KeyFails, iamVars, identVars, bindVars
<1>5. CASE KeyProtect \/ KeyPending \/ KeyReady \/ KeyFinalize
  <2>1. keyPass' = IdleKeyPass
    BY <1>5 DEF KeyProtect, KeyPending, KeyReady, KeyFinalize, KeyUpdate, KeyPassTo
  <2> QED BY <1>1, <1>2, <1>5, <2>1
          DEF KeyProtect, KeyPending, KeyReady, KeyFinalize, iamVars, identVars, bindVars
<1>6. CASE KeySecret
  <2>1. keyPass' \in {IdleKeyPass, [keyPass EXCEPT !.pc = "clean", !.s = NoSecret, !.stale = @ \ {"secret"}]}
    BY <1>6 DEF KeySecret, KeyPassTo
  <2>2. Released(keyPass') BY <1>1, <1>6, <2>1, KeyHold DEF KeySecret
  <2> QED BY <1>2, <1>6, <2>2 DEF KeySecret, iamVars, identVars, bindVars
<1>7. CASE KeyRemove \/ KeyOrphan
  <2>1. keyPass' \in {IdleKeyPass, [keyPass EXCEPT !.pc = "finalize"]} /\ keyPass.pc # "write"
    BY <1>7 DEF KeyRemove, KeyOrphan, KeyPassTo
  <2>2. Released(keyPass') BY <1>1, <2>1, KeyHold
  <2> QED BY <1>2, <1>7, <2>2 DEF KeyRemove, KeyOrphan, iamVars, identVars, bindVars
<1>8. CASE KeyCreate
  <2>1. keyPass.pc = "create" /\ keyPass.user \in Users /\ Free(keyPass.user)
    BY <1>1, <1>8 DEF KeyCreate, KeyPassOK
  <2>2. Released(keyPass') BY <1>1, <1>8, <2>1, KeyHold DEF KeyCreate, KeyPassTo
  <2>3. UNCHANGED <<identPass, bindPass>> BY <1>8 DEF KeyCreate, identVars, bindVars
  <2>4. PICK ks : ks = users[keyPass.user].keys \cup {keyPass.pair} OBVIOUS
  <2>5. users' = users \/ users' = [users EXCEPT ![keyPass.user].keys = ks] BY <1>8, <2>4 DEF KeyCreate
  <2> QED BY <1>1, <2>1, <2>2, <2>3, <2>5, FreeKeys
<1>9. CASE KeyClean \/ KeyRevoke
  <2>1. keyPass.pc # "write" /\ keyPass.user \in Users BY <1>1, <1>9 DEF KeyClean, KeyRevoke, KeyPassOK
  <2>2. Released(keyPass') BY <1>1, <1>9, <2>1, KeyHold DEF KeyClean, KeyRevoke, KeyPassTo, DropSecret
  <2>3. UNCHANGED <<identPass, bindPass>> BY <1>9 DEF KeyClean, KeyRevoke, identVars, bindVars
  <2>4. PICK ks : ks = {k \in users[keyPass.user].keys : k[1] # keyPass.c.key} OBVIOUS
  <2>5. users' = users \/ (users' = [users EXCEPT ![keyPass.user].keys = ks] /\ Free(keyPass.user))
    BY <1>9, <2>4 DEF KeyClean, KeyRevoke
  <2> QED BY <1>1, <2>1, <2>2, <2>3, <2>5, FreeKeys
<1>10. CASE KeyWrite
  <2>1. keyPass.pc = "write" /\ keyPass.user \in Users /\ keyPass.held = keyPass.user
    BY <1>1, <1>10 DEF KeyWrite, KeyPassOK, LockInv
  <2>2. Released(keyPass') BY <1>1, <1>10, KeyHold DEF KeyWrite, KeyPassTo
  <2>3. UNCHANGED <<identPass, bindPass>> BY <1>10 DEF KeyWrite, identVars, bindVars
  <2>4. ASSUME NEW v \in Users PROVE Calm(v) \/ v \notin {identPass'.held, keyPass'.held, bindPass'.held}
    <3>1. CASE v # keyPass.user BY <1>1, <1>10, <3>1 DEF KeyWrite, UpdateUser, Calm
    <3>2. CASE v = keyPass.user BY <2>1, <2>2, <2>3, <3>2, NothingTypes DEF LockInv, Released
    <3> QED BY <3>1, <3>2
  <2> QED BY <2>2, <2>3, <2>4 DEF NoLockTaken, SameHold
<1> QED BY <1>3, <1>4, <1>5, <1>6, <1>7, <1>8, <1>9, <1>10 DEF KeyStep

LEMMA BindLocks ==
    ASSUME TypeInv, LockInv,
           BindWrite \/ BindEnds \/ BindFails \/ (\E b \in Bindings : BindBegin(b) \/ BindEdit(b))
    PROVE  NoLockTaken
<1>1. /\ users \in [Users -> UserType] /\ bindPass \in BindPassType /\ BindOK /\ Released(IdleBindPass)
  BY KeyHold DEF TypeInv, UsersOK, BindOK
<1>2. identPass' = identPass /\ keyPass' = keyPass
  BY DEF BindWrite, BindEnds, BindFails, BindBegin, BindEdit, identVars, keyVars
<1>3. ASSUME Released(bindPass') \/ SameHold(bindPass', bindPass), users' = users PROVE NoLockTaken
  BY <1>2, <1>3 DEF NoLockTaken, SameHold, Calm
<1>4. CASE BindWrite
  <2>1. bindPass.held \in Users BY <1>1, <1>4 DEF BindWrite, BindOK
  <2>2. users[bindPass.held].up \in BOOLEAN BY <1>1, <2>1 DEF UserType
  <2>3. Released(bindPass')
    BY <1>1, <1>4, <2>1, <2>2, BindDoneFacts DEF BindWrite, BindPassTo, Released
  <2>4. ASSUME NEW v \in Users PROVE Calm(v) \/ v \notin {identPass'.held, keyPass'.held, bindPass'.held}
    <3>1. CASE v # bindPass.held BY <1>1, <1>4, <3>1 DEF BindWrite, UpdateUser, Calm
    <3>2. CASE v = bindPass.held BY <1>2, <2>1, <2>3, <3>2, NothingTypes DEF LockInv, Released
    <3> QED BY <3>1, <3>2
  <2> QED BY <1>2, <2>3, <2>4 DEF NoLockTaken, SameHold
<1>5. CASE BindEnds \/ BindFails
  <2>1. bindPass' = IdleBindPass /\ users' = users
    BY <1>5 DEF BindEnds, BindFails, BindUpdate, BindPassTo, iamVars
  <2> QED BY <1>1, <1>3, <2>1
<1>6. ASSUME NEW b \in Bindings, BindBegin(b) PROVE NoLockTaken
  <2> DEFINE o == binding[b]
             desired == {Resolve(s) : s \in o.subjects}
             off == IF o.retain THEN {} ELSE o.attached
             p == [IdleBindPass EXCEPT !.pc = "detach", !.b = b]
  <2>1. PICK q : q = [p EXCEPT !.gone = TRUE, !.detach = off] OBVIOUS
  <2>2. PICK r : r = [p EXCEPT !.detach = o.attached \ desired, !.attach = desired] OBVIOUS
  <2>3. bindPass' \in {IdleBindPass, q, r}
    BY <1>6, <2>1, <2>2 DEF BindBegin, BindUpdate, BindPassTo
  <2>4. p.pc = "detach" /\ p.held = Nobody /\ p \in BindPassType
    BY <1>6, IdleTypes DEF IdleBindPass, BindPassType
  <2> HIDE DEF p, off, desired, o
  <2>5. Released(q) /\ Released(r) BY <2>1, <2>2, <2>4 DEF Released, BindPassType
  <2> QED BY <1>1, <1>3, <1>6, <2>3, <2>5 DEF BindBegin, iamVars
<1>7. ASSUME NEW b \in Bindings, BindEdit(b) PROVE NoLockTaken
  <2>1. PICK x \in BOOLEAN : x = (bindPass.stale \/ bindPass.b = b) OBVIOUS
  <2>2. bindPass' = [bindPass EXCEPT !.stale = x] BY <1>7, <2>1 DEF BindEdit
  <2>3. SameHold(bindPass', bindPass) BY <1>1, <2>2 DEF SameHold, BindPassType
  <2> QED BY <1>3, <1>7, <2>3 DEF BindEdit, iamVars
<1> QED BY <1>4, <1>5, <1>6, <1>7

LEMMA OtherLocks ==
    ASSUME TypeInv, LockInv,
           \/ ProviderReconcile \/ Restart \/ StoreLost \/ PolicyPut \/ Collect \/ CacheSync \/ IdentEdit
           \/ CredEdit \/ SecretEdit \/ ProviderEdit \/ ClusterEdit \/ UNCHANGED vars
    PROVE  NoLockTaken
<1>1. users \in [Users -> UserType] /\ keyPass \in KeyPassType BY DEF TypeInv, UsersOK, KeyPassOK
<1>2. CASE CredEdit \/ SecretEdit \/ Collect
  <2>1. PICK what : keyPass' = Spoil(what) BY <1>2 DEF CredEdit, SecretEdit, Collect
  <2>2. SameHold(keyPass', keyPass) /\ keyPass'.user = keyPass.user /\ keyPass'.pair = keyPass.pair
    BY <1>1, <2>1 DEF Spoil, SameHold, KeyPassType
  <2>3. UNCHANGED <<users, identPass, bindPass>>
    BY <1>2 DEF CredEdit, SecretEdit, Collect, iamVars, identVars, bindVars
  <2> QED BY <2>2, <2>3 DEF NoLockTaken, SameHold, Calm
<1>3. CASE Restart BY <1>3, KeyHold DEF Restart, iamVars, NoLockTaken, Calm
<1>4. CASE StoreLost
  <2>1. \A u \in Users : Calm(u) BY <1>1, <1>4 DEF StoreLost, NoUser, Calm
  <2> QED BY <1>4, <2>1 DEF StoreLost, identVars, keyVars, bindVars, NoLockTaken, SameHold
<1>5. CASE \/ ProviderReconcile \/ PolicyPut \/ CacheSync \/ IdentEdit \/ ProviderEdit \/ ClusterEdit
           \/ UNCHANGED vars
  <2>1. UNCHANGED <<users, identPass, keyPass, bindPass>>
    BY <1>5 DEF ProviderReconcile, PolicyPut, CacheSync, IdentEdit, ProviderEdit, ClusterEdit, vars,
                iamVars, identVars, keyVars, bindVars
  <2> QED BY <2>1 DEF NoLockTaken, SameHold, Calm
<1> QED BY <1>2, <1>3, <1>4, <1>5

(* A pass takes the lock only of an identity nobody holds.                 *)
LEMMA LockTaken ==
    ASSUME Inv, LockInv, IdentRead \/ KeyRead \/ \E u \in Users : BindRead(u)
    PROVE  LockInv'
<1>1. /\ TypeInv /\ users \in [Users -> UserType] /\ identPass \in IdentPassType /\ keyPass \in KeyPassType
      /\ KeyPassOK /\ bindPass \in BindPassType /\ "man" \in Users /\ Nobody \notin Users
  BY NothingTypes DEF Inv, TypeInv, UsersOK, KeyPassOK, BindOK
<1>2. users' = users BY DEF IdentRead, KeyRead, BindRead, iamVars
<1>3. \A u \in Users : users[u].inc \in Nat BY <1>1 DEF UserType
<1>4. CASE IdentRead
  <2>1. PICK d : d = (ident = "off") OBVIOUS
  <2>2. PICK id : id = [users["man"] EXCEPT !.disabled = d] OBVIOUS
  <2>3. identPass' = [pc |-> "write", held |-> "man", buf |-> id] BY <1>4, <2>1, <2>2 DEF IdentRead
  <2>4. id.inc = users["man"].inc /\ id.keys = users["man"].keys /\ id.pol = users["man"].pol
    BY <1>1, <2>2 DEF UserType
  <2>5. identPass'.pc = "write" /\ identPass'.held = "man" /\ IdentNear(identPass'.buf, users["man"])
    BY <1>1, <1>3, <2>3, <2>4 DEF IdentNear
  <2>6. Free("man") /\ keyPass' = keyPass /\ bindPass' = bindPass BY <1>4 DEF IdentRead, keyVars, bindVars
  <2> HIDE <2>3
  <2> QED BY <1>1, <1>2, <2>5, <2>6 DEF LockInv, Free
<1>5. CASE KeyRead
  <2>1. keyPass.pc = "update" /\ Free(keyPass.user) /\ keyPass.user \in Users
    BY <1>1, <1>5 DEF KeyRead, KeyPassOK
  <2>2. identPass' = identPass /\ bindPass' = bindPass BY <1>5 DEF KeyRead, identVars, bindVars
  <2>3. CASE KeyPassTo([keyPass EXCEPT !.pc = "pending"])
    <3>1. Released(keyPass') BY <1>1, <2>1, <2>3, KeyHold DEF KeyPassTo
    <3>2. NoLockTaken BY <1>2, <2>2, <3>1 DEF NoLockTaken, SameHold, Calm
    <3> QED BY <1>1, <3>2, LockKept
  <2>4. CASE ~KeyPassTo([keyPass EXCEPT !.pc = "pending"])
    <3>1. PICK u \in Users : u = keyPass.user BY <2>1
    <3>2. PICK ks : ks = {k \in users[u].keys : k[1] # keyPass.pair[1]} \cup {keyPass.pair} OBVIOUS
    <3>3. PICK id : id = [users[u] EXCEPT !.keys = ks] OBVIOUS
    <3>4. keyPass' = [keyPass EXCEPT !.pc = "write", !.held = u, !.buf = id]
      BY <1>5, <2>4, <3>1, <3>2, <3>3 DEF KeyRead, KeyPassTo
    <3>5. id.inc = users[u].inc /\ id.disabled = users[u].disabled /\ id.pol = users[u].pol /\ id.keys = ks
      BY <1>1, <3>3 DEF UserType
    <3>6. /\ keyPass'.pc = "write" /\ keyPass'.held = u /\ keyPass'.buf = id /\ keyPass'.user = u
          /\ keyPass'.pair = keyPass.pair
      BY <1>1, <3>1, <3>4 DEF KeyPassType
    <3>7. KeyNear(keyPass'.buf, users[u], keyPass'.pair) BY <1>3, <3>2, <3>5, <3>6 DEF KeyNear
    <3> HIDE <3>4
    <3> QED BY <1>1, <1>2, <2>1, <2>2, <3>1, <3>6, <3>7 DEF LockInv, Free
  <2> QED BY <2>3, <2>4
<1>6. ASSUME NEW u \in Users, BindRead(u) PROVE LockInv'
  <2>1. bindPass.pc = "detach" /\ Free(u) BY <1>6 DEF BindRead
  <2>2. identPass' = identPass /\ keyPass' = keyPass BY <1>6 DEF BindRead, identVars, keyVars
  <2>3. users[u].up \in BOOLEAN BY <1>1 DEF UserType
  <2>4. CASE BindPassTo(BindDone(u, users[u].up))
    <3>1. Released(bindPass') BY <1>1, <2>3, <2>4, BindDoneFacts DEF BindPassTo, Released
    <3>2. NoLockTaken BY <1>2, <2>2, <3>1 DEF NoLockTaken, SameHold, Calm
    <3> QED BY <1>1, <3>2, LockKept
  <2>5. CASE ~BindPassTo(BindDone(u, users[u].up))
    <3>1. PICK want : want = (bindPass.detach = {}) OBVIOUS
    <3>2. PICK id : id = [users[u] EXCEPT !.pol = want] OBVIOUS
    <3>3. bindPass' = [bindPass EXCEPT !.pc = "write", !.held = u, !.buf = id]
      BY <1>6, <2>5, <3>1, <3>2 DEF BindRead, BindPassTo
    <3>4. id.inc = users[u].inc /\ id.disabled = users[u].disabled /\ id.keys = users[u].keys
      BY <1>1, <3>2 DEF UserType
    <3>5. bindPass'.pc = "write" /\ bindPass'.held = u /\ BindNear(bindPass'.buf, users[u])
      BY <1>1, <1>3, <3>3, <3>4 DEF BindNear, BindPassType
    <3> HIDE <3>3
    <3> QED BY <1>1, <1>2, <2>1, <2>2, <3>5 DEF LockInv, Free
  <2> QED BY <2>4, <2>5
<1> QED BY <1>4, <1>5, <1>6

LEMMA LockNext ==
    ASSUME Inv, LockInv, [Next]_vars
    PROVE  LockInv'
<1>1. TypeInv BY DEF Inv
<1>2. CASE IdentStep BY <1>1, <1>2, IdentLocks, LockKept, LockTaken DEF IdentStep
<1>3. CASE KeyBegin \/ KeyStep \/ KeyFails BY <1>1, <1>3, KeyLocks, LockKept, LockTaken
<1>4. CASE BindStep \/ BindFails \/ (\E b \in Bindings : BindBegin(b) \/ BindEdit(b))
  BY <1>1, <1>4, BindLocks, LockKept, LockTaken DEF BindStep
<1>5. CASE \/ ProviderReconcile \/ Restart \/ StoreLost \/ PolicyPut \/ Collect \/ CacheSync \/ IdentEdit
           \/ CredEdit \/ SecretEdit \/ ProviderEdit \/ ClusterEdit \/ UNCHANGED vars
  BY <1>1, <1>5, OtherLocks, LockKept
<1> QED BY <1>2, <1>3, <1>4, <1>5 DEF Next, People

LEMMA LocksHold == Spec => []LockInv
<1>1. Init => LockInv
  <2> SUFFICES ASSUME Init PROVE LockInv
    OBVIOUS
  <2>1. Released(IdlePass) /\ Released(IdleKeyPass) /\ Released(IdleBindPass)
    BY DEF Released, IdleKeyPass, IdlePass, IdleBindPass
  <2>2. identPass = IdlePass /\ keyPass = IdleKeyPass /\ bindPass = IdleBindPass BY DEF Init
  <2> QED BY <2>1, <2>2, NothingTypes DEF Released, LockInv
<1>2. Inv /\ LockInv /\ [Next]_vars => LockInv' BY LockNext
<1> QED BY <1>1, <1>2, InvHolds, PTL DEF Spec

(***************************************************************************)
(* No lost update.                                                         *)
(***************************************************************************)
Same(u) == users'[u].up /\ users[u].up /\ users'[u].inc = users[u].inc /\ ~Outdated(u)

(* What differs between two sets of pairs is under one key id.             *)
UnderOne(new, old, i) == \A k \in (new \ old) \cup (old \ new) : k[1] = i

(* One thing of the identity is different: its state, its policy, or what  *)
(* it has under one key id.                                                *)
OneThing(u) ==
    \/ users'[u].keys = users[u].keys /\ users'[u].pol = users[u].pol
    \/ users'[u].keys = users[u].keys /\ users'[u].disabled = users[u].disabled
    \/ /\ users'[u].disabled = users[u].disabled /\ users'[u].pol = users[u].pol
       /\ \E i : UnderOne(users'[u].keys, users[u].keys, i)

LEMMA AtMostOne ==
    ASSUME NEW S, NEW x, S \subseteq {x}
    PROVE  Cardinality(S) <= 1
<1>1. IsFiniteSet({x}) /\ Cardinality({x}) = 1 BY FS_Singleton
<1>2. Cardinality(S) <= Cardinality({x}) BY <1>1, FS_Subset
<1> QED BY <1>1, <1>2

LEMMA OneThingCounts ==
    ASSUME NEW u \in Users, OneThing(u)
    PROVE  Cardinality(Changes(u)) <= 1 /\ Cardinality(KeyChanges(u)) <= 1
<1>1. CASE users'[u].keys = users[u].keys /\ users'[u].pol = users[u].pol
  <2>1. Changes(u) \subseteq {"disabled"} BY <1>1 DEF Changes
  <2>2. KeyChanges(u) \subseteq {0} BY <1>1 DEF KeyChanges
  <2> QED BY <2>1, <2>2, AtMostOne
<1>2. CASE users'[u].keys = users[u].keys /\ users'[u].disabled = users[u].disabled
  <2>1. Changes(u) \subseteq {"pol"} BY <1>2 DEF Changes
  <2>2. KeyChanges(u) \subseteq {0} BY <1>2 DEF KeyChanges
  <2> QED BY <2>1, <2>2, AtMostOne
<1>3. CASE /\ users'[u].disabled = users[u].disabled /\ users'[u].pol = users[u].pol
           /\ \E i : UnderOne(users'[u].keys, users[u].keys, i)
  <2>1. PICK i : UnderOne(users'[u].keys, users[u].keys, i)
    BY <1>3
  <2>2. Changes(u) \subseteq {"keys"} BY <1>3 DEF Changes
  <2>3. KeyChanges(u) \subseteq {i} BY <2>1 DEF KeyChanges, UnderOne
  <2> QED BY <2>2, <2>3, AtMostOne
<1> QED BY <1>1, <1>2, <1>3 DEF OneThing

LEMMA OneThingNext ==
    ASSUME Inv, LockInv, [Next]_vars, NEW u \in Users, Same(u)
    PROVE  OneThing(u)
<1>1. /\ TypeInv /\ users \in [Users -> UserType] /\ users[u] \in UserType /\ KeyPassOK /\ BindOK
      /\ identPass.buf \in UserType /\ keyPass.buf \in UserType /\ bindPass.buf \in UserType
  BY DEF Inv, TypeInv, UsersOK, KeyPassOK, BindOK, IdentPassType, KeyPassType, BindPassType
<1>2. ASSUME users'[u] = users[u] PROVE OneThing(u) BY <1>2 DEF OneThing
<1>3. ASSUME NEW v \in Users, NEW id \in UserType, UpdateUser(v, id), v # u \/ ~users[u].up PROVE OneThing(u)
  BY <1>1, <1>2, <1>3 DEF UpdateUser
<1>4. ASSUME NEW id \in UserType, UpdateUser(u, id)
      PROVE  users'[u].keys = id.keys /\ users'[u].pol = id.pol /\ users'[u].disabled = id.disabled
  BY <1>1, <1>4 DEF UpdateUser, UserType, Same
<1>5. CASE IdentWrite
  <2>1. CASE u # "man" BY <1>1, <1>3, <1>5, <2>1, NothingTypes DEF IdentWrite
  <2>2. CASE u = "man"
    <3>1. identPass.held = u BY <1>5, <2>2 DEF IdentWrite, LockInv
    <3>2. identPass.buf.inc = users[u].inc BY <3>1 DEF Same, Outdated
    <3>3. identPass.buf.keys = users[u].keys /\ identPass.buf.pol = users[u].pol
      BY <3>1, <3>2 DEF LockInv, IdentNear, Same
    <3> QED BY <1>1, <1>4, <1>5, <2>2, <3>3 DEF IdentWrite, OneThing
  <2> QED BY <2>1, <2>2
<1>6. CASE KeyWrite
  <2>1. keyPass.user \in Users /\ keyPass.held = keyPass.user BY <1>1, <1>6 DEF KeyWrite, KeyPassOK, LockInv
  <2>2. CASE u # keyPass.user BY <1>1, <1>3, <1>6, <2>1, <2>2 DEF KeyWrite
  <2>3. CASE u = keyPass.user
    <3>1. keyPass.buf.inc = users[u].inc BY <2>1, <2>3 DEF Same, Outdated
    <3>2. /\ keyPass.buf.disabled = users[u].disabled /\ keyPass.buf.pol = users[u].pol
          /\ keyPass.buf.keys = {k \in users[u].keys : k[1] # keyPass.pair[1]} \cup {keyPass.pair}
      BY <2>1, <2>3, <3>1 DEF LockInv, KeyNear, Same
    <3>3. /\ users'[u].disabled = users[u].disabled /\ users'[u].pol = users[u].pol
          /\ users'[u].keys = {k \in users[u].keys : k[1] # keyPass.pair[1]} \cup {keyPass.pair}
      BY <1>1, <1>4, <1>6, <2>3, <3>2 DEF KeyWrite
    <3>4. UnderOne(users'[u].keys, users[u].keys, keyPass.pair[1])
      BY <3>3 DEF UnderOne
    <3> QED BY <3>3, <3>4 DEF OneThing
  <2> QED BY <2>2, <2>3
<1>7. CASE BindWrite
  <2>1. bindPass.held \in Users BY <1>1, <1>7 DEF BindWrite, BindOK
  <2>2. CASE u # bindPass.held BY <1>1, <1>3, <1>7, <2>1, <2>2 DEF BindWrite
  <2>3. CASE u = bindPass.held
    <3>1. bindPass.buf.inc = users[u].inc BY <2>3 DEF Same, Outdated
    <3>2. bindPass.buf.disabled = users[u].disabled /\ bindPass.buf.keys = users[u].keys
      BY <2>3, <3>1 DEF LockInv, BindNear, Same
    <3> QED BY <1>1, <1>4, <1>7, <2>3, <3>2 DEF BindWrite, OneThing
  <2> QED BY <2>2, <2>3
<1>8. ASSUME NEW v \in Users, NEW ks, NEW i, users' = [users EXCEPT ![v].keys = ks],
             UnderOne(ks, users[v].keys, i)
      PROVE  OneThing(u)
  <2>1. CASE u # v BY <1>1, <1>2, <1>8, <2>1
  <2>2. CASE u = v
    <3>1. users'[u].keys = ks /\ users'[u].disabled = users[u].disabled /\ users'[u].pol = users[u].pol
      BY <1>1, <1>8, <2>2 DEF UserType
    <3> QED BY <1>8, <2>2, <3>1 DEF OneThing
  <2> QED BY <2>1, <2>2
<1>9. CASE KeyCreate
  <2>1. keyPass.user \in Users BY <1>1, <1>9 DEF KeyCreate, KeyPassOK
  <2>2. PICK ks : ks = users[keyPass.user].keys \cup {keyPass.pair} OBVIOUS
  <2>3. users' = users \/ users' = [users EXCEPT ![keyPass.user].keys = ks] BY <1>9, <2>2 DEF KeyCreate
  <2>4. UnderOne(ks, users[keyPass.user].keys, keyPass.pair[1])
    BY <2>2 DEF UnderOne
  <2> QED BY <1>2, <1>8, <2>1, <2>3, <2>4
<1>10. CASE KeyClean \/ KeyRevoke
  <2>1. keyPass.user \in Users BY <1>1, <1>10 DEF KeyClean, KeyRevoke, KeyPassOK
  <2>2. PICK ks : ks = {k \in users[keyPass.user].keys : k[1] # keyPass.c.key} OBVIOUS
  <2>3. users' = users \/ users' = [users EXCEPT ![keyPass.user].keys = ks]
    BY <1>10, <2>2 DEF KeyClean, KeyRevoke
  <2>4. UnderOne(ks, users[keyPass.user].keys, keyPass.c.key)
    BY <2>2 DEF UnderOne
  <2> QED BY <1>2, <1>8, <2>1, <2>3, <2>4
<1>11. CASE IdentCreate BY <1>1, <1>2, <1>11 DEF IdentCreate, CreateUser, Same
<1>12. CASE IdentDelete BY <1>1, <1>2, <1>12 DEF IdentDelete, DeleteUser, NoUser, Same
<1>13. CASE StoreLost BY <1>13 DEF StoreLost, NoUser, Same
<1>14. CASE IdentRead \/ IdentFinalize \/ KeyBegin \/ KeyProtect \/ KeyPending \/ KeyRead \/ KeySecret
           \/ KeyReady \/ KeyRemove \/ KeyOrphan \/ KeyFinalize \/ KeyFails \/ BindEnds \/ BindFails
  BY <1>2, <1>14
  DEF IdentRead, IdentFinalize, KeyBegin, KeyProtect, KeyPending, KeyRead, KeySecret, KeyReady, KeyRemove,
      KeyOrphan, KeyFinalize, KeyFails, BindEnds, BindFails, iamVars
<1>15. CASE \/ ProviderReconcile \/ Restart \/ PolicyPut \/ Collect \/ CacheSync \/ People
            \/ (\E b \in Bindings : BindBegin(b)) \/ (\E v \in Users : BindRead(v)) \/ UNCHANGED vars
  BY <1>2, <1>15
  DEF ProviderReconcile, Restart, PolicyPut, Collect, CacheSync, People, IdentEdit, CredEdit, SecretEdit,
      ProviderEdit, ClusterEdit, BindEdit, BindBegin, BindRead, vars, iamVars
<1> QED
  BY <1>5, <1>6, <1>7, <1>9, <1>10, <1>11, <1>12, <1>13, <1>14, <1>15
  DEF Next, IdentStep, KeyStep, BindStep

ClobberStep ==
    \A u \in Users :
        users[u].up /\ users'[u].up /\ users'[u].inc = users[u].inc /\ ~Outdated(u) =>
            Cardinality(Changes(u)) <= 1 /\ Cardinality(KeyChanges(u)) <= 1

(* No update of an identity is lost, for any number of bindings, edits and *)
(* faults: a writer holds the lock since it read the identity, so its copy *)
(* differs from it in the one thing that it changes, as long as nobody     *)
(* deletes and creates the identity in between (iamUserLocks).             *)
THEOREM NoUpdateLost == Spec => NoClobber
<1>1. ASSUME Inv, LockInv, [Next]_vars PROVE ClobberStep
  <2>1. ASSUME NEW u \in Users, users[u].up, users'[u].up, users'[u].inc = users[u].inc, ~Outdated(u)
        PROVE  Cardinality(Changes(u)) <= 1 /\ Cardinality(KeyChanges(u)) <= 1
    BY <1>1, <2>1, OneThingNext, OneThingCounts DEF Same
  <2> QED BY <2>1 DEF ClobberStep
<1>2. ClobberStep <=>
        \A u \in Users :
            users[u].up /\ users'[u].up /\ users'[u].inc = users[u].inc /\ ~Outdated(u) =>
                Cardinality(Changes(u)) <= 1 /\ Cardinality(KeyChanges(u)) <= 1
  BY DEF ClobberStep
<1> QED BY <1>1, <1>2, InvHolds, LocksHold, PTL DEF Spec, NoClobber
=============================================================================
