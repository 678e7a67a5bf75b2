--------------------------- MODULE UploadsProofs ---------------------------
(***************************************************************************)
(* For any number of browsers, addresses, slugs and uploads: accounts and  *)
(* workspaces stay as their unique indexes and transactions intend, and    *)
(* every document holds the file its page was given, in its own scope.     *)
(***************************************************************************)
EXTENDS Uploads, FiniteSetTheorems, TLAPS

\* The unique index on users.email, and whose password an account has.
EmailsUnique == \A i, j \in DOMAIN users : users[i].email = users[j].email => i = j

TokensOfOwn ==
    \A b \in Browsers : account[b] # Nobody => users[account[b]].password = b

Owners(w) == {m \in members : m.ws = w /\ m.role = "owner"}

\* Who is a member is a member of a workspace that is there; one is its owner.
OwnersInv ==
    /\ \A m \in members : m.ws \in DOMAIN workspaces
    /\ \A w \in DOMAIN workspaces : \E m \in members : Owners(w) = {m}
    /\ \A v, w \in DOMAIN workspaces : workspaces[v] = workspaces[w] => v = w

AccountsInv == AccountsTypeOK /\ EmailsUnique /\ TokensOfOwn /\ OwnersInv

\* Where an upload stands, and what that says of its key and of the store.  All
\* objects lie at keys of the uploads that put them, so no upload puts over another's.
KeysInv ==
    /\ stage \in [Uploads -> {"none", "url", "put", "document", "ended"}]
    /\ key \in [Uploads -> Key \cup {NoKey}]
    /\ puts \subseteq Uploads /\ posts \subseteq Uploads
    /\ \A u \in Uploads : stage[u] \in {"none", "url"} => u \notin puts /\ u \notin posts
    /\ \A u \in puts : key[u].upload = u

ObjectsInv == \A k \in DOMAIN objects : objects[k] = k.upload

\* An upload whose PUT has been answered has its object.
PutsInv ==
    \A u \in Uploads :
        (stage[u] = "put" /\ u \notin puts) \/ u \in posts =>
            key[u] \in DOMAIN objects /\ key[u].upload = u

DocumentsInv ==
    \A d \in documents : d.key \in DOMAIN objects /\ d.key.upload = d.upload

StoreInv == KeysInv /\ ObjectsInv /\ PutsInv /\ DocumentsInv

-----------------------------------------------------------------------------
(* Accounts                                                                  *)

\* A row that is added leaves the rows before it where they are.
LEMMA RowAdded ==
    ASSUME NEW S, NEW q \in Seq(S), NEW e \in S
    PROVE  /\ Append(q, e) \in Seq(S)
           /\ Len(q) \in Nat /\ Len(Append(q, e)) = Len(q) + 1
           /\ DOMAIN q = 1..Len(q)
           /\ DOMAIN Append(q, e) = DOMAIN q \cup {Len(q) + 1}
           /\ Len(q) + 1 \notin DOMAIN q
           /\ \A n \in DOMAIN q : Append(q, e)[n] = q[n]
           /\ Append(q, e)[Len(q) + 1] = e
  OBVIOUS

LEMMA AccountsInitInv ==
    ASSUME AccountsInit
    PROVE  AccountsInv
  BY DEF AccountsInit, AccountsInv, AccountsTypeOK, EmailsUnique, TokensOfOwn, OwnersInv,
         Pending, Nobody

LEMMA InsertUserInv ==
    ASSUME AccountsInv, NEW b \in Browsers, InsertUser(b)
    PROVE  AccountsInv'
  <1> DEFINE row == [email |-> pending[b].email, password |-> b]
  <1>1. AccountsTypeOK
    BY DEF AccountsInv
  <1>2. /\ pending[b].email \in Emails /\ pending' \in [Browsers -> Pending]
        /\ UNCHANGED <<workspaces, members>>
    BY <1>1 DEF InsertUser, AccountsTypeOK, Pending, Nothing, Await
  <1>3. OwnersInv'
    BY <1>2 DEF AccountsInv, OwnersInv, Owners
  <1>4. CASE EmailTaken(pending[b].email)
    BY <1>1, <1>2, <1>3, <1>4
       DEF InsertUser, AccountsInv, AccountsTypeOK, EmailsUnique, TokensOfOwn
  <1>5. CASE ~EmailTaken(pending[b].email)
    <2>1. /\ users' = Append(users, row)
          /\ Hold(b, Len(users')) \/ UNCHANGED account
      BY <1>5 DEF InsertUser
    <2>2. users \in Seq(User) /\ row \in User
      BY <1>1, <1>2 DEF AccountsTypeOK, User
    <2> HIDE DEF row
    <2>3. /\ users' \in Seq(User) /\ Len(users) \in Nat /\ Len(users') = Len(users) + 1
          /\ DOMAIN users = 1..Len(users)
          /\ DOMAIN users' = DOMAIN users \cup {Len(users')}
          /\ Len(users') \notin DOMAIN users
          /\ \A n \in DOMAIN users : users'[n] = users[n]
          /\ users'[Len(users')] = row
      BY <2>1, <2>2, RowAdded
    <2>4. row.email = pending[b].email /\ row.password = b
      BY DEF row
    <2>5. EmailsUnique'
      <3>1. \A i \in DOMAIN users : users[i].email # row.email
        BY <1>5, <2>4 DEF EmailTaken, Rows
      <3> QED
        BY <2>3, <3>1 DEF AccountsInv, EmailsUnique
    <2>6. account' \in [Browsers -> 0..Len(users')]
      BY <1>1, <2>1, <2>3 DEF AccountsTypeOK, Hold
    <2>7. TokensOfOwn'
      <3> SUFFICES ASSUME NEW c \in Browsers, account'[c] # Nobody
                   PROVE  users'[account'[c]].password = c
        BY DEF TokensOfOwn, Nobody
      <3>1. CASE account'[c] = account[c]
        <4>1. account[c] \in DOMAIN users
          BY <1>1, <2>3, <3>1 DEF AccountsTypeOK, Nobody
        <4> QED
          BY <2>3, <3>1, <4>1 DEF AccountsInv, TokensOfOwn
      <3>2. CASE c = b /\ account'[c] = Len(users')
        BY <2>3, <2>4, <3>2
      <3> QED
        BY <1>1, <2>1, <3>1, <3>2 DEF Hold, AccountsTypeOK
    <2> QED
      BY <1>1, <1>2, <1>3, <2>3, <2>5, <2>6, <2>7 DEF AccountsInv, AccountsTypeOK
  <1> QED
    BY <1>4, <1>5

LEMMA InsertWorkspaceInv ==
    ASSUME AccountsInv, NEW b \in Browsers, InsertWorkspace(b)
    PROVE  AccountsInv'
  <1> DEFINE slug == pending[b].slug
             m    == [ws |-> Len(workspaces'), user |-> pending[b].owner, role |-> "owner"]
  <1>1. AccountsTypeOK /\ OwnersInv
    BY DEF AccountsInv
  <1>2. /\ slug \in Slugs /\ pending[b].owner \in Nat
        /\ pending' \in [Browsers -> Pending]
        /\ UNCHANGED <<users, account>>
    BY <1>1 DEF InsertWorkspace, AccountsTypeOK, Pending, Nothing, Await
  <1>3. EmailsUnique' /\ TokensOfOwn'
    BY <1>2 DEF AccountsInv, EmailsUnique, TokensOfOwn
  <1>4. CASE UNCHANGED <<workspaces, members>>
    BY <1>1, <1>2, <1>3, <1>4 DEF AccountsInv, AccountsTypeOK, OwnersInv, Owners
  <1>5. CASE /\ ~SlugTaken(slug)
             /\ workspaces' = Append(workspaces, slug)
             /\ members' = members \cup {m}
    <2> HIDE DEF slug
    <2>1. /\ workspaces' \in Seq(Slugs) /\ Len(workspaces') \in Nat
          /\ DOMAIN workspaces' = DOMAIN workspaces \cup {Len(workspaces')}
          /\ Len(workspaces') \notin DOMAIN workspaces
          /\ \A n \in DOMAIN workspaces : workspaces'[n] = workspaces[n]
          /\ workspaces'[Len(workspaces')] = slug
      BY <1>1, <1>2, <1>5, RowAdded DEF AccountsTypeOK
    <2>2. m \in Member /\ m.ws = Len(workspaces') /\ m.role = "owner"
      BY <1>2, <2>1 DEF Member
    <2> HIDE DEF m
    <2>3. \A x \in members' : x.ws \in DOMAIN workspaces'
      BY <1>1, <1>5, <2>1, <2>2 DEF OwnersInv
    <2>4. ASSUME NEW w \in DOMAIN workspaces'
          PROVE  \E x \in members' : Owners(w)' = {x}
      <3>1. CASE w = Len(workspaces')
        <4>1. Owners(w)' = {m}
          BY <1>1, <1>5, <2>1, <2>2, <3>1 DEF Owners, OwnersInv
        <4> QED
          BY <1>5, <4>1
      <3>2. CASE w \in DOMAIN workspaces
        <4>1. Owners(w)' = Owners(w)
          BY <1>5, <2>1, <2>2, <3>2 DEF Owners
        <4> QED
          BY <1>1, <1>5, <3>2, <4>1 DEF OwnersInv
      <3> QED
        BY <2>1, <3>1, <3>2
    <2>5. \A v, w \in DOMAIN workspaces' : workspaces'[v] = workspaces'[w] => v = w
      <3>1. \A w \in DOMAIN workspaces : workspaces[w] # slug
        BY <1>5 DEF SlugTaken
      <3> QED
        BY <1>1, <2>1, <3>1 DEF OwnersInv
    <2>6. OwnersInv'
      BY <2>3, <2>4, <2>5 DEF OwnersInv
    <2> QED
      BY <1>1, <1>2, <1>3, <1>5, <2>1, <2>2, <2>6 DEF AccountsInv, AccountsTypeOK
  <1> QED
    BY <1>4, <1>5 DEF InsertWorkspace

LEMMA AddMemberInv ==
    ASSUME AccountsInv, NEW w \in DOMAIN workspaces, NEW i \in DOMAIN users, AddMember(w, i)
    PROVE  AccountsInv'
  <1> DEFINE m == [ws |-> w, user |-> i, role |-> "member"]
  <1>1. AccountsTypeOK /\ OwnersInv
    BY DEF AccountsInv
  <1>2. /\ members' = members \cup {m}
        /\ UNCHANGED <<users, workspaces, account, pending>>
    BY DEF AddMember
  <1>3. w \in Nat /\ i \in Nat
    BY <1>1 DEF AccountsTypeOK
  <1>4. m \in Member /\ m.ws = w /\ m.role = "member"
    BY <1>3 DEF Member
  <1> HIDE DEF m
  <1>5. \A v \in DOMAIN workspaces : Owners(v)' = Owners(v)
    BY <1>2, <1>4 DEF Owners
  <1>6. OwnersInv'
    BY <1>1, <1>2, <1>4, <1>5 DEF OwnersInv
  <1> QED
    BY <1>1, <1>2, <1>4, <1>6 DEF AccountsInv, AccountsTypeOK, EmailsUnique, TokensOfOwn

LEMMA AccountsStepInv ==
    ASSUME AccountsAssumption, AccountsInv, [AccountsNext]_accountVars
    PROVE  AccountsInv'
  <1>1. ASSUME NEW b \in Browsers, NEW a \in Typed, LookUpEmail(b, a)
        PROVE  AccountsInv'
    <2>1. Normalized[a] \in Emails
      BY DEF Emails
    <2>2. pending' \in [Browsers -> Pending]
      BY <1>1, <2>1 DEF LookUpEmail, Await, AccountsInv, AccountsTypeOK, Pending
    <2> QED
      BY <1>1, <2>2 DEF LookUpEmail, AccountsInv, AccountsTypeOK, EmailsUnique, TokensOfOwn,
                        OwnersInv, Owners
  <1>2. ASSUME NEW b \in Browsers, NEW s \in Slugs, PickSlug(b, s)
        PROVE  AccountsInv'
    <2>1. account[b] \in Nat
      BY DEF AccountsInv, AccountsTypeOK
    <2>2. pending' \in [Browsers -> Pending]
      BY <1>2, <2>1 DEF PickSlug, Await, AccountsInv, AccountsTypeOK, Pending
    <2> QED
      BY <1>2, <2>2 DEF PickSlug, AccountsInv, AccountsTypeOK, EmailsUnique, TokensOfOwn,
                        OwnersInv, Owners
  <1>3. ASSUME NEW b \in Browsers, NEW a \in Typed, Login(b, a)
        PROVE  AccountsInv'
    <2>1. PICK i \in Rows(Normalized[a]) : users[i].password = b /\ Hold(b, i)
      BY <1>3 DEF Login
    <2>2. i \in 1..Len(users) /\ Len(users) \in Nat
      BY DEF Rows, AccountsInv, AccountsTypeOK
    <2>3. account' \in [Browsers -> 0..Len(users)] /\ UNCHANGED users
      BY <1>3, <2>1, <2>2 DEF Login, Hold, AccountsInv, AccountsTypeOK
    <2>4. TokensOfOwn'
      BY <2>1, <2>3 DEF Hold, AccountsInv, AccountsTypeOK, TokensOfOwn
    <2> QED
      BY <1>3, <2>3, <2>4 DEF Login, AccountsInv, AccountsTypeOK, EmailsUnique, OwnersInv, Owners
  <1>4. ASSUME NEW b \in Browsers, Logout(b)
        PROVE  AccountsInv'
    <2>1. account' \in [Browsers -> 0..Len(users)] /\ UNCHANGED users
      BY <1>4 DEF Logout, Hold, Nobody, AccountsInv, AccountsTypeOK
    <2>2. TokensOfOwn'
      BY <1>4, <2>1 DEF Logout, Hold, AccountsInv, AccountsTypeOK, TokensOfOwn
    <2> QED
      BY <1>4, <2>1, <2>2 DEF Logout, AccountsInv, AccountsTypeOK, EmailsUnique, OwnersInv, Owners
  <1>5. CASE UNCHANGED accountVars
    BY <1>5 DEF accountVars, AccountsInv, AccountsTypeOK, EmailsUnique, TokensOfOwn,
                OwnersInv, Owners
  <1> QED
    BY <1>1, <1>2, <1>3, <1>4, <1>5, InsertUserInv, InsertWorkspaceInv, AddMemberInv
       DEF AccountsNext

LEMMA AccountsImply ==
    ASSUME AccountsInv
    PROVE  AccountsTypeOK /\ SignInOwn /\ WorkspaceOwned
  <1>1. SignInOwn
    <2> SUFFICES ASSUME NEW b \in Browsers, account[b] # Nobody
                 PROVE  /\ users[account[b]].password = b
                        /\ Rows(users[account[b]].email) = {account[b]}
      BY DEF SignInOwn
    <2>1. account[b] \in DOMAIN users
      BY DEF AccountsInv, AccountsTypeOK, Nobody
    <2> QED
      BY <2>1 DEF AccountsInv, TokensOfOwn, EmailsUnique, Rows
  <1>2. WorkspaceOwned
    <2> SUFFICES ASSUME NEW w \in DOMAIN workspaces
                 PROVE  Cardinality(Owners(w)) = 1
      BY DEF WorkspaceOwned, Owners, AccountsInv, OwnersInv
    <2>1. PICK m \in members : Owners(w) = {m}
      BY DEF AccountsInv, OwnersInv
    <2> QED
      BY <2>1, FS_Singleton
  <1> QED
    BY <1>1, <1>2 DEF AccountsInv

-----------------------------------------------------------------------------
(* The object store and documents                                            *)

\* What a step of the page or of the store leaves alone keeps its part of StoreInv.
LEMMA StoreStays ==
    ASSUME StoreInv, UNCHANGED <<stage, key, puts, posts, objects, documents>>
    PROVE  StoreInv'
  BY DEF StoreInv, KeysInv, ObjectsInv, PutsInv, DocumentsInv

LEMMA StartUploadInv ==
    ASSUME StoreInv, NEW u \in Uploads, NEW w \in DOMAIN workspaces, StartUpload(u, w)
    PROVE  StoreInv'
  <1>1. /\ stage[u] = "none" /\ stage' = [stage EXCEPT ![u] = "url"]
        /\ UNCHANGED <<key, puts, posts, objects, documents>>
    BY DEF StartUpload, To
  <1> QED
    BY <1>1 DEF StoreInv, KeysInv, ObjectsInv, PutsInv, DocumentsInv

\* The upload has sent nothing yet, so nothing is said of its key before.
LEMMA PresignInv ==
    ASSUME StoreInv, NEW u \in Uploads, Presign(u),
           from[u].ws \in Nat, actor[u] \in Nat
    PROVE  StoreInv'
  <1>1. /\ stage[u] = "url" /\ stage' = [stage EXCEPT ![u] = "put"]
        /\ key' = [key EXCEPT ![u] = ObjectKey(u)]
        /\ puts' = puts \cup {u}
        /\ UNCHANGED <<posts, objects, documents>>
    BY DEF Presign, To
  <1>2. ObjectKey(u) \in Key /\ ObjectKey(u).upload = u
    BY DEF ObjectKey, Key
  <1>3. u \notin puts /\ u \notin posts
    BY <1>1 DEF StoreInv, KeysInv
  <1>4. KeysInv'
    BY <1>1, <1>2, <1>3 DEF StoreInv, KeysInv
  <1>5. PutsInv'
    BY <1>1, <1>3 DEF StoreInv, KeysInv, PutsInv
  <1> QED
    BY <1>1, <1>4, <1>5 DEF StoreInv, ObjectsInv, DocumentsInv

\* A PUT replaces what lies at its own key only, and that is its own file.
LEMMA PutInv ==
    ASSUME StoreInv, NEW u \in Uploads, Put(u)
    PROVE  StoreInv'
  <1>1. /\ u \in puts /\ puts' = puts \ {u}
        /\ objects' = [k \in DOMAIN objects \cup {key[u]} |-> IF k = key[u] THEN u ELSE objects[k]]
        /\ UNCHANGED <<stage, key, posts, documents>>
    BY DEF Put
  <1>2. key[u].upload = u
    BY <1>1 DEF StoreInv, KeysInv
  <1>3. /\ DOMAIN objects' = DOMAIN objects \cup {key[u]}
        /\ \A k \in DOMAIN objects' : objects'[k] = IF k = key[u] THEN u ELSE objects[k]
    BY <1>1
  <1>4. ObjectsInv'
    BY <1>2, <1>3 DEF StoreInv, ObjectsInv
  <1>5. KeysInv'
    BY <1>1 DEF StoreInv, KeysInv
  <1>6. PutsInv'
    BY <1>1, <1>2, <1>3 DEF StoreInv, PutsInv
  <1>7. DocumentsInv'
    BY <1>1, <1>3 DEF StoreInv, DocumentsInv
  <1> QED
    BY <1>4, <1>5, <1>6, <1>7 DEF StoreInv

LEMMA PostInv ==
    ASSUME StoreInv, NEW u \in Uploads, Post(u)
    PROVE  StoreInv'
  <1>1. /\ stage[u] = "put" /\ u \notin puts
        /\ posts' = posts \cup {u} /\ stage' = [stage EXCEPT ![u] = "document"]
        /\ UNCHANGED <<key, puts, objects, documents>>
    BY DEF Post, To
  <1> QED
    BY <1>1 DEF StoreInv, KeysInv, ObjectsInv, PutsInv, DocumentsInv

LEMMA FinalizeInv ==
    ASSUME StoreInv, NEW u \in Uploads, Finalize(u)
    PROVE  StoreInv'
  <1>1. /\ u \in posts /\ posts' = posts \ {u}
        /\ documents' = documents \cup {DocumentOf(u)}
        /\ stage' = [stage EXCEPT ![u] = IF stage[u] = "document" THEN "ended" ELSE stage[u]]
        /\ UNCHANGED <<key, puts, objects>>
    BY DEF Finalize
  <1>2. DocumentOf(u).key = key[u] /\ DocumentOf(u).upload = u
    BY DEF DocumentOf
  <1>3. KeysInv'
    BY <1>1 DEF StoreInv, KeysInv
  <1>4. PutsInv'
    BY <1>1 DEF StoreInv, KeysInv, PutsInv
  <1>5. DocumentsInv'
    BY <1>1, <1>2 DEF StoreInv, PutsInv, DocumentsInv
  <1> QED
    BY <1>1, <1>3, <1>4, <1>5 DEF StoreInv, ObjectsInv

LEMMA FailInv ==
    ASSUME StoreInv, NEW u \in Uploads, Fail(u)
    PROVE  StoreInv'
  <1>1. /\ stage' = [stage EXCEPT ![u] = "ended"]
        /\ \/ puts' = puts \ {u} /\ posts' = posts \ {u}
           \/ UNCHANGED <<puts, posts>>
        /\ UNCHANGED <<key, objects, documents>>
    BY DEF Fail, To
  <1>2. KeysInv'
    BY <1>1 DEF StoreInv, KeysInv
  <1>3. PutsInv'
    BY <1>1 DEF StoreInv, KeysInv, PutsInv
  <1> QED
    BY <1>1, <1>2, <1>3 DEF StoreInv, ObjectsInv, DocumentsInv

-----------------------------------------------------------------------------
(* All together                                                              *)

\* Whose request an upload's last one is, and for which workspace.
RequestsInv ==
    /\ from \in [Uploads -> [browser : Browsers, ws : Nat]]
    /\ actor \in [Uploads -> Nat]

\* Rows are added to workspace_members, never taken away.
MembersStay == members \subseteq members'

UploadsInv == AccountsInv /\ RequestsInv /\ StoreInv /\ DocumentInItsScope

LEMMA UploadsInitInv ==
    ASSUME UploadsInit
    PROVE  UploadsInv
  <1>1. AccountsInv
    BY AccountsInitInv DEF UploadsInit
  <1>2. RequestsInv /\ DocumentInItsScope
    BY DEF UploadsInit, RequestsInv, DocumentInItsScope, Nobody
  <1>3. DOMAIN objects = {}
    BY DEF UploadsInit
  <1>4. StoreInv
    BY <1>3 DEF UploadsInit, StoreInv, KeysInv, ObjectsInv, PutsInv, DocumentsInv
  <1> QED
    BY <1>1, <1>2, <1>4 DEF UploadsInv

LEMMA AccountsKeepMembers ==
    ASSUME [AccountsNext]_accountVars
    PROVE  MembersStay
  BY DEF AccountsNext, accountVars, MembersStay, LookUpEmail, Login, InsertUser, Logout,
         PickSlug, InsertWorkspace, AddMember

LEMMA RequestsStepInv ==
    ASSUME UploadsInv, [UploadsNext]_allVars
    PROVE  RequestsInv'
  <1>1. \A b \in Browsers : account[b] \in Nat
    BY DEF UploadsInv, AccountsInv, AccountsTypeOK
  <1>2. DOMAIN workspaces \subseteq Nat
    BY DEF UploadsInv, AccountsInv, AccountsTypeOK
  <1>3. RequestsInv
    BY DEF UploadsInv
  <1>4. ASSUME NEW u \in Uploads, NEW w \in DOMAIN workspaces, StartUpload(u, w)
        PROVE  RequestsInv'
    BY <1>1, <1>2, <1>3, <1>4 DEF RequestsInv, StartUpload
  <1>5. ASSUME NEW u \in Uploads, Post(u) \/ SendAgain(u)
        PROVE  RequestsInv'
    BY <1>1, <1>3, <1>5 DEF RequestsInv, Post, SendAgain
  <1>6. ASSUME NEW u \in Uploads, Presign(u) \/ Put(u) \/ Finalize(u) \/ Fail(u)
        PROVE  RequestsInv'
    BY <1>3, <1>6 DEF RequestsInv, Presign, Put, Finalize, Fail
  <1>7. CASE UNCHANGED <<from, actor>>
    BY <1>3, <1>7 DEF RequestsInv
  <1> QED
    BY <1>4, <1>5, <1>6, <1>7 DEF UploadsNext, Expire, pageVars, allVars

LEMMA ScopeStepInv ==
    ASSUME UploadsInv, [UploadsNext]_allVars, MembersStay
    PROVE  DocumentInItsScope'
  <1>1. DocumentInItsScope
    BY DEF UploadsInv
  <1>2. CASE UNCHANGED documents
    BY <1>1, <1>2 DEF DocumentInItsScope, IsMember, MembersStay
  <1>3. ASSUME NEW u \in Uploads, Finalize(u)
        PROVE  DocumentInItsScope'
    <2> DEFINE d == DocumentOf(u)
    <2>1. /\ documents' = documents \cup {d}
          /\ IsMember(from[u].ws, actor[u])
          /\ InScope(key[u], from[u].ws, actor[u])
      BY <1>3 DEF Finalize
    <2>2. d.ws = from[u].ws /\ d.createdBy = actor[u] /\ d.key = key[u]
      BY DEF DocumentOf
    <2> HIDE DEF d
    <2> QED
      BY <1>1, <2>1, <2>2 DEF DocumentInItsScope, InScope, IsMember, MembersStay
  <1> QED
    BY <1>2, <1>3 DEF UploadsNext, StartUpload, Presign, Put, Post, SendAgain, Fail, Expire,
                      allVars

LEMMA UploadsStepInv ==
    ASSUME AccountsAssumption, UploadsInv, [UploadsNext]_allVars
    PROVE  UploadsInv'
  <1>1. [AccountsNext]_accountVars
    BY DEF UploadsNext, allVars
  <1>2. AccountsInv' /\ MembersStay
    BY <1>1, AccountsStepInv, AccountsKeepMembers DEF UploadsInv
  <1>3. RequestsInv' /\ DocumentInItsScope'
    BY <1>2, RequestsStepInv, ScopeStepInv
  <1>4. StoreInv /\ \A u \in Uploads : from[u].ws \in Nat /\ actor[u] \in Nat
    BY DEF UploadsInv, RequestsInv
  <1>5. ASSUME UNCHANGED <<stage, key, puts, posts, objects, documents>>
        PROVE  StoreInv'
    BY <1>4, <1>5, StoreStays
  <1>6. ASSUME NEW u \in Uploads,
               \/ \E w \in DOMAIN workspaces : StartUpload(u, w)
               \/ Presign(u) \/ Put(u) \/ Post(u) \/ Finalize(u) \/ Fail(u)
        PROVE  StoreInv'
    BY <1>4, <1>6, StartUploadInv, PresignInv, PutInv, PostInv, FinalizeInv, FailInv
  <1>7. StoreInv'
    BY <1>5, <1>6 DEF UploadsNext, SendAgain, Expire, pageVars, allVars
  <1> QED
    BY <1>2, <1>3, <1>7 DEF UploadsInv

LEMMA UploadsInvariant == UploadsSpec => []UploadsInv
  <1>1. UploadsInv /\ [UploadsNext]_allVars => UploadsInv'
    BY UploadsStepInv, AccountsAssumption
  <1> QED
    BY UploadsInitInv, <1>1, PTL DEF UploadsSpec

\* Every reachable state of accounts and workspaces is well typed.
THEOREM AccountsTypeCorrect == UploadsSpec => []AccountsTypeOK
  <1>1. UploadsInv => AccountsTypeOK
    BY DEF UploadsInv, AccountsInv
  <1> QED
    BY <1>1, UploadsInvariant, PTL

\* However many register one address at the same time, whoever holds the tokens
\* of an account can sign in to it, and to no other account of that address.
THEOREM SignedInAsThemselves == UploadsSpec => []SignInOwn
  <1>1. UploadsInv => SignInOwn
    BY AccountsImply DEF UploadsInv
  <1> QED
    BY <1>1, UploadsInvariant, PTL

\* Every workspace has one owner and a slug of its own, whatever fails.
THEOREM WorkspacesOwned == UploadsSpec => []WorkspaceOwned
  <1>1. UploadsInv => WorkspaceOwned
    BY AccountsImply DEF UploadsInv
  <1> QED
    BY <1>1, UploadsInvariant, PTL

\* The file of a document is there and stays the one its page was given, in
\* whatever order PUTs and requests arrive.
THEOREM DocumentsHoldFiles == UploadsSpec => []DocumentHoldsItsFile
  <1>1. UploadsInv => DocumentHoldsItsFile
    BY DEF UploadsInv, StoreInv, ObjectsInv, DocumentsInv, DocumentHoldsItsFile
  <1> QED
    BY <1>1, UploadsInvariant, PTL

\* A document's object was put for its workspace by the account that created it.
THEOREM DocumentsInScope == UploadsSpec => []DocumentInItsScope
  <1>1. UploadsInv => DocumentInItsScope
    BY DEF UploadsInv
  <1> QED
    BY <1>1, UploadsInvariant, PTL

=============================================================================
