------------------------------- MODULE Uploads -------------------------------
(***************************************************************************)
(* Uploading a document: the upload page asks the API for a signed URL,    *)
(* puts the file into the object store itself, and asks the API to create  *)
(* the document.  The API never looks at the store while it does so.       *)
(*                                                                         *)
(* A request is sent with the tokens the browser holds then and is handled *)
(* later, if at all; its answer may be lost.  The page goes on to the next *)
(* step only with the answer to the last, and gives up at any error; what  *)
(* it has sent may still arrive.  A request to the API that is answered    *)
(* with 401 is sent once more, with the tokens the browser holds by then.  *)
(***************************************************************************)
EXTENDS Accounts

CONSTANTS
    Uploads, \* runs of the page's mutation, each with a file of its own and a
             \* uuid of its own for the key
    NoKey

VARIABLES
    stage,    \* what the page waits for
    from,     \* browser and workspace of an upload
    actor,    \* the account of its last request to the API
    key,      \* storage_key
    signed,   \* keys whose URL has not expired
    puts,     \* uploads whose PUT is under way
    posts,    \* uploads whose request to finalize is under way
    objects,  \* the object store: whose file lies at a key
    documents \* documents rows

pageVars  == <<stage, from, actor, key, signed, puts, posts>>
allVars   == <<accountVars, pageVars, objects, documents>>

Key == [ws : Nat, user : Nat, upload : Uploads \cup {NoKey}]

UploadsInit ==
    /\ AccountsInit
    /\ stage = [u \in Uploads |-> "none"]
    /\ from \in [Uploads -> [browser : Browsers, ws : {0}]]
    /\ actor = [u \in Uploads |-> Nobody]
    /\ key = [u \in Uploads |-> NoKey]
    /\ signed = {} /\ puts = {} /\ posts = {}
    /\ objects = <<>>
    /\ documents = {}

To(u, label) == stage' = [stage EXCEPT ![u] = label]

\* Mutant of ObjectKey: the key has no upload id.
KeyOfUser(u) == [ws |-> from[u].ws, user |-> actor[u], upload |-> NoKey]

\* workspaces/{ws}/users/{user}/uploads/{upload_id}/{name}; files may have equal names.
ObjectKey(u) == [ws |-> from[u].ws, user |-> actor[u], upload |-> u]

\* upload.mutate: requestUploadUrl is sent.
StartUpload(u, w) ==
    /\ stage[u] = "none" /\ account[from[u].browser] # Nobody
    /\ from' = [from EXCEPT ![u].ws = w]
    /\ actor' = [actor EXCEPT ![u] = account[from[u].browser]]
    /\ To(u, "url")
    /\ UNCHANGED <<key, signed, puts, posts, objects, documents>>

\* request_presigned_upload; its answer makes the page send the PUT.
Presign(u) ==
    /\ stage[u] = "url"
    /\ IsMember(from[u].ws, actor[u])
    /\ key' = [key EXCEPT ![u] = ObjectKey(u)]
    /\ signed' = signed \cup {ObjectKey(u)}
    /\ puts' = puts \cup {u}
    /\ To(u, "put")
    /\ UNCHANGED <<from, actor, posts, objects, documents>>

Expire(k) ==
    /\ signed' = signed \ {k}
    /\ UNCHANGED <<stage, from, actor, key, puts, posts, objects, documents>>

\* The store takes the file if the URL still holds, whether or not the page waits.
Put(u) ==
    /\ u \in puts
    /\ key[u] \in signed
    /\ objects' = [k \in DOMAIN objects \cup {key[u]} |->
                      IF k = key[u] THEN u ELSE objects[k]]
    /\ puts' = puts \ {u}
    /\ UNCHANGED <<stage, from, actor, key, signed, posts, documents>>

\* The PUT has been answered: finalizeDocument is sent.
Post(u) ==
    /\ stage[u] = "put" /\ u \notin puts
    /\ posts' = posts \cup {u}
    /\ actor' = [actor EXCEPT ![u] = account[from[u].browser]]
    /\ To(u, "document")
    /\ UNCHANGED <<from, key, signed, puts, objects, documents>>

\* apiRequest: 401, a refresh, and again (once; the model allows any number of times).
SendAgain(u) ==
    /\ stage[u] = "url" \/ u \in posts
    /\ account[from[u].browser] # Nobody
    /\ actor' = [actor EXCEPT ![u] = account[from[u].browser]]
    /\ UNCHANGED <<stage, from, key, signed, puts, posts, objects, documents>>

\* Mutant of InScope: only the workspace is compared.
InScopeOfWorkspace(k, w, user) == k.ws = w

\* storage_key_is_within_workspace_scope
InScope(k, w, user) == k.ws = w /\ k.user = user

DocumentOf(u) ==
    [ws |-> from[u].ws, createdBy |-> actor[u], key |-> key[u], upload |-> u]

\* create_document_after_upload; a request that is refused ends like one that is lost.
Finalize(u) ==
    /\ u \in posts
    /\ IsMember(from[u].ws, actor[u])
    /\ InScope(key[u], from[u].ws, actor[u])
    /\ documents' = documents \cup {DocumentOf(u)}
    /\ posts' = posts \ {u}
    /\ stage' = [stage EXCEPT ![u] = IF @ = "document" THEN "ended" ELSE @]
    /\ UNCHANGED <<from, actor, key, signed, puts, objects>>

\* A request is refused, or it or its answer is lost: the page gives up.
Fail(u) ==
    /\ stage[u] \in {"url", "put", "document"}
    /\ To(u, "ended")
    /\ \/ puts' = puts \ {u} /\ posts' = posts \ {u}
       \/ UNCHANGED <<puts, posts>>
    /\ UNCHANGED <<from, actor, key, signed, objects, documents>>

UploadsNext ==
    \/ /\ \E u \in Uploads :
              \/ \E w \in DOMAIN workspaces : StartUpload(u, w)
              \/ Presign(u) \/ Put(u) \/ Post(u) \/ SendAgain(u) \/ Finalize(u) \/ Fail(u)
       /\ UNCHANGED accountVars
    \/ (\E k \in signed : Expire(k)) /\ UNCHANGED accountVars
    \/ AccountsNext /\ UNCHANGED <<pageVars, objects, documents>>

UploadsSpec == UploadsInit /\ [][UploadsNext]_allVars

-----------------------------------------------------------------------------
(* Properties                                                                *)

\* The object at a document's key is there when the document is created, and is
\* and stays the file its page was given: no other upload, PUT that arrives late
\* or file of the same name replaces it, though the API checks none of it.
DocumentHoldsItsFile ==
    \A d \in documents : /\ d.key \in DOMAIN objects
                         /\ objects[d.key] = d.upload

\* The object of a document was put for its workspace by its creator, though the
\* browser may have changed accounts since the URL was signed.
DocumentInItsScope ==
    \A d \in documents : /\ d.key.ws = d.ws /\ d.key.user = d.createdBy
                         /\ IsMember(d.ws, d.createdBy)

=============================================================================
