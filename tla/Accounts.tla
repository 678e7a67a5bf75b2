------------------------------ MODULE Accounts ------------------------------
(***************************************************************************)
(* Accounts and workspaces.  register_user and create_workspace each look  *)
(* first, with a SELECT, whether the address or the slug is taken, and     *)
(* insert in a transaction of their own later; what decides between two    *)
(* that looked at the same time is the unique index.                       *)
(*                                                                         *)
(* A browser stands for the people who share its stored tokens.  They use  *)
(* one password, which nobody else knows.                                  *)
(***************************************************************************)
EXTENDS Integers, Sequences, FiniteSets

CONSTANTS
    Browsers,
    Typed,         \* e-mail addresses as people type them
    Normalized,    \* email.strip().lower() of each
    Slugs,         \* slugs the generator may come up with
    MaxUsers,      \* bound: accounts ever created
    MaxWorkspaces  \* bound: workspaces ever created

ASSUME AccountsAssumption ==
    DOMAIN Normalized = Typed /\ MaxUsers \in Nat /\ MaxWorkspaces \in Nat

VARIABLES
    users,      \* users rows in order of commit; an account is its index
    workspaces, \* workspaces rows: their slugs; a workspace is its index
    members,    \* workspace_members rows
    account,    \* the account whose tokens a browser holds, 0 if none
    pending     \* the request of a browser that stands between its SELECT and its INSERT

accountVars == <<users, workspaces, members, account, pending>>

Emails == {Normalized[a] : a \in Typed}
Nobody == 0

User    == [email : Emails, password : Browsers]
Member  == [ws : Nat, user : Nat, role : {"owner", "member"}]
Nothing == [kind |-> "none"]
Pending == {Nothing} \cup [kind : {"register"}, email : Emails]
                     \cup [kind : {"workspace"}, slug : Slugs, owner : Nat]

AccountsInit ==
    /\ users = <<>> /\ workspaces = <<>> /\ members = {}
    /\ account = [b \in Browsers |-> Nobody]
    /\ pending = [b \in Browsers |-> Nothing]

Rows(email)       == {i \in DOMAIN users : users[i].email = email}
IsMember(w, user) == \E m \in members : m.ws = w /\ m.user = user

Hold(b, user)  == account' = [account EXCEPT ![b] = user]
Await(b, what) == pending' = [pending EXCEPT ![b] = what]

-----------------------------------------------------------------------------
(* register_user, login_user, logout                                         *)

\* SELECT User.id; an address that has an account ends here (EMAIL_ALREADY_REGISTERED).
LookUpEmail(b, a) ==
    /\ pending[b] = Nothing
    /\ Len(users) + Cardinality({c \in Browsers : pending[c].kind = "register"}) < MaxUsers
    /\ Rows(Normalized[a]) = {}
    /\ Await(b, [kind |-> "register", email |-> Normalized[a]])
    /\ UNCHANGED <<users, workspaces, members, account>>

\* Mutant of EmailTaken: users.email is not unique.
EmailNeverTaken(email) == FALSE

\* UNIQUE (email): the INSERT of the one who comes second fails.
EmailTaken(email) == Rows(email) # {}

\* Mutant of InsertUser: tokens are issued whatever becomes of the INSERT.
InsertUserAnyway(b) ==
    /\ pending[b].kind = "register"
    /\ IF EmailTaken(pending[b].email)
       THEN UNCHANGED users
       ELSE users' = Append(users, [email |-> pending[b].email, password |-> b])
    /\ Hold(b, Len(users) + 1)
    /\ Await(b, Nothing)
    /\ UNCHANGED <<workspaces, members>>

\* The INSERT.  The answer brings the tokens of the new account, unless it is lost.
InsertUser(b) ==
    /\ pending[b].kind = "register"
    /\ IF EmailTaken(pending[b].email)
       THEN UNCHANGED <<users, account>>
       ELSE /\ users' = Append(users, [email |-> pending[b].email, password |-> b])
            /\ Hold(b, Len(users')) \/ UNCHANGED account
    /\ Await(b, Nothing)
    /\ UNCHANGED <<workspaces, members>>

\* login_user: of the rows of the address the SELECT returns any.
Login(b, a) ==
    /\ \E i \in Rows(Normalized[a]) : users[i].password = b /\ Hold(b, i)
    /\ UNCHANGED <<users, workspaces, members, pending>>

Logout(b) ==
    /\ account[b] # Nobody
    /\ Hold(b, Nobody)
    /\ UNCHANGED <<users, workspaces, members, pending>>

-----------------------------------------------------------------------------
(* create_workspace                                                          *)

SlugTaken(s) == \E w \in DOMAIN workspaces : workspaces[w] = s

\* _slug_unique; if all 24 candidates are taken the request ends (SLUG_GENERATION_FAILED).
PickSlug(b, s) ==
    /\ pending[b] = Nothing /\ account[b] # Nobody
    /\ Len(workspaces) + Cardinality({c \in Browsers : pending[c].kind = "workspace"})
          < MaxWorkspaces
    /\ ~SlugTaken(s)
    /\ Await(b, [kind |-> "workspace", slug |-> s, owner |-> account[b]])
    /\ UNCHANGED <<users, workspaces, members, account>>

\* Mutant of InsertWorkspace: the membership is inserted in a transaction of its own,
\* which may fail.
InsertWorkspaceAlone(b) ==
    /\ pending[b].kind = "workspace"
    /\ \/ /\ ~SlugTaken(pending[b].slug)
          /\ workspaces' = Append(workspaces, pending[b].slug)
          /\ \/ members' = members \cup {[ws |-> Len(workspaces'), user |-> pending[b].owner,
                                          role |-> "owner"]}
             \/ UNCHANGED members
       \/ UNCHANGED <<workspaces, members>>
    /\ Await(b, Nothing)
    /\ UNCHANGED <<users, account>>

\* The workspace and its owner are one transaction: a slug that is taken by now
\* (UNIQUE) or any other failure leaves neither.
InsertWorkspace(b) ==
    /\ pending[b].kind = "workspace"
    /\ \/ /\ ~SlugTaken(pending[b].slug)
          /\ workspaces' = Append(workspaces, pending[b].slug)
          /\ members' = members \cup {[ws |-> Len(workspaces'), user |-> pending[b].owner,
                                       role |-> "owner"]}
       \/ UNCHANGED <<workspaces, members>>
    /\ Await(b, Nothing)
    /\ UNCHANGED <<users, account>>

\* Nothing in the API adds a second member; an operator may, with an INSERT.
AddMember(w, user) ==
    /\ ~IsMember(w, user)
    /\ members' = members \cup {[ws |-> w, user |-> user, role |-> "member"]}
    /\ UNCHANGED <<users, workspaces, account, pending>>

AccountsNext ==
    \/ \E b \in Browsers : \/ \E a \in Typed : LookUpEmail(b, a) \/ Login(b, a)
                           \/ InsertUser(b) \/ Logout(b)
                           \/ \E s \in Slugs : PickSlug(b, s)
                           \/ InsertWorkspace(b)
    \/ \E w \in DOMAIN workspaces, i \in DOMAIN users : AddMember(w, i)

AccountsSpec == AccountsInit /\ [][AccountsNext]_accountVars

-----------------------------------------------------------------------------
(* Properties                                                                *)

AccountsTypeOK ==
    /\ users \in Seq(User)
    /\ workspaces \in Seq(Slugs)
    /\ members \subseteq Member
    /\ account \in [Browsers -> 0..Len(users)]
    /\ pending \in [Browsers -> Pending]

\* Whoever holds the tokens of an account can sign in to it again, with the
\* password it was made with, and to no other one of that address: also when two
\* registrations of the address have looked for it at the same time.
SignInOwn ==
    \A b \in Browsers : account[b] # Nobody =>
        /\ users[account[b]].password = b
        /\ Rows(users[account[b]].email) = {account[b]}

\* Nobody but a member can see a workspace or let others in, so each has the
\* owner it was created for, whichever of its INSERTs failed; and no two have
\* one slug, though candidates are looked up before they are inserted.
WorkspaceOwned ==
    \A w \in DOMAIN workspaces :
        /\ Cardinality({m \in members : m.ws = w /\ m.role = "owner"}) = 1
        /\ \A v \in DOMAIN workspaces : workspaces[v] = workspaces[w] => v = w

=============================================================================
