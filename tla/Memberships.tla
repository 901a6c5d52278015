----------------------------- MODULE Memberships -----------------------------
(***************************************************************************)
(* One organization's staff: its memberships, the invitations that create  *)
(* them and the diaries they may work.  Follows MembershipService,         *)
(* DelegationService, the archiving of providers and the owner's           *)
(* invitation of PlatformService (apps/api/src/modules).                   *)
(*                                                                         *)
(* A handler checks, with reads outside any transaction, and then writes.  *)
(* Begin... is what it checks; Commit... is its statement or transaction,  *)
(* which names rows by id and seldom looks at them again.  A platform      *)
(* administrator may make every request, so none is excluded by its actor. *)
(***************************************************************************)
EXTENDS Naturals

CONSTANTS
    Users,        \* people, each with one e-mail address
    Diaries,      \* providers of the organization
    Members,      \* identifiers of memberships rows
    Invitations,  \* identifiers of invitations rows, in the order of their creation
    Roles,        \* the roles given out; ADMIN is as PROVIDER in what matters here
    Clients,      \* callers, each with at most one request in flight
    None          \* SQL's NULL

ASSUME MembershipsAssumption ==
    /\ Invitations \subseteq Nat
    /\ None \notin Users \cup Diaries \cup Members
    /\ {"OWNER", "PROVIDER", "ASSISTANT"} \subseteq Roles
    /\ Roles \subseteq {"OWNER", "ADMIN", "PROVIDER", "ASSISTANT"}

VARIABLES
    account,     \* the people who have a user row
    member,      \* memberships
    invitation,  \* invitations
    archived,    \* the diaries whose provider is archived
    grants,      \* provider_delegations, as <<diary, membership>>
    request      \* per client, what its handler checked before it writes

tables == <<account, member, invitation, archived, grants>>
vars == <<account, member, invitation, archived, grants, request>>

(***************************************************************************)
(* Rows.                                                                   *)
(***************************************************************************)
\* "none": the identifier is not taken; a deleted member's is not given out again.
MemberRow ==
    [status: {"none", "ACTIVE", "deleted"}, user: Users \cup {None},
     role: Roles \cup {None}, diary: Diaries \cup {None}]
NewMember(u, role, d) == [status |-> "ACTIVE", user |-> u, role |-> role, diary |-> d]
NoMember == [status |-> "none", user |-> None, role |-> None, diary |-> None]
DeletedMember == [NoMember EXCEPT !.status = "deleted"]

\* diary is provider_id, the login that is promised; delegate is
\* delegated_provider_id, the diary an assistant is promised.
InvitationRow ==
    [status: {"none", "PENDING", "ACCEPTED", "REVOKED", "EXPIRED"}, user: Users \cup {None},
     role: Roles \cup {None}, diary: Diaries \cup {None}, delegate: Diaries \cup {None},
     lapsed: BOOLEAN]
NewInvitation(u, role, d, delegate) ==
    [status |-> "PENDING", user |-> u, role |-> role, diary |-> d,
     delegate |-> delegate, lapsed |-> FALSE]
NoInvitation == [NewInvitation(None, None, None, None) EXCEPT !.status = "none"]

Request ==
    [op: {"idle", "role", "link", "remove", "grant", "invite", "resend",
          "register", "accept", "expire"},
     member: Members \cup {None}, to: Roles \cup {None}, diary: Diaries \cup {None},
     row: InvitationRow, invitation: Invitations \cup {None}]
Idle == [op |-> "idle", member |-> None, to |-> None, diary |-> None,
         row |-> NoInvitation, invitation |-> None]

\* The records of every table and every request in flight.
TypeOK ==
    /\ account \subseteq Users
    /\ member \in [Members -> MemberRow]
    /\ invitation \in [Invitations -> InvitationRow]
    /\ archived \subseteq Diaries
    /\ grants \subseteq Diaries \X Members
    /\ request \in [Clients -> Request]

(***************************************************************************)
(* Reads.                                                                  *)
(***************************************************************************)
Exists(m) == member[m].status = "ACTIVE"
IsMember(u) == \E m \in Members : Exists(m) /\ member[m].user = u
Owns(m) == Exists(m) /\ member[m].role = "OWNER"
HasOwner == \E m \in Members : Owns(m)
Holder(d) == {m \in Members : Exists(m) /\ member[m].diary = d}
Pending(i) == invitation[i].status = "PENDING"
Made(i) == invitation[i].status # "none"

\* Slip: the member asked about is counted as well.
AnyOwner(m) == HasOwner

\* assertNotLastOwner
OtherOwner(m) == \E n \in Members \ {m} : Owns(n)

\* roleCanReceiveDelegation
CanReceiveDiary(role) == role = "ASSISTANT"

(***************************************************************************)
(* What each handler checks before it writes.                              *)
(***************************************************************************)
MayChangeRole(m, to) ==
    /\ Exists(m)
    /\ Owns(m) /\ to # "OWNER" => OtherOwner(m)

MayLink(m, d) ==
    /\ Exists(m)
    /\ d # None => d \notin archived /\ Holder(d) \subseteq {m}

MayRemove(m) == Exists(m) /\ (Owns(m) => OtherOwner(m))

MayGrant(m, d) ==
    /\ d # None /\ Exists(m)
    /\ CanReceiveDiary(member[m].role)
    /\ member[m].diary # d

\* invite, inviteProvider and inviteDelegate, by what the invitation promises
StaffInvitations ==
    {NewInvitation(u, role, None, None) : u \in Users, role \in Roles \ {"PROVIDER"}}
    \cup {NewInvitation(u, "PROVIDER", d, None) : u \in Users, d \in Diaries}
    \cup {NewInvitation(u, "ASSISTANT", None, d) : u \in Users, d \in Diaries}

\* Slip: the address is not looked up among the members.
MayInviteAnybody(row) ==
    /\ {row.diary, row.delegate} \cap archived = {}
    /\ row.diary # None => Holder(row.diary) = {}

MayInvite(row) ==
    /\ ~IsMember(row.user)
    /\ {row.diary, row.delegate} \cap archived = {}
    /\ row.diary # None => Holder(row.diary) = {}

\* resendInvitation reissues the newest owner's invitation unless it was accepted,
\* and does not ask whether the person is a member.
OwnerInvitations == {i \in Invitations : Made(i) /\ invitation[i].role = "OWNER"}
MayResend(row) ==
    \E i \in OwnerInvitations :
        /\ \A j \in OwnerInvitations : j <= i
        /\ invitation[i].status # "ACCEPTED"
        /\ row = NewInvitation(invitation[i].user, "OWNER", None, None)

\* findValidInvitation
Live(i) == Pending(i) /\ ~invitation[i].lapsed

(***************************************************************************)
(* Requests.                                                               *)
(***************************************************************************)
Start(c, r) ==
    /\ request[c] = Idle
    /\ request' = [request EXCEPT ![c] = r]
    /\ UNCHANGED tables

Finish(c) == request' = [request EXCEPT ![c] = Idle]

\* Refused, rolled back, or the process dies.
Abandon(c) ==
    /\ request[c] # Idle
    /\ Finish(c)
    /\ UNCHANGED tables

\* memberships_provider_id_key
OneLoginPerDiary(table) ==
    \A m, n \in Members :
        /\ table[m].status = "ACTIVE" /\ table[n].status = "ACTIVE"
        /\ table[m].diary # None /\ table[m].diary = table[n].diary
        => m = n

(***************************************************************************)
(* Members and their diaries.                                              *)
(***************************************************************************)
BeginChangeRole(c, m, to) ==
    Start(c, [Idle EXCEPT !.op = "role", !.member = m, !.to = to]) /\ MayChangeRole(m, to)

CommitChangeRole(c) ==
    LET r == request[c]
    IN  /\ r.op = "role" /\ Exists(r.member)
        /\ member' = [member EXCEPT ![r.member] = [@ EXCEPT !.role = r.to]]
        /\ Finish(c)
        /\ UNCHANGED <<account, invitation, archived, grants>>

BeginLink(c, m, d) ==
    Start(c, [Idle EXCEPT !.op = "link", !.member = m, !.diary = d]) /\ MayLink(m, d)

CommitLink(c) ==
    LET r == request[c]
    IN  /\ r.op = "link" /\ Exists(r.member)
        /\ member' = [member EXCEPT ![r.member] = [@ EXCEPT !.diary = r.diary]]
        /\ OneLoginPerDiary(member')
        /\ Finish(c)
        /\ UNCHANGED <<account, invitation, archived, grants>>

BeginRemove(c, m) ==
    Start(c, [Idle EXCEPT !.op = "remove", !.member = m]) /\ MayRemove(m)

\* The grants go with the row (ON DELETE CASCADE).
CommitRemove(c) ==
    LET m == request[c].member
    IN  /\ request[c].op = "remove" /\ Exists(m)
        /\ member' = [member EXCEPT ![m] = DeletedMember]
        /\ grants' = {g \in grants : g[2] # m}
        /\ Finish(c)
        /\ UNCHANGED <<account, invitation, archived>>

BeginGrant(c, m, d) ==
    Start(c, [Idle EXCEPT !.op = "grant", !.member = m, !.diary = d]) /\ MayGrant(m, d)

CommitGrant(c) ==
    LET r == request[c]
    IN  /\ r.op = "grant" /\ Exists(r.member)
        /\ grants' = grants \cup {<<r.diary, r.member>>}
        /\ Finish(c)
        /\ UNCHANGED <<account, member, invitation, archived>>

RevokeGrant(d, m) ==
    /\ <<d, m>> \in grants
    /\ grants' = grants \ {<<d, m>>}
    /\ UNCHANGED <<account, member, invitation, archived, request>>

ArchiveOrRestore(d) ==
    /\ archived' = IF d \in archived THEN archived \ {d} ELSE archived \cup {d}
    /\ UNCHANGED <<account, member, invitation, grants, request>>

(***************************************************************************)
(* Inviting: supersede and create, in one transaction.                     *)
(***************************************************************************)
\* Slip: only the diary is superseded, whoever is invited.
ReplacedByDiary(i, row) == row.diary # None /\ invitation[i].diary = row.diary

\* An invitation to a diary of one's own also replaces the one for that diary.
Replaced(i, row) ==
    \/ invitation[i].user = row.user
    \/ row.diary # None /\ invitation[i].diary = row.diary

Superseded(row) ==
    [i \in Invitations |->
        IF Pending(i) /\ Replaced(i, row)
        THEN [invitation[i] EXCEPT !.status = "REVOKED"] ELSE invitation[i]]

BeginInvite(c, row) == Start(c, [Idle EXCEPT !.op = "invite", !.row = row]) /\ MayInvite(row)
BeginResend(c, row) == Start(c, [Idle EXCEPT !.op = "resend", !.row = row]) /\ MayResend(row)

CommitInvite(c, i) ==
    LET row == request[c].row
    IN  /\ request[c].op \in {"invite", "resend"}
        /\ \A j \in Invitations : Made(j) => j < i
        /\ invitation' = [Superseded(row) EXCEPT ![i] = row]
        /\ Finish(c)
        /\ UNCHANGED <<account, member, archived, grants>>

RevokeInvitation(i) ==
    /\ Pending(i)
    /\ invitation' = [invitation EXCEPT ![i] = [@ EXCEPT !.status = "REVOKED"]]
    /\ UNCHANGED <<account, member, archived, grants, request>>

Lapse(i) ==
    /\ Pending(i) /\ ~invitation[i].lapsed
    /\ invitation' = [invitation EXCEPT ![i] = [@ EXCEPT !.lapsed = TRUE]]
    /\ UNCHANGED <<account, member, archived, grants, request>>

(***************************************************************************)
(* Accepting.                                                              *)
(***************************************************************************)
BeginAccept(c, i) ==
    /\ Start(c, [Idle EXCEPT !.op = "accept", !.invitation = i])
    /\ Live(i) /\ invitation[i].user \in account

BeginRegister(c, i) ==
    /\ Start(c, [Idle EXCEPT !.op = "register", !.invitation = i])
    /\ Live(i) /\ invitation[i].user \notin account

\* The account is made by another library and outside the transaction.
CreateAccount(c) ==
    LET u == invitation[request[c].invitation].user
    IN  /\ request[c].op = "register"
        /\ u \notin account
        /\ account' = account \cup {u}
        /\ request' = [request EXCEPT ![c] = [@ EXCEPT !.op = "accept"]]
        /\ UNCHANGED <<member, invitation, archived, grants>>

\* The upsert: an existing member takes the invited role and keeps a diary the
\* invitation does not name.
Joined(m, i) ==
    LET row == invitation[i]
        kept == row.diary = None /\ Exists(m)
    IN  [member EXCEPT ![m] =
            NewMember(row.user, row.role, IF kept THEN member[m].diary ELSE row.diary)]

\* Slip: the diaries are not read again.
PromiseStandsAlways(i) == TRUE

\* The diaries promised are read again in the transaction.
PromiseStands(i) == {invitation[i].diary, invitation[i].delegate} \cap archived = {}

\* claimInvitation; the last update does not look at the invitation's status.
CommitAccept(c, m) ==
    LET i == request[c].invitation
        row == invitation[i]
    IN  /\ request[c].op = "accept"
        /\ PromiseStands(i)
        /\ IF IsMember(row.user) THEN Exists(m) /\ member[m].user = row.user
                                 ELSE member[m] = NoMember
        /\ member' = Joined(m, i)
        /\ OneLoginPerDiary(member')
        /\ grants' = IF row.delegate = None THEN grants
                     ELSE grants \cup {<<row.delegate, m>>}
        /\ invitation' = [invitation EXCEPT ![i] = [@ EXCEPT !.status = "ACCEPTED"]]
        /\ Finish(c)
        /\ UNCHANGED <<account, archived>>

\* findValidInvitation marks what it found out of date, whatever it is by then.
BeginExpire(c, i) ==
    /\ Pending(i) /\ invitation[i].lapsed
    /\ Start(c, [Idle EXCEPT !.op = "expire", !.invitation = i])

CommitExpire(c) ==
    /\ request[c].op = "expire"
    /\ invitation' = [invitation EXCEPT ![request[c].invitation] = [@ EXCEPT !.status = "EXPIRED"]]
    /\ Finish(c)
    /\ UNCHANGED <<account, member, archived, grants>>

(***************************************************************************)
(* The specification.                                                      *)
(***************************************************************************)
\* The organization was created by its owner, who has an account, or was
\* provisioned, with an invitation for its owner and no member.
InitCreated(u, m) ==
    /\ account = {u}
    /\ member = [n \in Members |->
                    IF n = m THEN NewMember(u, "OWNER", None) ELSE NoMember]
    /\ invitation = [i \in Invitations |-> NoInvitation]

InitProvisioned(u, i) ==
    /\ account = {}
    /\ member = [n \in Members |-> NoMember]
    /\ invitation = [j \in Invitations |->
                        IF j = i THEN NewInvitation(u, "OWNER", None, None)
                        ELSE NoInvitation]

Init ==
    /\ \/ \E u \in Users, m \in Members : InitCreated(u, m)
       \/ \E u \in Users, i \in Invitations :
             (\A j \in Invitations : i <= j) /\ InitProvisioned(u, i)
    /\ archived = {}
    /\ grants = {}
    /\ request = [c \in Clients |-> Idle]

Begin(c) ==
    \/ \E m \in Members, to \in Roles : BeginChangeRole(c, m, to)
    \/ \E m \in Members, d \in Diaries \cup {None} : BeginLink(c, m, d)
    \/ \E m \in Members : BeginRemove(c, m)
    \/ \E m \in Members, d \in Diaries : BeginGrant(c, m, d)
    \/ \E row \in StaffInvitations : BeginInvite(c, row)
    \/ \E row \in StaffInvitations : BeginResend(c, row)
    \/ \E i \in Invitations : BeginAccept(c, i) \/ BeginRegister(c, i) \/ BeginExpire(c, i)

Commit(c) ==
    \/ CommitChangeRole(c) \/ CommitLink(c) \/ CommitRemove(c) \/ CommitGrant(c)
    \/ \E i \in Invitations : CommitInvite(c, i)
    \/ CreateAccount(c)
    \/ \E m \in Members : CommitAccept(c, m)
    \/ CommitExpire(c)

Next ==
    \/ \E c \in Clients : Begin(c) \/ Commit(c) \/ Abandon(c)
    \/ \E d \in Diaries, m \in Members : RevokeGrant(d, m)
    \/ \E d \in Diaries : ArchiveOrRestore(d)
    \/ \E i \in Invitations : RevokeInvitation(i) \/ Lapse(i)

Spec == Init /\ [][Next]_vars

(***************************************************************************)
(* Handlers that do not undo what another one, still in flight, has        *)
(* checked: what serializable transactions around check and write would    *)
(* give.  Spec makes no such promise.                                      *)
(***************************************************************************)
Checked(r) ==
    CASE r.op = "role" -> MayChangeRole(r.member, r.to)
      [] r.op = "link" -> MayLink(r.member, r.diary)
      [] r.op = "remove" -> MayRemove(r.member)
      [] r.op = "grant" -> MayGrant(r.member, r.diary)
      [] r.op = "invite" -> MayInvite(r.row)
      [] r.op = "resend" -> MayResend(r.row)
      [] r.op \in {"register", "accept", "expire"} -> Pending(r.invitation)
      [] OTHER -> TRUE

Undisturbed ==
    \A c \in Clients : \A r \in {request[c]} : request'[c] = r => Checked(r)'

SerialNext == Next /\ Undisturbed
SerialSpec == Init /\ [][SerialNext]_vars

(***************************************************************************)
(* Properties of Spec.                                                     *)
(***************************************************************************)
\* However invitations are repeated, corrected and replaced, an address and a
\* diary have one live invitation each and a person has one membership: what a
\* transaction supersedes is what the partial unique indexes would refuse it
\* (invite, inviteProvider, inviteDelegate, resendInvitation, claimInvitation's
\* upsert).  Of two transactions at the same instant the index lets one through.
IndexesNeverRefuse ==
    /\ \A i, j \in Invitations :
          Pending(i) /\ Pending(j) /\ i # j =>
              /\ invitation[i].user # invitation[j].user
              /\ invitation[i].diary = None \/ invitation[i].diary # invitation[j].diary
    /\ \A m, n \in Members :
          Exists(m) /\ Exists(n) /\ member[m].user = member[n].user => m = n

\* Accepting delivers all the invitation promised, on diaries that are live at
\* that moment: membership, role, login and delegated diary, though the diary was
\* archived, given away or restored since the link was found valid.
LinksDeliver ==
    [][\A i \in Invitations :
          LET row == invitation[i]
          IN  row.status # "ACCEPTED" /\ invitation'[i].status = "ACCEPTED" =>
                  \E m \in Members :
                      /\ Exists(m)' /\ member'[m].user = row.user /\ member'[m].role = row.role
                      /\ row.diary # None =>
                             member'[m].diary = row.diary /\ row.diary \notin archived
                      /\ row.delegate # None =>
                             <<row.delegate, m>> \in grants' /\ row.delegate \notin archived]_vars

(***************************************************************************)
(* Properties of SerialSpec; without Undisturbed they fail.                *)
(***************************************************************************)
\* An organization that has an owner always has one, whoever leaves, is demoted
\* or accepts an invitation to a lesser role.
TenantKeepsAnOwner == [][HasOwner => HasOwner']_vars

\* A live link takes no role away from somebody who is a member by now.
LinksDemoteNobody ==
    \A i \in Invitations :
        Pending(i) /\ IsMember(invitation[i].user) => invitation[i].role = "OWNER"
=============================================================================
