-------------------------- MODULE MembershipsProofs --------------------------
(***************************************************************************)
(* For every set of people, diaries, memberships and invitations: an       *)
(* address and a diary have one live invitation and a person one           *)
(* membership, and an accepted invitation delivers what it promised,       *)
(* however the requests interleave.  Where no handler undoes what another  *)
(* one in flight has checked, an organization keeps an owner and no link   *)
(* takes a role away.                                                      *)
(*                                                                         *)
(* The last two need each other: an owner is demoted by a link unless      *)
(* live links to members offer ownership, which holds because a link that  *)
(* is accepted was the only live one of its address.                       *)
(***************************************************************************)
EXTENDS Memberships, TLAPS

LinkOps == {"register", "accept", "expire"}

\* A request carries what its commit writes.
Ready(q) ==
    /\ q.op \in {"role", "link", "remove", "grant"} => q.member \in Members
    /\ q.op = "role" => q.to \in Roles
    /\ q.op = "grant" => q.diary \in Diaries
    /\ q.op \in {"invite", "resend"} => q.row \in StaffInvitations
    /\ q.op \in LinkOps => q.invitation \in Invitations

RequestsAreReady ==
    \A c \in Clients : /\ Ready(request[c])
                       /\ request[c].op \in LinkOps => Made(request[c].invitation)

\* A row that counts names a person and a role.
RowsAreWhole ==
    /\ \A m \in Members : Exists(m) => member[m].user \in Users /\ member[m].role \in Roles
    /\ \A i \in Invitations :
          Made(i) => invitation[i].user \in Users /\ invitation[i].role \in Roles

\* The two halves of IndexesNeverRefuse.
OneLiveLinkEach ==
    \A i, j \in Invitations :
        Pending(i) /\ Pending(j) /\ i # j =>
            /\ invitation[i].user # invitation[j].user
            /\ invitation[i].diary = None \/ invitation[i].diary # invitation[j].diary

OneMembershipEach ==
    \A m, n \in Members :
        Exists(m) /\ Exists(n) /\ member[m].user = member[n].user => m = n

IInv ==
    /\ TypeOK
    /\ RequestsAreReady
    /\ RowsAreWhole
    /\ OneLiveLinkEach
    /\ OneMembershipEach

----------------------------------------------------------------------------
LEMMA Blanks ==
    /\ Idle \in Request /\ Idle.op = "idle"
    /\ NoMember \in MemberRow /\ NoMember.status = "none"
    /\ DeletedMember \in MemberRow /\ DeletedMember.status = "deleted"
    /\ NoInvitation \in InvitationRow /\ NoInvitation.status = "none"
<1>1. NoMember \in MemberRow /\ NoMember.status = "none"
  BY DEF NoMember, MemberRow
<1>2. DeletedMember \in MemberRow /\ DeletedMember.status = "deleted"
  BY DEF DeletedMember, NoMember, MemberRow
<1>3. NoInvitation \in InvitationRow /\ NoInvitation.status = "none"
  BY DEF NoInvitation, NewInvitation, InvitationRow
<1>4. Idle \in Request /\ Idle.op = "idle"
  BY <1>3 DEF Idle, Request
<1> QED  BY <1>1, <1>2, <1>3, <1>4

LEMMA StaffInvitationIs ==
    ASSUME NEW row \in StaffInvitations
    PROVE  /\ row \in InvitationRow /\ row.status = "PENDING" /\ ~row.lapsed
           /\ row.user \in Users /\ row.role \in Roles
<1>1. PICK u \in Users, role \in Roles, d \in Diaries \cup {None},
           delegate \in Diaries \cup {None} : row = NewInvitation(u, role, d, delegate)
  BY MembershipsAssumption DEF StaffInvitations
<1> QED  BY <1>1 DEF NewInvitation, InvitationRow

\* The request of one client changes.
LEMMA Moves ==
    ASSUME IInv, NEW c \in Clients, NEW q \in Request, Ready(q),
           request' = [request EXCEPT ![c] = q],
           q.op \in LinkOps => Made(q.invitation),
           \A i \in Invitations : Made(i) => Made(i)'
    PROVE  /\ request' \in [Clients -> Request]
           /\ RequestsAreReady'
           /\ request'[c] = q /\ \A d \in Clients \ {c} : request'[d] = request[d]
<1>1. /\ request' \in [Clients -> Request]
      /\ request'[c] = q /\ \A d \in Clients \ {c} : request'[d] = request[d]
  BY DEF IInv, TypeOK
<1>2. ASSUME NEW d \in Clients
      PROVE  /\ Ready(request'[d])
             /\ request'[d].op \in LinkOps => invitation'[request'[d].invitation].status # "none"
  <2>1. Ready(request'[d]) /\ (request'[d].op \in LinkOps => request'[d].invitation \in Invitations)
    BY <1>1 DEF IInv, RequestsAreReady, Ready
  <2>2. request'[d].op \in LinkOps => Made(request'[d].invitation)
    BY <1>1 DEF IInv, RequestsAreReady
  <2> QED  BY <2>1, <2>2 DEF Made
<1>3. RequestsAreReady'
  BY <1>2 DEF RequestsAreReady, Made, Ready
<1> QED  BY <1>1, <1>3

LEMMA FinishMoves ==
    ASSUME IInv, NEW c \in Clients, Finish(c),
           \A i \in Invitations : Made(i) => Made(i)'
    PROVE  /\ request' \in [Clients -> Request]
           /\ RequestsAreReady'
           /\ request'[c] = Idle /\ \A d \in Clients \ {c} : request'[d] = request[d]
<1>1. Ready(Idle) /\ Idle.op \notin LinkOps
  BY Blanks DEF Ready, LinkOps
<1> QED  BY <1>1, Blanks, Moves DEF Finish

LEMMA InitIsInductive == Init => IInv
<1> SUFFICES ASSUME Init PROVE IInv
  OBVIOUS
<1>1. archived = {} /\ grants = {} /\ request = [c \in Clients |-> Idle]
  BY DEF Init
<1>2. request \in [Clients -> Request] /\ RequestsAreReady
  BY <1>1, Blanks DEF RequestsAreReady, Ready, LinkOps
<1>3. ASSUME NEW u \in Users, NEW m \in Members, InitCreated(u, m) PROVE IInv
  <2>1. NewMember(u, "OWNER", None) \in MemberRow /\ NewMember(u, "OWNER", None).user = u
        /\ NewMember(u, "OWNER", None).role = "OWNER"
    BY MembershipsAssumption DEF NewMember, MemberRow
  <2>2. /\ account = {u}
        /\ member = [n \in Members |-> IF n = m THEN NewMember(u, "OWNER", None) ELSE NoMember]
        /\ invitation = [i \in Invitations |-> NoInvitation]
    BY <1>3 DEF InitCreated
  <2>3. TypeOK
    BY <1>1, <1>2, <2>1, <2>2, Blanks DEF TypeOK
  <2>4. RowsAreWhole
    BY <2>1, <2>2, Blanks, MembershipsAssumption DEF RowsAreWhole, Exists, Made
  <2>5. OneLiveLinkEach /\ OneMembershipEach
    BY <2>1, <2>2, Blanks DEF OneLiveLinkEach, OneMembershipEach, Exists, Pending
  <2> QED  BY <1>2, <2>3, <2>4, <2>5 DEF IInv
<1>4. ASSUME NEW u \in Users, NEW i \in Invitations, InitProvisioned(u, i) PROVE IInv
  <2> DEFINE row == NewInvitation(u, "OWNER", None, None)
  <2>1. row \in InvitationRow /\ row.user = u /\ row.role = "OWNER"
    BY MembershipsAssumption DEF NewInvitation, InvitationRow
  <2>2. /\ account = {}
        /\ member = [n \in Members |-> NoMember]
        /\ invitation = [j \in Invitations |-> IF j = i THEN row ELSE NoInvitation]
    BY <1>4 DEF InitProvisioned
  <2> HIDE DEF row
  <2>3. TypeOK
    BY <1>1, <1>2, <2>1, <2>2, Blanks DEF TypeOK
  <2>4. RowsAreWhole
    BY <2>1, <2>2, Blanks, MembershipsAssumption DEF RowsAreWhole, Exists, Made
  <2>5. OneLiveLinkEach /\ OneMembershipEach
    BY <2>1, <2>2, Blanks DEF OneLiveLinkEach, OneMembershipEach, Exists, Pending
  <2> QED  BY <1>2, <2>3, <2>4, <2>5 DEF IInv
<1> QED  BY <1>3, <1>4 DEF Init

----------------------------------------------------------------------------
(* Requests.                                                               *)

LEMMA TablesStand ==
    ASSUME IInv, UNCHANGED tables
    PROVE  /\ RowsAreWhole' /\ OneLiveLinkEach' /\ OneMembershipEach'
           /\ request' \in [Clients -> Request] => TypeOK'
           /\ \A i \in Invitations : Made(i) => Made(i)'
<1>1. RowsAreWhole'
  BY DEF IInv, tables, RowsAreWhole, Exists, Made
<1>2. OneLiveLinkEach' /\ OneMembershipEach'
  BY DEF IInv, tables, OneLiveLinkEach, OneMembershipEach, Exists, Pending
<1>3. request' \in [Clients -> Request] => TypeOK'
  BY DEF IInv, tables, TypeOK
<1> QED  BY <1>1, <1>2, <1>3 DEF tables, Made

LEMMA StartKeeps ==
    ASSUME IInv, NEW c \in Clients, NEW q \in Request, Start(c, q), Ready(q),
           q.op \in LinkOps => Made(q.invitation)
    PROVE  IInv'
<1>1. request' = [request EXCEPT ![c] = q] /\ UNCHANGED tables
  BY DEF Start
<1>2. request' \in [Clients -> Request] /\ RequestsAreReady'
  BY <1>1, TablesStand, Moves
<1> QED  BY <1>1, <1>2, TablesStand DEF IInv

\* What each handler begins with.
LEMMA BeginStarts ==
    ASSUME IInv, NEW c \in Clients, Begin(c)
    PROVE  \E q \in Request :
              /\ Start(c, q) /\ Ready(q) /\ Checked(q)
              /\ q.op \in LinkOps => Made(q.invitation)
<1> DEFINE Starts == \E q \in Request :
              /\ Start(c, q) /\ Ready(q) /\ Checked(q)
              /\ q.op \in LinkOps => Made(q.invitation)
<1> USE DEF LinkOps
<1>1. ASSUME NEW m \in Members, NEW to \in Roles, BeginChangeRole(c, m, to) PROVE Starts
  <2> DEFINE q == [Idle EXCEPT !.op = "role", !.member = m, !.to = to]
  <2>1. q \in Request /\ q.op = "role" /\ q.member = m /\ q.to = to
    BY Blanks DEF Request
  <2>2. Start(c, q) /\ MayChangeRole(m, to)
    BY <1>1 DEF BeginChangeRole
  <2> HIDE DEF q
  <2>3. Ready(q) /\ Checked(q)
    BY <2>1, <2>2 DEF Ready, Checked
  <2> QED  BY <2>1, <2>2, <2>3
<1>2. ASSUME NEW m \in Members, NEW d \in Diaries \cup {None}, BeginLink(c, m, d) PROVE Starts
  <2> DEFINE q == [Idle EXCEPT !.op = "link", !.member = m, !.diary = d]
  <2>1. q \in Request /\ q.op = "link" /\ q.member = m /\ q.diary = d
    BY Blanks DEF Request
  <2>2. Start(c, q) /\ MayLink(m, d)
    BY <1>2 DEF BeginLink
  <2> HIDE DEF q
  <2>3. Ready(q) /\ Checked(q)
    BY <2>1, <2>2 DEF Ready, Checked
  <2> QED  BY <2>1, <2>2, <2>3
<1>3. ASSUME NEW m \in Members, BeginRemove(c, m) PROVE Starts
  <2> DEFINE q == [Idle EXCEPT !.op = "remove", !.member = m]
  <2>1. q \in Request /\ q.op = "remove" /\ q.member = m
    BY Blanks DEF Request
  <2>2. Start(c, q) /\ MayRemove(m)
    BY <1>3 DEF BeginRemove
  <2> HIDE DEF q
  <2>3. Ready(q) /\ Checked(q)
    BY <2>1, <2>2 DEF Ready, Checked
  <2> QED  BY <2>1, <2>2, <2>3
<1>4. ASSUME NEW m \in Members, NEW d \in Diaries, BeginGrant(c, m, d) PROVE Starts
  <2> DEFINE q == [Idle EXCEPT !.op = "grant", !.member = m, !.diary = d]
  <2>1. q \in Request /\ q.op = "grant" /\ q.member = m /\ q.diary = d
    BY Blanks DEF Request
  <2>2. Start(c, q) /\ MayGrant(m, d)
    BY <1>4 DEF BeginGrant
  <2> HIDE DEF q
  <2>3. Ready(q) /\ Checked(q)
    BY <2>1, <2>2 DEF Ready, Checked
  <2> QED  BY <2>1, <2>2, <2>3
<1>5. ASSUME NEW row \in StaffInvitations, BeginInvite(c, row) PROVE Starts
  <2> DEFINE q == [Idle EXCEPT !.op = "invite", !.row = row]
  <2>1. q \in Request /\ q.op = "invite" /\ q.row = row
    BY Blanks, StaffInvitationIs DEF Request
  <2>2. Start(c, q) /\ MayInvite(row)
    BY <1>5 DEF BeginInvite
  <2> HIDE DEF q
  <2>3. Ready(q) /\ Checked(q)
    BY <2>1, <2>2 DEF Ready, Checked
  <2> QED  BY <2>1, <2>2, <2>3
<1>6. ASSUME NEW row \in StaffInvitations, BeginResend(c, row) PROVE Starts
  <2> DEFINE q == [Idle EXCEPT !.op = "resend", !.row = row]
  <2>1. q \in Request /\ q.op = "resend" /\ q.row = row
    BY Blanks, StaffInvitationIs DEF Request
  <2>2. Start(c, q) /\ MayResend(row)
    BY <1>6 DEF BeginResend
  <2> HIDE DEF q
  <2>3. Ready(q) /\ Checked(q)
    BY <2>1, <2>2 DEF Ready, Checked
  <2> QED  BY <2>1, <2>2, <2>3
<1>7. ASSUME NEW i \in Invitations,
             BeginAccept(c, i) \/ BeginRegister(c, i) \/ BeginExpire(c, i)
      PROVE  Starts
  <2>1. PICK op \in LinkOps : Start(c, [Idle EXCEPT !.op = op, !.invitation = i]) /\ Pending(i)
    BY <1>7 DEF BeginAccept, BeginRegister, BeginExpire, Live
  <2> DEFINE q == [Idle EXCEPT !.op = op, !.invitation = i]
  <2>2. q \in Request /\ q.op = op /\ q.invitation = i
    BY Blanks DEF Request
  <2>3. Start(c, q)
    BY <2>1
  <2> HIDE DEF q
  <2>4. Ready(q) /\ Checked(q) /\ Made(q.invitation)
    BY <2>1, <2>2 DEF Ready, Checked, Pending, Made
  <2> QED  BY <2>2, <2>3, <2>4
<1> HIDE DEF Starts
<1>8. Starts
  BY <1>1, <1>2, <1>3, <1>4, <1>5, <1>6, <1>7 DEF Begin
<1> QED  BY <1>8 DEF Starts

LEMMA BeginKeeps ==
    ASSUME IInv, NEW c \in Clients, Begin(c) PROVE IInv'
BY BeginStarts, StartKeeps

LEMMA AbandonKeeps ==
    ASSUME IInv, NEW c \in Clients, Abandon(c) PROVE IInv'
BY TablesStand, FinishMoves DEF IInv, Abandon

----------------------------------------------------------------------------
(* Memberships.                                                            *)

\* One membership changes, of the same person or a person who had none.
LEMMA MemberChanges ==
    ASSUME IInv, NEW m \in Members, NEW new \in MemberRow,
           member' = [member EXCEPT ![m] = new],
           new.status = "ACTIVE" => /\ new.user \in Users /\ new.role \in Roles
                                    /\ \/ Exists(m) /\ member[m].user = new.user
                                       \/ ~IsMember(new.user)
    PROVE  /\ member' \in [Members -> MemberRow]
           /\ OneMembershipEach'
           /\ \A n \in Members : Exists(n)' => member'[n].user \in Users /\ member'[n].role \in Roles
           /\ member'[m] = new /\ \A n \in Members \ {m} : member'[n] = member[n]
<1>1. /\ member' \in [Members -> MemberRow]
      /\ member'[m] = new /\ \A n \in Members \ {m} : member'[n] = member[n]
  BY DEF IInv, TypeOK
<1>2. \A n \in Members : Exists(n)' => member'[n].user \in Users /\ member'[n].role \in Roles
  BY <1>1 DEF IInv, RowsAreWhole, Exists
<1>3. \A n \in Members \ {m} : Exists(n) /\ Exists(m)' => member[n].user # new.user
  BY <1>1 DEF IInv, OneMembershipEach, IsMember, Exists
<1>4. OneMembershipEach'
  BY <1>1, <1>3 DEF IInv, OneMembershipEach, Exists
<1> QED  BY <1>1, <1>2, <1>4

LEMMA InvitationsStand ==
    ASSUME IInv, invitation' = invitation
    PROVE  /\ OneLiveLinkEach'
           /\ \A i \in Invitations : (Made(i) <=> Made(i)')
           /\ \A i \in Invitations :
                 Made(i)' => invitation'[i].user \in Users /\ invitation'[i].role \in Roles
BY DEF IInv, OneLiveLinkEach, Pending, Made, RowsAreWhole

LEMMA ChangeRoleKeeps ==
    ASSUME IInv, NEW c \in Clients, CommitChangeRole(c) PROVE IInv'
<1> DEFINE m == request[c].member
           new == [member[m] EXCEPT !.role = request[c].to]
<1>1. /\ request[c].op = "role" /\ Exists(m) /\ member' = [member EXCEPT ![m] = new]
      /\ Finish(c) /\ UNCHANGED <<account, invitation, archived, grants>>
  BY DEF CommitChangeRole
<1>2. m \in Members /\ request[c].to \in Roles
  BY <1>1 DEF IInv, RequestsAreReady, Ready
<1>3. new \in MemberRow /\ new.user = member[m].user /\ new.role = request[c].to
  BY <1>2 DEF IInv, TypeOK, MemberRow
<1>4. member[m].user \in Users
  BY <1>1, <1>2 DEF IInv, RowsAreWhole
<1> HIDE DEF new
<1>5. /\ member' \in [Members -> MemberRow] /\ OneMembershipEach'
      /\ \A n \in Members : Exists(n)' => member'[n].user \in Users /\ member'[n].role \in Roles
  BY <1>1, <1>2, <1>3, <1>4, MemberChanges
<1>6. request' \in [Clients -> Request] /\ RequestsAreReady'
  BY <1>1, InvitationsStand, FinishMoves
<1> QED  BY <1>1, <1>5, <1>6, InvitationsStand DEF IInv, TypeOK, RowsAreWhole

LEMMA LinkKeeps ==
    ASSUME IInv, NEW c \in Clients, CommitLink(c) PROVE IInv'
<1> DEFINE m == request[c].member
           new == [member[m] EXCEPT !.diary = request[c].diary]
<1>1. /\ request[c].op = "link" /\ Exists(m) /\ member' = [member EXCEPT ![m] = new]
      /\ Finish(c) /\ UNCHANGED <<account, invitation, archived, grants>>
  BY DEF CommitLink
<1>2. m \in Members /\ request[c] \in Request
  BY <1>1 DEF IInv, RequestsAreReady, Ready, TypeOK
<1>3. new \in MemberRow /\ new.user = member[m].user /\ new.role = member[m].role
  <2>1. member[m] \in MemberRow /\ request[c].diary \in Diaries \cup {None}
    BY <1>2 DEF IInv, TypeOK, Request
  <2> QED  BY <2>1 DEF MemberRow
<1>4. member[m].user \in Users /\ member[m].role \in Roles
  BY <1>1, <1>2 DEF IInv, RowsAreWhole
<1> HIDE DEF new
<1>5. /\ member' \in [Members -> MemberRow] /\ OneMembershipEach'
      /\ \A n \in Members : Exists(n)' => member'[n].user \in Users /\ member'[n].role \in Roles
  BY <1>1, <1>2, <1>3, <1>4, MemberChanges
<1>6. request' \in [Clients -> Request] /\ RequestsAreReady'
  BY <1>1, InvitationsStand, FinishMoves
<1> QED  BY <1>1, <1>5, <1>6, InvitationsStand DEF IInv, TypeOK, RowsAreWhole

LEMMA RemoveKeeps ==
    ASSUME IInv, NEW c \in Clients, CommitRemove(c) PROVE IInv'
<1> DEFINE m == request[c].member
<1>1. /\ request[c].op = "remove" /\ member' = [member EXCEPT ![m] = DeletedMember]
      /\ grants' \subseteq grants
      /\ Finish(c) /\ UNCHANGED <<account, invitation, archived>>
  BY DEF CommitRemove
<1>2. m \in Members
  BY <1>1 DEF IInv, RequestsAreReady, Ready
<1>3. /\ member' \in [Members -> MemberRow] /\ OneMembershipEach'
      /\ \A n \in Members : Exists(n)' => member'[n].user \in Users /\ member'[n].role \in Roles
  BY <1>1, <1>2, Blanks, MemberChanges
<1>4. request' \in [Clients -> Request] /\ RequestsAreReady'
  BY <1>1, InvitationsStand, FinishMoves
<1> QED  BY <1>1, <1>3, <1>4, InvitationsStand DEF IInv, TypeOK, RowsAreWhole

\* Steps that change no membership and no invitation.
LEMMA RowsStand ==
    ASSUME IInv, UNCHANGED <<member, invitation>>,
           account' \subseteq Users, archived' \subseteq Diaries,
           grants' \subseteq Diaries \X Members,
           request' \in [Clients -> Request], RequestsAreReady'
    PROVE  IInv'
<1>1. OneMembershipEach'
  BY DEF IInv, OneMembershipEach, Exists
<1>2. RowsAreWhole'
  BY DEF IInv, RowsAreWhole, Exists, Made
<1>3. TypeOK'
  BY DEF IInv, TypeOK
<1> QED  BY <1>1, <1>2, <1>3, InvitationsStand DEF IInv

LEMMA GrantKeeps ==
    ASSUME IInv, NEW c \in Clients, CommitGrant(c) PROVE IInv'
<1> DEFINE q == request[c]
<1>1. /\ q.op = "grant" /\ grants' = grants \cup {<<q.diary, q.member>>}
      /\ Finish(c) /\ UNCHANGED <<account, member, invitation, archived>>
  BY DEF CommitGrant
<1>2. q.member \in Members /\ q.diary \in Diaries
  BY <1>1 DEF IInv, RequestsAreReady, Ready
<1>3. grants' \subseteq Diaries \X Members
  BY <1>1, <1>2 DEF IInv, TypeOK
<1>4. request' \in [Clients -> Request] /\ RequestsAreReady'
  BY <1>1, InvitationsStand, FinishMoves
<1> QED  BY <1>1, <1>3, <1>4, RowsStand DEF IInv, TypeOK

LEMMA CreateAccountKeeps ==
    ASSUME IInv, NEW c \in Clients, CreateAccount(c) PROVE IInv'
<1> DEFINE i == request[c].invitation
           q == [request[c] EXCEPT !.op = "accept"]
<1>1. /\ request[c].op = "register" /\ account' = account \cup {invitation[i].user}
      /\ request' = [request EXCEPT ![c] = q]
      /\ UNCHANGED <<member, invitation, archived, grants>>
  BY DEF CreateAccount
<1>2. i \in Invitations /\ Made(i) /\ request[c] \in Request
  BY <1>1 DEF IInv, RequestsAreReady, Ready, LinkOps, TypeOK
<1>3. q \in Request /\ q.op = "accept" /\ q.invitation = i
  BY <1>2 DEF Request
<1> HIDE DEF q, i
<1>4. Ready(q)
  BY <1>2, <1>3 DEF Ready
<1>5. request' \in [Clients -> Request] /\ RequestsAreReady'
  BY <1>1, <1>2, <1>3, <1>4, InvitationsStand, Moves
<1>6. invitation[i].user \in Users
  BY <1>2 DEF IInv, RowsAreWhole
<1> QED  BY <1>1, <1>5, <1>6, RowsStand DEF IInv, TypeOK

LEMMA GrantsChange ==
    ASSUME IInv, NEW d \in Diaries, NEW m \in Members, RevokeGrant(d, m) PROVE IInv'
<1>1. /\ grants' \subseteq grants
      /\ UNCHANGED <<account, member, invitation, archived, request>>
  BY DEF RevokeGrant
<1>2. RequestsAreReady'
  BY <1>1 DEF IInv, RequestsAreReady, Ready, Made
<1> QED  BY <1>1, <1>2, RowsStand DEF IInv, TypeOK

LEMMA ArchivesChange ==
    ASSUME IInv, NEW d \in Diaries, ArchiveOrRestore(d) PROVE IInv'
<1>1. /\ archived' \subseteq archived \cup {d}
      /\ UNCHANGED <<account, member, invitation, grants, request>>
  BY DEF ArchiveOrRestore
<1>2. RequestsAreReady'
  BY <1>1 DEF IInv, RequestsAreReady, Ready, Made
<1> QED  BY <1>1, <1>2, RowsStand DEF IInv, TypeOK

----------------------------------------------------------------------------
(* Invitations.                                                            *)

\* An invitation changes its status or lapses, and becomes pending by neither.
LEMMA InvitationChanges ==
    ASSUME IInv, NEW i \in Invitations, NEW new \in InvitationRow,
           invitation' = [invitation EXCEPT ![i] = new],
           new.user = invitation[i].user, new.role = invitation[i].role,
           new.diary = invitation[i].diary,
           new.status # "none" /\ Made(i),
           new.status = "PENDING" => Pending(i)
    PROVE  /\ invitation' \in [Invitations -> InvitationRow]
           /\ OneLiveLinkEach'
           /\ \A j \in Invitations : Made(j) => Made(j)'
           /\ \A j \in Invitations :
                 Made(j)' => invitation'[j].user \in Users /\ invitation'[j].role \in Roles
           /\ invitation'[i] = new /\ \A j \in Invitations \ {i} : invitation'[j] = invitation[j]
<1>1. /\ invitation' \in [Invitations -> InvitationRow]
      /\ invitation'[i] = new /\ \A j \in Invitations \ {i} : invitation'[j] = invitation[j]
  BY DEF IInv, TypeOK
<1>2. \A j \in Invitations : /\ Pending(j)' => Pending(j)
                             /\ invitation'[j].user = invitation[j].user
                             /\ invitation'[j].role = invitation[j].role
                             /\ invitation'[j].diary = invitation[j].diary
                             /\ Made(j)' <=> Made(j)
  BY <1>1 DEF Pending, Made
<1>3. OneLiveLinkEach'
  <2> SUFFICES ASSUME NEW j \in Invitations, NEW k \in Invitations,
                      Pending(j)', Pending(k)', j # k
               PROVE  /\ invitation'[j].user # invitation'[k].user
                      /\ \/ invitation'[j].diary = None
                         \/ invitation'[j].diary # invitation'[k].diary
    BY DEF OneLiveLinkEach
  <2>1. Pending(j) /\ Pending(k)
    BY <1>2
  <2> QED  BY <1>2, <2>1 DEF IInv, OneLiveLinkEach
<1> QED  BY <1>1, <1>2, <1>3 DEF IInv, RowsAreWhole

LEMMA MembersStand ==
    ASSUME IInv, member' = member
    PROVE  /\ OneMembershipEach'
           /\ \A n \in Members : Exists(n)' => member'[n].user \in Users /\ member'[n].role \in Roles
BY DEF IInv, OneMembershipEach, Exists, RowsAreWhole

LEMMA RevokeKeeps ==
    ASSUME IInv, NEW i \in Invitations, RevokeInvitation(i) \/ Lapse(i) PROVE IInv'
<1>1. PICK new \in {[invitation[i] EXCEPT !.status = "REVOKED"],
                    [invitation[i] EXCEPT !.lapsed = TRUE]} :
         invitation' = [invitation EXCEPT ![i] = new]
  BY DEF RevokeInvitation, Lapse
<1>2. Pending(i) /\ UNCHANGED <<account, member, archived, grants, request>>
  BY DEF RevokeInvitation, Lapse
<1>3. invitation[i] \in InvitationRow
  BY DEF IInv, TypeOK
<1>4. /\ new \in InvitationRow /\ new.status \in {"REVOKED", invitation[i].status}
      /\ new.user = invitation[i].user /\ new.role = invitation[i].role
      /\ new.diary = invitation[i].diary
  BY <1>3 DEF InvitationRow
<1>5. /\ invitation' \in [Invitations -> InvitationRow] /\ OneLiveLinkEach'
      /\ \A j \in Invitations : Made(j) => Made(j)'
      /\ \A j \in Invitations :
            Made(j)' => invitation'[j].user \in Users /\ invitation'[j].role \in Roles
  BY <1>1, <1>2, <1>4, InvitationChanges DEF Pending, Made
<1>6. RequestsAreReady'
  <2>1. \A c \in Clients : Ready(request[c])' /\ request[c].op \in LinkOps =>
            request[c].invitation \in Invitations /\ Made(request[c].invitation)
    BY <1>2 DEF IInv, RequestsAreReady, Ready
  <2> QED  BY <1>2, <1>5, <2>1 DEF IInv, RequestsAreReady, Ready, Made
<1> QED  BY <1>2, <1>5, <1>6, MembersStand DEF IInv, TypeOK, RowsAreWhole

LEMMA ExpireKeeps ==
    ASSUME IInv, NEW c \in Clients, CommitExpire(c) PROVE IInv'
<1> DEFINE i == request[c].invitation
           new == [invitation[i] EXCEPT !.status = "EXPIRED"]
<1>1. /\ request[c].op = "expire" /\ invitation' = [invitation EXCEPT ![i] = new]
      /\ Finish(c) /\ UNCHANGED <<account, member, archived, grants>>
  BY DEF CommitExpire
<1>2. i \in Invitations /\ Made(i)
  BY <1>1 DEF IInv, RequestsAreReady, Ready, LinkOps
<1>3. /\ new \in InvitationRow /\ new.status = "EXPIRED"
      /\ new.user = invitation[i].user /\ new.role = invitation[i].role
      /\ new.diary = invitation[i].diary
  BY <1>2 DEF IInv, TypeOK, InvitationRow
<1> HIDE DEF new, i
<1>4. /\ invitation' \in [Invitations -> InvitationRow] /\ OneLiveLinkEach'
      /\ \A j \in Invitations : Made(j) => Made(j)'
      /\ \A j \in Invitations :
            Made(j)' => invitation'[j].user \in Users /\ invitation'[j].role \in Roles
  BY <1>1, <1>2, <1>3, InvitationChanges
<1>5. request' \in [Clients -> Request] /\ RequestsAreReady'
  BY <1>1, <1>4, FinishMoves
<1> QED  BY <1>1, <1>4, <1>5, MembersStand DEF IInv, TypeOK, RowsAreWhole

\* The transaction that supersedes and creates.
LEMMA InviteChanges ==
    ASSUME IInv, NEW c \in Clients, NEW i \in Invitations, CommitInvite(c, i)
    PROVE  /\ request[c].row \in StaffInvitations
           /\ invitation' \in [Invitations -> InvitationRow]
           /\ invitation'[i] = request[c].row
           /\ \A j \in Invitations \ {i} :
                 /\ invitation'[j].user = invitation[j].user
                 /\ invitation'[j].role = invitation[j].role
                 /\ invitation'[j].diary = invitation[j].diary
                 /\ Made(j)' <=> Made(j)
                 /\ Pending(j)' => Pending(j) /\ ~Replaced(j, request[c].row)
                 /\ invitation'[j].status = "ACCEPTED" => invitation[j].status = "ACCEPTED"
           /\ ~Made(i)
<1> DEFINE row == request[c].row
<1>1. /\ request[c].op \in {"invite", "resend"}
      /\ \A j \in Invitations : Made(j) => j < i
      /\ invitation' = [Superseded(row) EXCEPT ![i] = row]
  BY DEF CommitInvite
<1>2. row \in StaffInvitations
  BY <1>1 DEF IInv, RequestsAreReady, Ready
<1>3. row \in InvitationRow
  BY <1>2, StaffInvitationIs
<1>4. ~Made(i)
  BY <1>1, MembershipsAssumption
<1> HIDE DEF row
<1>5. ASSUME NEW j \in Invitations
      PROVE  /\ Superseded(row)[j] \in InvitationRow
             /\ Superseded(row)[j].user = invitation[j].user
             /\ Superseded(row)[j].role = invitation[j].role
             /\ Superseded(row)[j].diary = invitation[j].diary
             /\ Superseded(row)[j].status =
                   IF Pending(j) /\ Replaced(j, row) THEN "REVOKED" ELSE invitation[j].status
  <2>1. invitation[j] \in InvitationRow
    BY DEF IInv, TypeOK
  <2>2. Superseded(row)[j] = IF Pending(j) /\ Replaced(j, row)
                             THEN [invitation[j] EXCEPT !.status = "REVOKED"]
                             ELSE invitation[j]
    BY DEF Superseded
  <2>3. CASE Pending(j) /\ Replaced(j, row)
    BY <2>1, <2>2, <2>3 DEF InvitationRow
  <2>4. CASE ~(Pending(j) /\ Replaced(j, row))
    BY <2>1, <2>2, <2>4
  <2> QED  BY <2>3, <2>4
<1>6. Superseded(row) \in [Invitations -> InvitationRow]
  <2>1. Superseded(row) = [j \in Invitations |-> Superseded(row)[j]]
    BY DEF Superseded
  <2> QED  BY <1>5, <2>1
<1>7. /\ invitation' \in [Invitations -> InvitationRow] /\ invitation'[i] = row
      /\ \A j \in Invitations \ {i} : invitation'[j] = Superseded(row)[j]
  BY <1>1, <1>3, <1>6
<1> QED  BY <1>2, <1>4, <1>5, <1>7 DEF row, Made, Pending

LEMMA InviteKeeps ==
    ASSUME IInv, NEW c \in Clients, NEW i \in Invitations, CommitInvite(c, i) PROVE IInv'
<1> DEFINE row == request[c].row
<1>1. Finish(c) /\ UNCHANGED <<account, member, archived, grants>>
  BY DEF CommitInvite
<1>2. row.status = "PENDING" /\ row.user \in Users /\ row.role \in Roles
  BY InviteChanges, StaffInvitationIs
<1>3. \A j \in Invitations : Made(j) => Made(j)'
  BY InviteChanges
<1>4. OneLiveLinkEach'
  <2> SUFFICES ASSUME NEW j \in Invitations, NEW k \in Invitations,
                      Pending(j)', Pending(k)', j # k
               PROVE  /\ invitation'[j].user # invitation'[k].user
                      /\ \/ invitation'[j].diary = None
                         \/ invitation'[j].diary # invitation'[k].diary
    BY DEF OneLiveLinkEach
  <2>1. CASE j = i
    BY <2>1, InviteChanges DEF Replaced
  <2>2. CASE k = i
    BY <2>2, InviteChanges DEF Replaced
  <2>3. CASE j # i /\ k # i
    BY <2>3, InviteChanges DEF IInv, OneLiveLinkEach
  <2> QED  BY <2>1, <2>2, <2>3
<1>5. \A j \in Invitations :
          Made(j)' => invitation'[j].user \in Users /\ invitation'[j].role \in Roles
  BY <1>2, InviteChanges DEF IInv, RowsAreWhole
<1>6. request' \in [Clients -> Request] /\ RequestsAreReady'
  BY <1>1, <1>3, FinishMoves
<1>7. TypeOK'
  BY <1>1, <1>6, InviteChanges DEF IInv, TypeOK
<1> QED  BY <1>1, <1>4, <1>5, <1>6, <1>7, MembersStand DEF IInv, RowsAreWhole

\* What accepting changes.
LEMMA AcceptChanges ==
    ASSUME IInv, NEW c \in Clients, NEW m \in Members, CommitAccept(c, m)
    PROVE  LET i == request[c].invitation
               row == invitation[i]
           IN  /\ i \in Invitations /\ Made(i) /\ request[c].op = "accept"
               /\ row.user \in Users /\ row.role \in Roles
               /\ member' \in [Members -> MemberRow] /\ OneMembershipEach'
               /\ \A n \in Members :
                     Exists(n)' => member'[n].user \in Users /\ member'[n].role \in Roles
               /\ \A n \in Members \ {m} : member'[n] = member[n]
               /\ member'[m].status = "ACTIVE" /\ member'[m].user = row.user
               /\ member'[m].role = row.role
               /\ row.diary # None => member'[m].diary = row.diary
               /\ ~Exists(m) => ~IsMember(row.user)
               /\ Exists(m) => member[m].user = row.user
               /\ invitation' \in [Invitations -> InvitationRow] /\ OneLiveLinkEach'
               /\ \A j \in Invitations : Made(j) => Made(j)'
               /\ \A j \in Invitations :
                     Made(j)' => invitation'[j].user \in Users /\ invitation'[j].role \in Roles
               /\ invitation'[i].status = "ACCEPTED"
               /\ \A j \in Invitations \ {i} : invitation'[j] = invitation[j]
<1> DEFINE i == request[c].invitation
           row == invitation[i]
           kept == row.diary = None /\ Exists(m)
           new == NewMember(row.user, row.role, IF kept THEN member[m].diary ELSE row.diary)
           done == [row EXCEPT !.status = "ACCEPTED"]
<1>1. /\ request[c].op = "accept"
      /\ IF IsMember(row.user) THEN Exists(m) /\ member[m].user = row.user
                               ELSE member[m] = NoMember
      /\ member' = [member EXCEPT ![m] = new]
      /\ invitation' = [invitation EXCEPT ![i] = done]
  BY DEF CommitAccept, Joined
<1>2. i \in Invitations /\ Made(i)
  BY <1>1 DEF IInv, RequestsAreReady, Ready, LinkOps
<1>3. row \in InvitationRow /\ row.user \in Users /\ row.role \in Roles /\ member[m] \in MemberRow
  BY <1>2 DEF IInv, TypeOK, RowsAreWhole
<1>4. /\ new \in MemberRow /\ new.status = "ACTIVE" /\ new.user = row.user /\ new.role = row.role
      /\ row.diary # None => new.diary = row.diary
  <2>1. (IF kept THEN member[m].diary ELSE row.diary) \in Diaries \cup {None}
    BY <1>3 DEF InvitationRow, MemberRow
  <2> QED  BY <1>3, <2>1 DEF NewMember, MemberRow
<1>5. /\ Exists(m) => member[m].user = row.user
      /\ ~Exists(m) => ~IsMember(row.user)
      /\ \/ Exists(m) /\ member[m].user = row.user
         \/ ~IsMember(row.user)
  BY <1>1, Blanks DEF Exists
<1>6. /\ done \in InvitationRow /\ done.status = "ACCEPTED" /\ done.user = row.user
      /\ done.role = row.role /\ done.diary = row.diary
  BY <1>3 DEF InvitationRow
<1> HIDE DEF new, done
<1>7. /\ member' \in [Members -> MemberRow] /\ OneMembershipEach'
      /\ \A n \in Members : Exists(n)' => member'[n].user \in Users /\ member'[n].role \in Roles
      /\ member'[m] = new /\ \A n \in Members \ {m} : member'[n] = member[n]
  BY <1>1, <1>3, <1>4, <1>5, MemberChanges
<1>8. /\ invitation' \in [Invitations -> InvitationRow] /\ OneLiveLinkEach'
      /\ \A j \in Invitations : Made(j) => Made(j)'
      /\ \A j \in Invitations :
            Made(j)' => invitation'[j].user \in Users /\ invitation'[j].role \in Roles
      /\ invitation'[i] = done /\ \A j \in Invitations \ {i} : invitation'[j] = invitation[j]
  BY <1>1, <1>2, <1>6, InvitationChanges
<1> QED  BY <1>1, <1>2, <1>3, <1>4, <1>5, <1>6, <1>7, <1>8

LEMMA AcceptKeeps ==
    ASSUME IInv, NEW c \in Clients, NEW m \in Members, CommitAccept(c, m) PROVE IInv'
<1> DEFINE delegate == invitation[request[c].invitation].delegate
<1>1. /\ Finish(c) /\ UNCHANGED <<account, archived>>
      /\ grants' = IF delegate = None THEN grants ELSE grants \cup {<<delegate, m>>}
  BY DEF CommitAccept
<1>2. delegate \in Diaries \cup {None}
  BY AcceptChanges DEF IInv, TypeOK, InvitationRow
<1>3. grants' \subseteq Diaries \X Members
  BY <1>1, <1>2 DEF IInv, TypeOK
<1>4. request' \in [Clients -> Request] /\ RequestsAreReady'
  BY <1>1, AcceptChanges, FinishMoves
<1>5. TypeOK'
  BY <1>1, <1>3, <1>4, AcceptChanges DEF IInv, TypeOK
<1> QED  BY <1>4, <1>5, AcceptChanges DEF IInv, RowsAreWhole

----------------------------------------------------------------------------
LEMMA NextKeeps == IInv /\ [Next]_vars => IInv'
<1> SUFFICES ASSUME IInv, [Next]_vars PROVE IInv'
  OBVIOUS
<1>1. ASSUME NEW c \in Clients, Commit(c) PROVE IInv'
  BY <1>1, ChangeRoleKeeps, LinkKeeps, RemoveKeeps, GrantKeeps, InviteKeeps,
     CreateAccountKeeps, AcceptKeeps, ExpireKeeps DEF Commit
<1>2. CASE UNCHANGED vars
  <2>1. UNCHANGED tables /\ request' = request
    BY <1>2 DEF vars, tables
  <2>2. RequestsAreReady'
    BY <2>1 DEF tables, IInv, RequestsAreReady, Ready, Made
  <2> QED  BY <2>1, <2>2, TablesStand DEF IInv, TypeOK
<1> QED  BY <1>1, <1>2, BeginKeeps, AbandonKeeps, GrantsChange, ArchivesChange, RevokeKeeps
            DEF Next

THEOREM Invariance == Spec => []IInv
BY InitIsInductive, NextKeeps, PTL DEF Spec

\* Members, invitations, grants and the requests in flight are well formed in
\* every reachable state (MembershipService, DelegationService).
THEOREM Typing == Spec => []TypeOK
<1>1. IInv => TypeOK
  BY DEF IInv
<1> QED  BY <1>1, Invariance, PTL

\* What a transaction supersedes is all that the partial unique indexes would
\* refuse it: an address and a diary have one live invitation, a person one
\* membership (invite, inviteProvider, inviteDelegate, claimInvitation).
THEOREM NothingIsRefusedByAnIndex == Spec => []IndexesNeverRefuse
<1>1. IInv => IndexesNeverRefuse
  BY DEF IInv, OneLiveLinkEach, OneMembershipEach, IndexesNeverRefuse
<1> QED  BY <1>1, Invariance, PTL

----------------------------------------------------------------------------
(* What an accepted invitation delivers.                                   *)

LEMMA OnlyAcceptingAccepts ==
    ASSUME IInv, [Next]_vars, NEW i \in Invitations,
           invitation[i].status # "ACCEPTED", invitation'[i].status = "ACCEPTED"
    PROVE  \E c \in Clients, m \in Members :
               CommitAccept(c, m) /\ i = request[c].invitation
<1>1. invitation' # invitation
  OBVIOUS
<1>2. CASE \E c \in Clients : Begin(c) \/ Abandon(c)
  <2>1. invitation' = invitation
    BY <1>2, BeginStarts DEF Start, Abandon, tables
  <2> QED  BY <1>1, <2>1
<1>3. ASSUME NEW c \in Clients, Commit(c)
      PROVE  \E m \in Members : CommitAccept(c, m) /\ i = request[c].invitation
  <2>1. CASE \/ CommitChangeRole(c) \/ CommitLink(c) \/ CommitRemove(c) \/ CommitGrant(c)
             \/ CreateAccount(c)
    BY <1>1, <2>1 DEF CommitChangeRole, CommitLink, CommitRemove, CommitGrant, CreateAccount
  <2>2. ASSUME NEW j \in Invitations, CommitInvite(c, j) PROVE FALSE
    <3>1. CASE i = j
      BY <2>2, <3>1, InviteChanges, StaffInvitationIs
    <3>2. CASE i # j
      BY <2>2, <3>2, InviteChanges
    <3> QED  BY <3>1, <3>2
  <2>3. ASSUME NEW m \in Members, CommitAccept(c, m) PROVE i = request[c].invitation
    BY <2>3, AcceptChanges
  <2>4. CASE CommitExpire(c)
    <3> DEFINE j == request[c].invitation
    <3>1. j \in Invitations
      BY <2>4 DEF CommitExpire, IInv, RequestsAreReady, Ready, LinkOps
    <3>2. invitation' = [invitation EXCEPT ![j] = [@ EXCEPT !.status = "EXPIRED"]]
      BY <2>4 DEF CommitExpire
    <3>3. invitation[j] \in InvitationRow
      BY <3>1 DEF IInv, TypeOK
    <3>4. [invitation[j] EXCEPT !.status = "EXPIRED"].status = "EXPIRED"
      BY <3>3 DEF InvitationRow
    <3> HIDE DEF j
    <3> QED  BY <3>1, <3>2, <3>4 DEF IInv, TypeOK
  <2> QED  BY <1>3, <2>1, <2>2, <2>3, <2>4 DEF Commit
<1>4. CASE \E d \in Diaries, m \in Members : RevokeGrant(d, m)
  BY <1>1, <1>4 DEF RevokeGrant
<1>5. CASE \E d \in Diaries : ArchiveOrRestore(d)
  BY <1>1, <1>5 DEF ArchiveOrRestore
<1>6. ASSUME NEW j \in Invitations, RevokeInvitation(j) \/ Lapse(j) PROVE FALSE
  <2>1. PICK new \in {[invitation[j] EXCEPT !.status = "REVOKED"],
                      [invitation[j] EXCEPT !.lapsed = TRUE]} :
           invitation' = [invitation EXCEPT ![j] = new]
    BY <1>6 DEF RevokeInvitation, Lapse
  <2>2. invitation[j] \in InvitationRow /\ Pending(j)
    BY <1>6 DEF IInv, TypeOK, RevokeInvitation, Lapse
  <2>3. new.status \in {"REVOKED", "PENDING"}
    BY <2>2 DEF InvitationRow, Pending
  <2> QED  BY <2>1, <2>3 DEF IInv, TypeOK
<1>7. CASE UNCHANGED vars
  BY <1>1, <1>7 DEF vars
<1> QED  BY <1>2, <1>3, <1>4, <1>5, <1>6, <1>7 DEF Next

LEMMA AcceptingDelivers ==
    ASSUME IInv, NEW c \in Clients, NEW m \in Members, CommitAccept(c, m)
    PROVE  LET row == invitation[request[c].invitation]
           IN  /\ Exists(m)' /\ member'[m].user = row.user /\ member'[m].role = row.role
               /\ row.diary # None => member'[m].diary = row.diary /\ row.diary \notin archived
               /\ row.delegate # None =>
                      <<row.delegate, m>> \in grants' /\ row.delegate \notin archived
<1> DEFINE row == invitation[request[c].invitation]
<1>1. /\ Exists(m)' /\ member'[m].user = row.user /\ member'[m].role = row.role
      /\ row.diary # None => member'[m].diary = row.diary
  BY AcceptChanges DEF Exists
<1>2. row.diary \notin archived /\ row.delegate \notin archived
  BY DEF CommitAccept, PromiseStands
<1>3. row.delegate # None => <<row.delegate, m>> \in grants'
  BY DEF CommitAccept
<1> QED  BY <1>1, <1>2, <1>3

\* However long ago the link was found valid, whoever accepts gets the
\* membership, the role, the login and the diary it promised, on live diaries
\* (claimInvitation).
THEOREM AcceptedLinksDeliver == Spec => LinksDeliver
<1>1. ASSUME IInv, [Next]_vars, NEW i \in Invitations,
             invitation[i].status # "ACCEPTED", invitation'[i].status = "ACCEPTED"
      PROVE  \E m \in Members :
                /\ Exists(m)' /\ member'[m].user = invitation[i].user
                /\ member'[m].role = invitation[i].role
                /\ invitation[i].diary # None =>
                       /\ member'[m].diary = invitation[i].diary
                       /\ invitation[i].diary \notin archived
                /\ invitation[i].delegate # None =>
                       /\ <<invitation[i].delegate, m>> \in grants'
                       /\ invitation[i].delegate \notin archived
  <2>1. PICK c \in Clients, m \in Members : CommitAccept(c, m) /\ i = request[c].invitation
    BY <1>1, OnlyAcceptingAccepts
  <2> QED  BY <1>1, <2>1, AcceptingDelivers
<1>2. IInv /\ [Next]_vars =>
         [\A i \in Invitations :
             LET row == invitation[i]
             IN  row.status # "ACCEPTED" /\ invitation'[i].status = "ACCEPTED" =>
                     \E m \in Members :
                         /\ Exists(m)' /\ member'[m].user = row.user /\ member'[m].role = row.role
                         /\ row.diary # None =>
                                member'[m].diary = row.diary /\ row.diary \notin archived
                         /\ row.delegate # None =>
                                <<row.delegate, m>> \in grants' /\ row.delegate \notin archived]_vars
  BY <1>1
<1> QED  BY <1>2, Invariance, PTL DEF Spec, LinksDeliver

----------------------------------------------------------------------------
(* Handlers that do not undo what another one has checked.                 *)

ChecksHold == \A c \in Clients : \A q \in Request : request[c] = q => Checked(q)

SerialInv == ChecksHold /\ LinksDemoteNobody

LEMMA InitIsSerial == Init => SerialInv
<1> SUFFICES ASSUME Init PROVE SerialInv
  OBVIOUS
<1>1. Checked(Idle)
  BY Blanks DEF Checked
<1>2. ChecksHold
  BY <1>1 DEF ChecksHold, Init
<1>3. ASSUME NEW i \in Invitations, Pending(i), IsMember(invitation[i].user) PROVE FALSE
  <2>1. CASE \E u \in Users, m \in Members : InitCreated(u, m)
    BY <1>3, <2>1, Blanks DEF InitCreated, Pending
  <2>2. CASE \E u \in Users, j \in Invitations : InitProvisioned(u, j)
    BY <1>3, <2>2, Blanks DEF InitProvisioned, IsMember, Exists
  <2> QED  BY <2>1, <2>2 DEF Init
<1> QED  BY <1>2, <1>3 DEF SerialInv, LinksDemoteNobody

\* What a handler checks is about the tables alone.
LEMMA ChecksAreAboutTables ==
    ASSUME UNCHANGED tables, NEW q, Checked(q)
    PROVE  Checked(q)'
<1> USE DEF tables
<1>1. \A m \in Members : Exists(m)' = Exists(m) /\ Owns(m)' = Owns(m)
  BY DEF Exists, Owns
<1>2. q.op = "role" => Checked(q)'
  BY DEF Checked, MayChangeRole, OtherOwner, Owns, Exists
<1>3. q.op = "link" => Checked(q)'
  BY DEF Checked, MayLink, Holder, Exists
<1>4. q.op = "remove" => Checked(q)'
  BY DEF Checked, MayRemove, OtherOwner, Owns, Exists
<1>5. q.op = "grant" => Checked(q)'
  BY DEF Checked, MayGrant, CanReceiveDiary, Exists
<1>6. q.op = "invite" => Checked(q)'
  BY DEF Checked, MayInvite, IsMember, Holder, Exists
<1>7. q.op = "resend" => Checked(q)'
  BY DEF Checked, MayResend, OwnerInvitations, Made
<1>8. q.op \in LinkOps => Checked(q)'
  BY DEF Checked, Pending, LinkOps
<1>9. q.op \notin {"role", "link", "remove", "grant", "invite", "resend"} \cup LinkOps
         => Checked(q)'
  BY DEF Checked, LinkOps
<1> QED  BY <1>2, <1>3, <1>4, <1>5, <1>6, <1>7, <1>8, <1>9 DEF LinkOps

\* Whoever moved on has checked or has nothing left to check.
LEMMA ChecksKept ==
    ASSUME IInv, Undisturbed,
           \A c \in Clients : request'[c] # request[c] =>
               \A q \in Request : request'[c] = q => Checked(q)'
    PROVE  ChecksHold'
<1> SUFFICES ASSUME NEW c \in Clients, NEW q \in Request, request'[c] = q PROVE Checked(q)'
  BY DEF ChecksHold
<1> QED  BY DEF Undisturbed

LEMMA FinishedIsUnchecked ==
    ASSUME IInv, NEW c \in Clients, Finish(c)
    PROVE  \A d \in Clients : request'[d] # request[d] =>
               \A q \in Request : request'[d] = q => Checked(q)'
<1>1. request'[c] = Idle /\ \A d \in Clients \ {c} : request'[d] = request[d]
  BY DEF Finish, IInv, TypeOK
<1>2. Checked(Idle)'
  BY Blanks DEF Checked
<1>3. \A q \in Request : q = Idle => Checked(q)'
  BY <1>2
<1> QED  BY <1>1, <1>3

LEMMA BegunIsChecked ==
    ASSUME IInv, NEW c \in Clients, Begin(c)
    PROVE  \A d \in Clients : request'[d] # request[d] =>
               \A q \in Request : request'[d] = q => Checked(q)'
<1>1. PICK q \in Request : Start(c, q) /\ Checked(q)
  BY BeginStarts
<1>2. request'[c] = q /\ \A d \in Clients \ {c} : request'[d] = request[d]
  BY <1>1 DEF Start, IInv, TypeOK
<1>3. Checked(q)'
  BY <1>1, ChecksAreAboutTables DEF Start
<1> QED  BY <1>2, <1>3

LEMMA SerialChecks ==
    ASSUME IInv, ChecksHold, Next, Undisturbed PROVE ChecksHold'
<1>1. ASSUME NEW c \in Clients, Begin(c) PROVE ChecksHold'
  BY <1>1, BegunIsChecked, ChecksKept
<1>2. ASSUME NEW c \in Clients, Finish(c) PROVE ChecksHold'
  BY <1>2, FinishedIsUnchecked, ChecksKept
<1>3. ASSUME request' = request PROVE ChecksHold'
  BY <1>3, ChecksKept
<1>4. ASSUME NEW c \in Clients, CreateAccount(c) PROVE ChecksHold'
  <2> DEFINE i == request[c].invitation
             q == [request[c] EXCEPT !.op = "accept"]
  <2>1. /\ request' = [request EXCEPT ![c] = q] /\ request[c] \in Request
        /\ request[c].op = "register" /\ invitation' = invitation
    BY <1>4 DEF CreateAccount, IInv, TypeOK
  <2>2. q \in Request /\ q.op = "accept" /\ q.invitation = i
    BY <2>1 DEF Request
  <2>3. Pending(i)
    BY <2>1 DEF ChecksHold, Checked
  <2> HIDE DEF q
  <2>4. request'[c] = q /\ \A d \in Clients \ {c} : request'[d] = request[d]
    BY <2>1 DEF IInv, TypeOK
  <2>5. ASSUME NEW p \in Request, p = q PROVE Checked(p)'
    BY <2>1, <2>2, <2>3, <2>5 DEF Checked, Pending
  <2> QED  BY <2>4, <2>5, ChecksKept
<1>5. ASSUME NEW c \in Clients, Commit(c) PROVE ChecksHold'
  BY <1>2, <1>4, <1>5 DEF Commit, CommitChangeRole, CommitLink, CommitRemove, CommitGrant,
     CommitInvite, CommitAccept, CommitExpire
<1> QED  BY <1>1, <1>2, <1>3, <1>5 DEF Next, Abandon, RevokeGrant, ArchiveOrRestore,
            RevokeInvitation, Lapse

\* What a commit may rely on is what its handler checked.
LEMMA StillChecked ==
    ASSUME IInv, ChecksHold, NEW c \in Clients
    PROVE  /\ request[c].op = "role" => MayChangeRole(request[c].member, request[c].to)
           /\ request[c].op = "remove" => MayRemove(request[c].member)
           /\ request[c].op = "invite" => ~IsMember(request[c].row.user)
           /\ request[c].op = "resend" => request[c].row.role = "OWNER"
           /\ request[c].op = "accept" => Pending(request[c].invitation)
<1>1. Checked(request[c])
  BY DEF ChecksHold, IInv, TypeOK
<1>2. request[c].op = "invite" => ~IsMember(request[c].row.user)
  BY <1>1 DEF Checked, MayInvite
<1>3. request[c].op = "resend" => request[c].row.role = "OWNER"
  <2> SUFFICES ASSUME request[c].op = "resend" PROVE request[c].row.role = "OWNER"
    OBVIOUS
  <2>1. MayResend(request[c].row)
    BY <1>1 DEF Checked
  <2>2. PICK i \in OwnerInvitations :
           request[c].row = NewInvitation(invitation[i].user, "OWNER", None, None)
    BY <2>1 DEF MayResend
  <2> QED  BY <2>2 DEF NewInvitation
<1> QED  BY <1>1, <1>2, <1>3 DEF Checked

\* Nobody becomes a member and no link becomes live.
LEMMA NobodyIsDemoted ==
    ASSUME LinksDemoteNobody,
           \A i \in Invitations :
               Pending(i)' => /\ Pending(i) /\ invitation'[i].user = invitation[i].user
                              /\ invitation'[i].role = invitation[i].role,
           \A m \in Members : Exists(m)' => Exists(m) /\ member'[m].user = member[m].user
    PROVE  LinksDemoteNobody'
<1> SUFFICES ASSUME NEW i \in Invitations, Pending(i)',
                    NEW m \in Members, Exists(m)', member'[m].user = invitation'[i].user
             PROVE  invitation'[i].role = "OWNER"
  BY DEF LinksDemoteNobody, IsMember
<1>1. IsMember(invitation[i].user)
  BY DEF IsMember
<1> QED  BY <1>1 DEF LinksDemoteNobody

LEMMA SerialLinks ==
    ASSUME IInv, SerialInv, Next PROVE LinksDemoteNobody'
<1> USE DEF SerialInv
<1>1. ASSUME UNCHANGED <<member, invitation>> PROVE LinksDemoteNobody'
  BY <1>1, NobodyIsDemoted DEF Pending, Exists
<1>2. ASSUME NEW c \in Clients, CommitChangeRole(c) \/ CommitLink(c) \/ CommitRemove(c)
      PROVE  LinksDemoteNobody'
  <2> DEFINE m == request[c].member
  <2>1. /\ invitation' = invitation /\ m \in Members /\ member[m] \in MemberRow
        /\ request[c] \in Request
    BY <1>2 DEF CommitChangeRole, CommitLink, CommitRemove, IInv, RequestsAreReady, Ready, TypeOK
  <2>2. PICK new \in {[member[m] EXCEPT !.role = request[c].to],
                      [member[m] EXCEPT !.diary = request[c].diary], DeletedMember} :
           /\ member' = [member EXCEPT ![m] = new]
           /\ new # DeletedMember => Exists(m)
    BY <1>2 DEF CommitChangeRole, CommitLink, CommitRemove
  <2>3. new.status = "ACTIVE" => new.user = member[m].user /\ Exists(m)
    BY <2>1, <2>2, Blanks DEF MemberRow
  <2>4. \A n \in Members : Exists(n)' => Exists(n) /\ member'[n].user = member[n].user
    BY <2>2, <2>3 DEF Exists, IInv, TypeOK
  <2> QED  BY <2>1, <2>4, NobodyIsDemoted DEF Pending
<1>3. ASSUME NEW c \in Clients, NEW i \in Invitations, CommitInvite(c, i)
      PROVE  LinksDemoteNobody'
  <2>1. /\ member' = member /\ request[c].op \in {"invite", "resend"}
    BY <1>3 DEF CommitInvite
  <2>2. ~IsMember(request[c].row.user) \/ request[c].row.role = "OWNER"
    BY <2>1, StillChecked
  <2> SUFFICES ASSUME NEW j \in Invitations, Pending(j)',
                      NEW m \in Members, Exists(m), member[m].user = invitation'[j].user
               PROVE  invitation'[j].role = "OWNER"
    BY <2>1 DEF LinksDemoteNobody, IsMember, Exists
  <2>3. CASE j = i
    BY <1>3, <2>2, <2>3, InviteChanges DEF IsMember
  <2>4. CASE j # i
    BY <1>3, <2>4, InviteChanges DEF LinksDemoteNobody, IsMember
  <2> QED  BY <2>3, <2>4
<1>4. ASSUME NEW c \in Clients, NEW m \in Members, CommitAccept(c, m)
      PROVE  LinksDemoteNobody'
  <2>0. PICK i \in Invitations : i = request[c].invitation
    BY <1>4, AcceptChanges
  <2>1. /\ Pending(i)
        /\ \A n \in Members \ {m} : member'[n] = member[n]
        /\ member'[m].user = invitation[i].user
        /\ invitation'[i].status = "ACCEPTED"
        /\ \A j \in Invitations \ {i} : invitation'[j] = invitation[j]
    BY <1>4, <2>0, AcceptChanges, StillChecked
  <2> SUFFICES ASSUME NEW j \in Invitations, Pending(j)',
                      NEW n \in Members, Exists(n)', member'[n].user = invitation'[j].user
               PROVE  invitation'[j].role = "OWNER"
    BY DEF LinksDemoteNobody, IsMember
  <2>2. j # i /\ Pending(j) /\ invitation'[j] = invitation[j]
    BY <2>1 DEF Pending
  <2>3. n # m
    BY <2>1, <2>2 DEF IInv, OneLiveLinkEach
  <2> QED  BY <2>1, <2>2, <2>3 DEF LinksDemoteNobody, IsMember, Exists
<1>5. ASSUME NEW i \in Invitations, RevokeInvitation(i) \/ Lapse(i) PROVE LinksDemoteNobody'
  <2>1. PICK new \in {[invitation[i] EXCEPT !.status = "REVOKED"],
                      [invitation[i] EXCEPT !.lapsed = TRUE]} :
           invitation' = [invitation EXCEPT ![i] = new]
    BY <1>5 DEF RevokeInvitation, Lapse
  <2>2. invitation[i] \in InvitationRow /\ Pending(i) /\ member' = member
    BY <1>5 DEF IInv, TypeOK, RevokeInvitation, Lapse
  <2>3. new.user = invitation[i].user /\ new.role = invitation[i].role
    BY <2>2 DEF InvitationRow
  <2>4. \A j \in Invitations :
            Pending(j)' => /\ Pending(j) /\ invitation'[j].user = invitation[j].user
                           /\ invitation'[j].role = invitation[j].role
    BY <2>1, <2>2, <2>3 DEF Pending, IInv, TypeOK
  <2> QED  BY <2>2, <2>4, NobodyIsDemoted DEF Exists
<1>6. ASSUME NEW c \in Clients, CommitExpire(c) PROVE LinksDemoteNobody'
  <2> DEFINE i == request[c].invitation
             new == [invitation[i] EXCEPT !.status = "EXPIRED"]
  <2>1. i \in Invitations /\ invitation' = [invitation EXCEPT ![i] = new] /\ member' = member
    BY <1>6 DEF CommitExpire, IInv, RequestsAreReady, Ready, LinkOps
  <2>2. new.status = "EXPIRED"
    BY <2>1 DEF IInv, TypeOK, InvitationRow
  <2> HIDE DEF new, i
  <2>3. \A j \in Invitations : Pending(j)' => Pending(j) /\ invitation'[j] = invitation[j]
    BY <2>1, <2>2 DEF Pending, IInv, TypeOK
  <2> QED  BY <2>1, <2>3, NobodyIsDemoted DEF Exists
<1>7. ASSUME NEW c \in Clients, Begin(c) \/ Abandon(c) PROVE LinksDemoteNobody'
  BY <1>1, <1>7, BeginStarts DEF Start, Abandon, tables
<1>8. ASSUME NEW c \in Clients, CommitGrant(c) \/ CreateAccount(c) PROVE LinksDemoteNobody'
  BY <1>1, <1>8 DEF CommitGrant, CreateAccount
<1>9. ASSUME NEW c \in Clients, Commit(c) PROVE LinksDemoteNobody'
  BY <1>2, <1>3, <1>4, <1>6, <1>8, <1>9 DEF Commit
<1> QED  BY <1>1, <1>5, <1>7, <1>9 DEF Next, RevokeGrant, ArchiveOrRestore

LEMMA OwnersStay ==
    ASSUME IInv, SerialInv, Next, HasOwner PROVE HasOwner'
<1> USE DEF SerialInv
<1>1. ASSUME UNCHANGED member PROVE HasOwner'
  BY <1>1 DEF HasOwner, Owns, Exists
<1>2. ASSUME NEW m \in Members, \A n \in Members \ {m} : member'[n] = member[n],
             Owns(m) => OtherOwner(m) \/ Owns(m)'
      PROVE  HasOwner'
  BY <1>2 DEF HasOwner, OtherOwner, Owns, Exists
<1>3. ASSUME NEW c \in Clients, CommitChangeRole(c) PROVE HasOwner'
  <2>0. PICK m \in Members : m = request[c].member
    BY <1>3 DEF CommitChangeRole, IInv, RequestsAreReady, Ready
  <2> DEFINE new == [member[m] EXCEPT !.role = request[c].to]
  <2>1. Exists(m) /\ member' = [member EXCEPT ![m] = new] /\ request[c].op = "role"
    BY <1>3, <2>0 DEF CommitChangeRole
  <2>2. new.role = request[c].to /\ new.status = "ACTIVE"
    BY <2>1 DEF Exists, IInv, TypeOK, MemberRow
  <2>3. MayChangeRole(m, request[c].to)
    BY <2>0, <2>1, StillChecked
  <2> HIDE DEF new
  <2>4. member'[m] = new /\ \A n \in Members \ {m} : member'[n] = member[n]
    BY <2>1 DEF IInv, TypeOK
  <2>5. Owns(m) => OtherOwner(m) \/ Owns(m)'
    BY <2>2, <2>3, <2>4 DEF MayChangeRole, Owns, Exists
  <2> QED  BY <1>2, <2>4, <2>5
<1>4. ASSUME NEW c \in Clients, CommitLink(c) PROVE HasOwner'
  <2>0. PICK m \in Members : m = request[c].member
    BY <1>4 DEF CommitLink, IInv, RequestsAreReady, Ready
  <2> DEFINE new == [member[m] EXCEPT !.diary = request[c].diary]
  <2>1. member' = [member EXCEPT ![m] = new]
    BY <1>4, <2>0 DEF CommitLink
  <2>2. new.role = member[m].role /\ new.status = member[m].status
    BY <2>1 DEF IInv, TypeOK, MemberRow
  <2> HIDE DEF new
  <2>3. member'[m] = new /\ \A n \in Members \ {m} : member'[n] = member[n]
    BY <2>1 DEF IInv, TypeOK
  <2>4. Owns(m) => Owns(m)'
    BY <2>2, <2>3 DEF Owns, Exists
  <2> QED  BY <1>2, <2>3, <2>4
<1>5. ASSUME NEW c \in Clients, CommitRemove(c) PROVE HasOwner'
  <2> DEFINE m == request[c].member
  <2>1. /\ m \in Members /\ member' = [member EXCEPT ![m] = DeletedMember]
        /\ request[c].op = "remove"
    BY <1>5 DEF CommitRemove, IInv, RequestsAreReady, Ready
  <2>2. MayRemove(m)
    BY <2>1, StillChecked
  <2>3. \A n \in Members \ {m} : member'[n] = member[n]
    BY <2>1 DEF IInv, TypeOK
  <2>4. Owns(m) => OtherOwner(m)
    BY <2>2 DEF MayRemove
  <2> QED  BY <1>2, <2>1, <2>3, <2>4
<1>6. ASSUME NEW c \in Clients, NEW m \in Members, CommitAccept(c, m) PROVE HasOwner'
  <2> DEFINE i == request[c].invitation
  <2>1. /\ i \in Invitations /\ Pending(i)
        /\ \A n \in Members \ {m} : member'[n] = member[n]
        /\ member'[m].status = "ACTIVE" /\ member'[m].role = invitation[i].role
        /\ Exists(m) => member[m].user = invitation[i].user
    BY <1>6, AcceptChanges, StillChecked
  <2> HIDE DEF i
  <2>2. Owns(m) => invitation[i].role = "OWNER"
    BY <2>1 DEF Owns, LinksDemoteNobody, IsMember
  <2> QED  BY <1>2, <2>1, <2>2 DEF Owns, Exists
<1>7. ASSUME NEW c \in Clients, Begin(c) \/ Abandon(c) PROVE HasOwner'
  BY <1>1, <1>7, BeginStarts DEF Start, Abandon, tables
<1>8. ASSUME NEW c \in Clients, Commit(c) PROVE HasOwner'
  BY <1>1, <1>3, <1>4, <1>5, <1>6, <1>8 DEF Commit, CommitGrant, CommitInvite, CreateAccount,
     CommitExpire
<1> QED  BY <1>1, <1>7, <1>8 DEF Next, RevokeGrant, ArchiveOrRestore, RevokeInvitation, Lapse

LEMMA SerialStep == IInv /\ SerialInv /\ [SerialNext]_vars => SerialInv'
<1> SUFFICES ASSUME IInv, SerialInv, [SerialNext]_vars PROVE SerialInv'
  OBVIOUS
<1>1. CASE SerialNext
  BY <1>1, SerialChecks, SerialLinks DEF SerialNext, SerialInv
<1>2. CASE UNCHANGED vars
  <2>1. UNCHANGED tables /\ request' = request
    BY <1>2 DEF vars, tables
  <2>2. ChecksHold'
    BY <2>1, ChecksAreAboutTables DEF SerialInv, ChecksHold
  <2>3. LinksDemoteNobody'
    BY <2>1, NobodyIsDemoted DEF SerialInv, tables, Pending, Exists
  <2> QED  BY <2>2, <2>3 DEF SerialInv
<1> QED  BY <1>1, <1>2

LEMMA SerialIsNext == [SerialNext]_vars => [Next]_vars
BY DEF SerialNext

THEOREM SerialInvariance == SerialSpec => [](IInv /\ SerialInv)
BY InitIsInductive, InitIsSerial, NextKeeps, SerialStep, SerialIsNext, PTL DEF SerialSpec

\* A live link never waits to take a role away from somebody who has joined in
\* the meantime, when handlers do not undo each other's checks (invite).
THEOREM NobodyIsDemotedByALink == SerialSpec => []LinksDemoteNobody
<1>1. SerialInv => LinksDemoteNobody
  BY DEF SerialInv
<1> QED  BY <1>1, SerialInvariance, PTL

\* An organization that has an owner keeps one, by whichever request somebody
\* leaves, is demoted or accepts another role (assertNotLastOwner).
THEOREM AnOwnerStays == SerialSpec => TenantKeepsAnOwner
<1>1. IInv /\ SerialInv /\ [SerialNext]_vars => [HasOwner => HasOwner']_vars
  BY OwnersStay DEF SerialNext
<1> QED  BY <1>1, SerialInvariance, PTL DEF SerialSpec, TenantKeepsAnOwner

=============================================================================
