------------------------------ MODULE Friends ------------------------------
(* Friendships, asks, blocks and invitations to tables                      *)
(* (store/friends.go, server/handlers_friends.go, the visibility rule of    *)
(* server/handlers_profile.go).                                             *)
(*                                                                          *)
(* The four SQL tables are sets of rows.  Every write of the store is one   *)
(* SQLite transaction and therefore one action; what is not inside a        *)
(* transaction are the looks RequestFriend and handleInvite take            *)
(* beforehand, so those two are a request that has looked (a busy worker)   *)
(* and, later, its transaction.  Any number of other requests commit in     *)
(* between.                                                                 *)

CONSTANTS
    Accounts,      \* the profiles of the instance
    Tables,        \* the tables somebody can be invited to
    InviteIds,     \* the ids of invitations (bounds how many can be waiting)
    FriendWorkers  \* the requests that can be past their look at one time

VARIABLES
    friends,     \* table friends: pairs <<account_id, friend_id>>
    asks,        \* table friend_requests: pairs <<from_id, to_id>>
    blocks,      \* table friend_blocks: pairs <<account_id, blocked_id>>
    invites,     \* table table_invites
    worker,      \* what each request in flight is about to write
    lateBlock,   \* history: pairs blocked while such a request was in flight
    lateFriends  \* history: pairs befriended while an ask was in flight

rows == <<friends, asks, blocks, invites>>
friendVars == <<friends, asks, blocks, invites, worker, lateBlock, lateFriends>>

InviteRow == [id : InviteIds, from : Accounts, to : Accounts,
              table : Tables, expired : BOOLEAN]
NoRequest == [op |-> "idle"]
Looking(a, b) == [op |-> "look", from |-> a, to |-> b]
AskFriend(a, b) == [op |-> "ask", from |-> a, to |-> b]
Invite(a, b, t) == [op |-> "invite", from |-> a, to |-> b, table |-> t]

Requests == {Looking(a, b) : a, b \in Accounts}
            \cup {AskFriend(a, b) : a, b \in Accounts}
            \cup {Invite(a, b, t) : a, b \in Accounts, t \in Tables}

FriendsTypeOK ==
    /\ friends \subseteq Accounts \X Accounts
    /\ asks \subseteq Accounts \X Accounts
    /\ blocks \subseteq Accounts \X Accounts
    /\ invites \subseteq InviteRow
    /\ worker \in [FriendWorkers -> Requests \cup {NoRequest}]
    /\ lateBlock \subseteq Accounts \X Accounts
    /\ lateFriends \subseteq Accounts \X Accounts

FriendsInit ==
    /\ friends = {} /\ asks = {} /\ blocks = {} /\ invites = {}
    /\ worker = [w \in FriendWorkers |-> NoRequest]
    /\ lateBlock = {} /\ lateFriends = {}

----------------------------------------------------------------------------
(* What the store answers.                                                  *)

\* Both rows a friendship, an ask or a block between a and b can have.
BothWays(a, b) == {<<a, b>>, <<b, a>>}

AreFriends(a, b) == <<a, b>> \in friends
IsBlocked(a, b) == blocks \cap BothWays(a, b) # {}
Incoming(a) == {b \in Accounts : <<b, a>> \in asks}
Outgoing(a) == {b \in Accounts : <<a, b>> \in asks}
Blocked(a) == {b \in Accounts : <<a, b>> \in blocks}

\* handleFriends: everything the friends screen lists, read in one go (the
\* code reads the four tables one after another).
FriendsScreen(a) ==
    [friends |-> {b \in Accounts : AreFriends(a, b)},
     incoming |-> Incoming(a), outgoing |-> Outgoing(a), blocked |-> Blocked(a),
     invites |-> {i \in invites : i.to = a /\ ~i.expired}]

\* handleFriendSearch: who a search can find, and the relation shown beside
\* the name.  The maps are filled in this order, so the last one wins.
SearchAccounts(a) == {b \in Accounts \ {a} : ~IsBlocked(a, b)}
SearchRelation(a, b) ==
    IF b \in Outgoing(a) THEN "pending_out"
    ELSE IF b \in Incoming(a) THEN "pending_in"
    ELSE IF AreFriends(a, b) THEN "friend" ELSE "none"

\* relationTo, the relation on the profile page: the first hit wins.
RelationTo(a, b) ==
    IF AreFriends(a, b) THEN "friend"
    ELSE IF b \in Incoming(a) THEN "pending_in"
    ELSE IF b \in Outgoing(a) THEN "pending_out" ELSE "none"

\* canSee for a viewer who is signed in.
CanSee(viewer, owner, value) ==
    \/ viewer = owner
    \/ /\ ~IsBlocked(viewer, owner)
       /\ \/ value = "public"
          \/ value = "friends" /\ AreFriends(viewer, owner)

\* handleFriendsPlaying: the profiles listed for a, given who sits where.
FriendsPlaying(a, at) == {b \in Accounts : AreFriends(a, b) /\ at[b] # {}}

----------------------------------------------------------------------------
(* The requests.                                                            *)

\* Request w is past its look and about to write a row between a and b.
InFlight(w, a, b) ==
    /\ worker[w] # NoRequest
    /\ <<worker[w].from, worker[w].to>> \in BothWays(a, b)

\* RequestFriend, the first look: not oneself, no block either way.
LookToAsk(w, a, b) ==
    /\ worker[w] = NoRequest
    /\ a # b
    /\ ~IsBlocked(a, b)
    /\ worker' = [worker EXCEPT ![w] = Looking(a, b)]
    /\ UNCHANGED <<rows, lateBlock, lateFriends>>

\* RequestFriend, the second look: not friends.
LookForFriend(w) ==
    LET a == worker[w].from  b == worker[w].to IN
    /\ worker[w].op = "look"
    /\ ~AreFriends(a, b)
    /\ worker' = [worker EXCEPT ![w] = AskFriend(a, b)]
    /\ UNCHANGED <<rows, lateBlock, lateFriends>>

\* Mutant: only the account that answered gets its row.
BefriendOneWay(a, b) ==
    /\ friends' = friends \cup {<<a, b>>}
    /\ asks' = asks \ BothWays(a, b)

\* befriend: the friendship both ways, the asks of both gone.
Befriend(a, b) ==
    /\ friends' = friends \cup BothWays(a, b)
    /\ asks' = asks \ BothWays(a, b)

\* history: an ask of the pair that is in flight now can still be written.
RecordFriends(a, b, but) ==
    lateFriends' = IF \E w \in FriendWorkers \ but : InFlight(w, a, b) /\ worker[w].op = "ask"
                   THEN lateFriends \cup BothWays(a, b)
                   ELSE lateFriends \ BothWays(a, b)

\* Mutant: an ask is written without looking for the one it answers.
AskAnyway(w) ==
    LET a == worker[w].from  b == worker[w].to IN
    /\ worker[w].op = "ask"
    /\ asks' = asks \cup {<<a, b>>}
    /\ worker' = [worker EXCEPT ![w] = NoRequest]
    /\ UNCHANGED <<friends, blocks, invites, lateBlock, lateFriends>>

\* The transaction of RequestFriend: an ask that answers one makes friends.
RequestFriend(w) ==
    LET a == worker[w].from  b == worker[w].to IN
    /\ worker[w].op = "ask"
    /\ \/ /\ <<b, a>> \in asks
          /\ Befriend(a, b)
          /\ RecordFriends(a, b, {w})
       \/ /\ <<b, a>> \notin asks
          /\ asks' = asks \cup {<<a, b>>}
          /\ UNCHANGED <<friends, lateFriends>>
    /\ worker' = [worker EXCEPT ![w] = NoRequest]
    /\ UNCHANGED <<blocks, invites, lateBlock>>

\* handleFriendAnswer "accept": the ask must still be there; a block is not
\* looked for.
AcceptRequest(a, b) ==
    /\ <<b, a>> \in asks
    /\ Befriend(a, b)
    /\ RecordFriends(a, b, {})
    /\ UNCHANGED <<blocks, invites, worker, lateBlock>>

DeclineRequest(a, b) ==
    /\ asks' = asks \ {<<b, a>>}
    /\ UNCHANGED <<friends, blocks, invites, worker, lateBlock, lateFriends>>

\* history: a row between the two that is in flight now can still be written.
RecordBlock(a, b) ==
    lateBlock' = IF \E w \in FriendWorkers : InFlight(w, a, b)
                 THEN lateBlock \cup BothWays(a, b) ELSE lateBlock \ BothWays(a, b)

\* Mutant: blocking withdraws what the blocker asked and shared, not what
\* the other side did.
BlockOneSided(a, b) ==
    /\ a # b
    /\ blocks' = blocks \cup {<<a, b>>}
    /\ friends' = friends \ BothWays(a, b)
    /\ asks' = asks \ {<<a, b>>}
    /\ invites' = {i \in invites : <<i.from, i.to>> # <<a, b>>}
    /\ RecordBlock(a, b)
    /\ UNCHANGED <<worker, lateFriends>>

\* BlockAccount: the block, and everything between the two is gone.
BlockAccount(a, b) ==
    /\ a # b
    /\ blocks' = blocks \cup {<<a, b>>}
    /\ friends' = friends \ BothWays(a, b)
    /\ asks' = asks \ BothWays(a, b)
    /\ invites' = {i \in invites : <<i.from, i.to>> \notin BothWays(a, b)}
    /\ RecordBlock(a, b)
    /\ UNCHANGED <<worker, lateFriends>>

UnblockAccount(a, b) ==
    /\ blocks' = blocks \ {<<a, b>>}
    /\ UNCHANGED <<friends, asks, invites, worker, lateBlock, lateFriends>>

\* Unfriend: both rows, at once; invitations already sent stay.
Unfriend(a, b) ==
    /\ friends' = friends \ BothWays(a, b)
    /\ UNCHANGED <<asks, blocks, invites, worker, lateBlock, lateFriends>>

\* handleInvite up to the write: the sender sits at table t (whatever the
\* table answered) and the two are friends.
LookToInvite(w, a, b, t) ==
    /\ worker[w] = NoRequest
    /\ AreFriends(a, b)
    /\ worker' = [worker EXCEPT ![w] = Invite(a, b, t)]
    /\ UNCHANGED <<rows, lateBlock, lateFriends>>

\* Mutant: pressing the button twice adds a second invitation.
InviteAgain(w, id) ==
    LET r == worker[w] IN
    /\ r.op = "invite"
    /\ \A i \in invites : i.id # id
    /\ invites' = invites \cup {[id |-> id, from |-> r.from, to |-> r.to,
                                 table |-> r.table, expired |-> FALSE]}
    /\ worker' = [worker EXCEPT ![w] = NoRequest]
    /\ UNCHANGED <<friends, asks, blocks, lateBlock, lateFriends>>

\* CreateInvite: renews the one invitation of this sender to this table.  The
\* id is new: no waiting invitation has it.
CreateInvite(w, id) ==
    LET r == worker[w] IN
    /\ r.op = "invite"
    /\ \A i \in invites : i.id # id
    /\ invites' = {i \in invites : <<i.from, i.to, i.table>> # <<r.from, r.to, r.table>>}
                  \cup {[id |-> id, from |-> r.from, to |-> r.to,
                         table |-> r.table, expired |-> FALSE]}
    /\ worker' = [worker EXCEPT ![w] = NoRequest]
    /\ UNCHANGED <<friends, asks, blocks, lateBlock, lateFriends>>

\* The transaction fails (a busy database, a request given up) and is rolled
\* back, or the second look finds friends: the request is answered with an
\* error.
GiveUp(w) ==
    /\ worker[w] # NoRequest
    /\ worker' = [worker EXCEPT ![w] = NoRequest]
    /\ UNCHANGED <<rows, lateBlock, lateFriends>>

\* inviteLifetime passes for one invitation.
Expire(i) ==
    /\ ~i.expired
    /\ invites' = (invites \ {i}) \cup {[i EXCEPT !.expired = TRUE]}
    /\ UNCHANGED <<friends, asks, blocks, worker, lateBlock, lateFriends>>

\* Invites: reading anybody's list drops every invitation that has run out.
PurgeInvites ==
    /\ invites' = {i \in invites : ~i.expired}
    /\ UNCHANGED <<friends, asks, blocks, worker, lateBlock, lateFriends>>

\* handleInviteDismiss: only one's own invitation.
DeleteInvite(a, id) ==
    /\ invites' = {i \in invites : ~(i.id = id /\ i.to = a)}
    /\ UNCHANGED <<friends, asks, blocks, worker, lateBlock, lateFriends>>

FriendsNext ==
    \/ \E a, b \in Accounts :
          \/ AcceptRequest(a, b) \/ DeclineRequest(a, b)
          \/ BlockAccount(a, b) \/ UnblockAccount(a, b) \/ Unfriend(a, b)
          \/ \E w \in FriendWorkers : LookToAsk(w, a, b)
          \/ \E w \in FriendWorkers, t \in Tables : LookToInvite(w, a, b, t)
    \/ \E w \in FriendWorkers : LookForFriend(w) \/ RequestFriend(w) \/ GiveUp(w)
    \/ \E w \in FriendWorkers, id \in InviteIds : CreateInvite(w, id)
    \/ \E i \in invites : Expire(i)
    \/ PurgeInvites
    \/ \E a \in Accounts, id \in InviteIds : DeleteInvite(a, id)

FriendsSpec == FriendsInit /\ [][FriendsNext]_friendVars

----------------------------------------------------------------------------
(* Properties.                                                              *)

\* "BlockAccount stops every path between the two": while either has blocked
\* the other they are neither friends nor asking, no invitation of one waits
\* for the other, and no page of one leads to the other.  The one way round a
\* block is a request that had looked before it and writes after it.
BlockSeparates ==
    \A a, b \in Accounts :
        (a # b /\ IsBlocked(a, b) /\ <<a, b>> \notin lateBlock) =>
            /\ ~AreFriends(a, b)
            /\ <<a, b>> \notin asks
            /\ \A i \in invites : <<i.from, i.to>> \notin BothWays(a, b)
            /\ \A value \in {"public", "friends", "private"} : ~CanSee(a, b, value)
            /\ b \notin SearchAccounts(a) \cup FriendsPlaying(a, [c \in Accounts |-> Tables])
            /\ LET screen == FriendsScreen(a) IN
               b \notin screen.friends \cup screen.incoming \cup screen.outgoing

\* What the other's page has to say when mine says rel.
Mirror(rel) == CASE rel = "pending_in" -> "pending_out"
                 [] rel = "pending_out" -> "pending_in"
                 [] OTHER -> rel

\* The pages of two profiles tell one story: what one shows as a friend or as
\* an ask received, the other shows as a friend or as an ask sent, and the
\* search and the profile page agree.  The exception is an ask that was in
\* flight while the two became friends: it is written beside the friendship.
ScreensAgree ==
    \A a, b \in Accounts :
        (a # b /\ <<a, b>> \notin lateFriends) =>
            /\ RelationTo(b, a) = Mirror(RelationTo(a, b))
            /\ SearchRelation(a, b) = RelationTo(a, b)

\* Asking the same friend to the same table again renews the one invitation,
\* however the two requests overlap.
OneInvitation ==
    \A i, j \in invites :
        (i.from = j.from /\ i.to = j.to /\ i.table = j.table) => i = j
=============================================================================
