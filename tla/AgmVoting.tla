----------------------------- MODULE AgmVoting ------------------------------
(***************************************************************************)
(* Voting at an annual general meeting (backend/internal/agm/service.go):   *)
(* members vote on resolutions or hand their vote to a proxy.  CastVote and  *)
(* AssignProxy check what they read outside any transaction, then write; a   *)
(* vote's transaction recounts the votes it can see and overwrites the       *)
(* totals, and each request ends by recounting the quorum.                   *)
(*                                                                           *)
(* What the checks look for (a vote, a proxy, a closed resolution, a meeting *)
(* that is over) never goes away again, so checks that pass one after the    *)
(* other would all have passed at the first: they are one step.  An UPDATE   *)
(* and its COMMIT are one too, as the row lock keeps every other request out *)
(* in between.  One meeting, READ COMMITTED.                                 *)
(***************************************************************************)
EXTENDS Integers, FiniteSets

CONSTANTS Members,      \* trustees and residents who may ever join the scheme
          Resolutions,  \* of the meeting
          Requests      \* requests the server handles at one time

ASSUME MembersAssumption == IsFiniteSet(Members)

VARIABLES members,    \* scheme_memberships
          eligible,   \* total_eligible of the resolutions; 0 until the meeting is scheduled
          over,       \* whether the day of the meeting has passed
          proxies,    \* proxy_assignments
          votes,      \* agm_votes of each resolution, committed
          tally,      \* votes_for and votes_against of each resolution
          status,     \* of each resolution
          quorum,     \* quorum_present
          request     \* what each request is at, and what it has read

agm == <<members, eligible, over, proxies, votes, tally, status, quorum>>
vars == <<agm, request>>

VoteChoice == {"for", "against"}
Vote == [voter : Members, choice : VoteChoice]
Proxy == [from : Members, to : Members]

Idle == [step |-> "idle"]

Init == /\ members = {} /\ eligible = 0 /\ over = FALSE
        /\ proxies = {} /\ quorum = 0
        /\ votes = [s \in Resolutions |-> {}]
        /\ tally = [s \in Resolutions |-> [for |-> 0, against |-> 0]]
        /\ status = [s \in Resolutions |-> "open"]
        /\ request = [r \in Requests |-> Idle]

-----------------------------------------------------------------------------
JoinScheme(m) == /\ m \notin members
                 /\ members' = members \cup {m}
                 /\ UNCHANGED <<eligible, over, proxies, votes, tally, status, quorum, request>>

eligibleVoterCount == Cardinality(members)

\* total_eligible is counted now; who joins later votes without being in it.
ScheduleMeeting == /\ eligible = 0 /\ members # {}
                   /\ eligible' = eligibleVoterCount
                   /\ UNCHANGED <<members, over, proxies, votes, tally, status, quorum, request>>

MeetingDayPasses == /\ eligible > 0 /\ ~over
                    /\ over' = TRUE
                    /\ UNCHANGED <<members, eligible, proxies, votes, tally, status, quorum,
                                   request>>

-----------------------------------------------------------------------------
hasOutgoingProxyAssignment(m) == \E p \in proxies : p.from = m

\* Mutant: who holds a proxy may give theirs away.
NoIncoming(m) == FALSE

hasIncomingProxyAssignment(m) == \E p \in proxies : p.to = m

Voters(vs) == {v.voter : v \in vs}

\* Mutant: stops at a resolution without a vote.
userVotedThroughout(m) == \A s \in Resolutions : m \in Voters(votes[s])

userHasMeetingVote(m) == \E s \in Resolutions : m \in Voters(votes[s])

MeetingOpen == eligible > 0 /\ ~over

\* Mutant: speaks for a grantor who has voted.
SpeaksForAll(v, vs, ps) == {v.voter} \cup {p.from : p \in {q \in ps : q.to = v.voter}}

\* A vote speaks for its voter and for everyone who gave them a proxy and has not voted
\* after all.  Its weight is how many they are.
SpeaksFor(v, vs, ps) ==
  {v.voter} \cup {p.from : p \in {q \in ps : q.to = v.voter /\ q.from \notin Voters(vs)}}

\* The weights of the votes for a choice, added up.
Spoken(choice, vs, ps) ==
  UNION {{v} \X SpeaksFor(v, vs, ps) : v \in {u \in vs : u.choice = choice}}

CountFor(choice, vs, ps) == Cardinality(Spoken(choice, vs, ps))

calculateVoteTotals(vs, ps) ==
  [for |-> CountFor("for", vs, ps), against |-> CountFor("against", vs, ps)]

-----------------------------------------------------------------------------
(* CastVote. *)
\* Mutant: does not look at the resolution's status.
MayVoteWhenClosed(m, s) == /\ m \in members /\ MeetingOpen
                           /\ ~hasOutgoingProxyAssignment(m)
                           /\ m \notin Voters(votes[s])

MayVote(m, s) == /\ m \in members /\ MeetingOpen /\ status[s] = "open"
                 /\ ~hasOutgoingProxyAssignment(m)
                 /\ m \notin Voters(votes[s])

CheckVote(r, m, s, choice) ==
  /\ request[r] = Idle /\ MayVote(m, s)
  /\ request' = [request EXCEPT ![r] = [step |-> "checked", resolution |-> s,
                                        vote |-> [voter |-> m, choice |-> choice]]]
  /\ UNCHANGED agm

\* The proxies the vote will be weighed with.
ReadProxies(r) ==
  LET q == request[r]
  IN /\ q.step = "checked" /\ ~hasOutgoingProxyAssignment(q.vote.voter)
     /\ request' = [request EXCEPT ![r] = [step |-> "vote", resolution |-> q.resolution,
                                           vote |-> q.vote, proxies |-> proxies]]
     /\ UNCHANGED agm

\* UNIQUE (resolution_id, voter_user_id): waits for the same vote in another request's
\* transaction, and aborts on a committed one.
CreateAgmVote(r) ==
  LET q == request[r]
  IN /\ q.step = "vote"
     /\ q.vote.voter \notin Voters(votes[q.resolution])
     /\ \A o \in Requests : request[o].step = "count"
                              => \/ request[o].resolution # q.resolution
                                 \/ request[o].vote.voter # q.vote.voter
     /\ request' = [request EXCEPT ![r] =
                      [step |-> "count", vote |-> q.vote, resolution |-> q.resolution,
                       proxies |-> q.proxies, listed |-> votes[q.resolution] \cup {q.vote}]]
     /\ UNCHANGED agm

CommitVote(r) ==
  LET q == request[r]
      totals == calculateVoteTotals(q.listed, q.proxies)
  IN /\ q.step = "count"
     /\ votes' = [votes EXCEPT ![q.resolution] = @ \cup {q.vote}]
     /\ tally' = [tally EXCEPT ![q.resolution] = totals]
     /\ status' = [status EXCEPT ![q.resolution] =
                     IF totals.for + totals.against < eligible THEN @
                     ELSE IF totals.for > totals.against THEN "passed" ELSE "failed"]
     /\ request' = [request EXCEPT ![r] = [step |-> "proxies"]]
     /\ UNCHANGED <<members, eligible, over, proxies, quorum>>

-----------------------------------------------------------------------------
(* AssignProxy. *)
MayAssign(from, to) == /\ {from, to} \subseteq members /\ from # to /\ MeetingOpen
                       /\ ~hasOutgoingProxyAssignment(from)
                       /\ ~hasIncomingProxyAssignment(from)
                       /\ ~hasOutgoingProxyAssignment(to)
                       /\ ~userHasMeetingVote(from) /\ ~userHasMeetingVote(to)

CheckProxy(r, from, to) ==
  /\ request[r] = Idle /\ MayAssign(from, to)
  /\ request' = [request EXCEPT ![r] = [step |-> "assign", proxy |-> [from |-> from, to |-> to]]]
  /\ UNCHANGED agm

\* UNIQUE (meeting_id, grantor_user_id).
CreateProxyAssignment(r) ==
  LET q == request[r]
  IN /\ q.step = "assign" /\ ~hasOutgoingProxyAssignment(q.proxy.from)
     /\ proxies' = proxies \cup {q.proxy}
     /\ request' = [request EXCEPT ![r] = [step |-> "proxies"]]
     /\ UNCHANGED <<members, eligible, over, votes, tally, status, quorum>>

-----------------------------------------------------------------------------
(* recalculateQuorum, of both: grantors and voters, read one after the other.  The code
   lists the votes of each resolution in turn; at once can only count more of them.     *)
\* Mutant: takes who holds a proxy for present.
GrantorsAndHolders == {p.from : p \in proxies} \cup {p.to : p \in proxies}

Grantors == {p.from : p \in proxies}

ListProxyAssignments(r) ==
  /\ request[r].step = "proxies"
  /\ request' = [request EXCEPT ![r] = [step |-> "voters", present |-> Grantors]]
  /\ UNCHANGED agm

ListVoters(r) ==
  /\ request[r].step = "voters"
  /\ request' = [request EXCEPT ![r] =
                   [step |-> "quorum",
                    present |-> @.present \cup UNION {Voters(votes[s]) : s \in Resolutions}]]
  /\ UNCHANGED agm

UpdateAgmQuorumPresent(r) ==
  /\ request[r].step = "quorum"
  /\ quorum' = Cardinality(request[r].present)
  /\ request' = [request EXCEPT ![r] = Idle]
  /\ UNCHANGED <<members, eligible, over, proxies, votes, tally, status>>

\* A query error or a crash, wherever the request is: what it committed stays.
Fail(r) == /\ request[r] # Idle
           /\ request' = [request EXCEPT ![r] = Idle]
           /\ UNCHANGED agm

Next ==
  \/ \E m \in Members : JoinScheme(m)
  \/ ScheduleMeeting \/ MeetingDayPasses
  \/ \E r \in Requests :
       \/ \E m \in Members, s \in Resolutions, choice \in VoteChoice : CheckVote(r, m, s, choice)
       \/ \E from, to \in Members : CheckProxy(r, from, to)
       \/ ReadProxies(r) \/ CreateAgmVote(r) \/ CommitVote(r) \/ CreateProxyAssignment(r)
       \/ ListProxyAssignments(r) \/ ListVoters(r) \/ UpdateAgmQuorumPresent(r) \/ Fail(r)

Spec == Init /\ [][Next]_vars

-----------------------------------------------------------------------------
(* Types of the tables of the meeting. *)
TypeOK == /\ members \subseteq Members /\ eligible \in 0..Cardinality(members)
          /\ over \in BOOLEAN /\ quorum \in Nat
          /\ proxies \subseteq Proxy
          /\ votes \in [Resolutions -> SUBSET Vote]
          /\ tally \in [Resolutions -> [for : Nat, against : Nat]]
          /\ status \in [Resolutions -> {"open", "passed", "failed"}]

(* The totals a resolution shows are those its votes and proxies add up to, in every
   state between requests: AssignProxy never recounts, so its checks must keep every
   proxy it grants from changing a total that is already there.                      *)
TalliesAreCurrent ==
  \A s \in Resolutions : tally[s] = calculateVoteTotals(votes[s], proxies)

(* Nobody is silenced: while a resolution is open and the meeting is not over, someone
   whose weight is missing can still vote.  The checks of AssignProxy exclude a proxy of
   a proxy, so a resolution everyone has voted on, in person or not, has closed.         *)
NobodyIsSilenced ==
  MeetingOpen => \A s \in Resolutions :
                   status[s] = "open" => \E m \in Members : MayVote(m, s)

(* An outcome is final: once passed or failed a resolution does not change again, while
   requests come one after the other.  Two that count at one time may each close it.     *)
OutcomeStands == \A s \in Resolutions : status[s] # "open" => status'[s] = status[s]

(* No member weighs twice in a total, although a grantor may vote while the proxy is
   being assigned, and either request counts with the proxies it read before.        *)
EachMemberCountsOnce ==
  \A s \in Resolutions : tally[s].for + tally[s].against <= Cardinality(members)

(* The quorum shown never exceeds those who voted or gave a proxy: requests that
   overtake each other may leave it behind, but not ahead.                        *)
Participants == {p.from : p \in proxies} \cup UNION {Voters(votes[s]) : s \in Resolutions}

QuorumIsReal == quorum <= Cardinality(Participants)

(* backend/db/migrations/00006_agm.sql:45, "Grantor delegates their vote to grantee":
   who holds a proxy has not given theirs away.                                       *)
ProxyHoldersMayVote == \A p \in proxies : ~hasOutgoingProxyAssignment(p.to)
=============================================================================
