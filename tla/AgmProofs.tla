----------------------------- MODULE AgmProofs ------------------------------
(***************************************************************************)
(* Theorems about meetings of any number of members and resolutions.       *)
(* Those about Spec let any number of requests overlap; those about        *)
(* MeetingSpec that only hold one request at a time say so themselves.     *)
(***************************************************************************)
EXTENDS MCAgmVoting, FiniteSetTheorems, TLAPS

-----------------------------------------------------------------------------
(* The totals.  A vote and a member it speaks for make a pair; the totals  *)
(* count the pairs, and nobody is in two of them.                          *)
Pairs(vs, ps) == {x \in vs \X Members: x[2] \in SpeaksFor(x[1], vs, ps)}

DistinctVoters(vs) == \A u, v \in vs: u.voter = v.voter => u = v
DistinctGrantors(ps) == \A p, q \in ps: p.from = q.from => p = q

Total(vs, ps) == calculateVoteTotals(vs, ps).for + calculateVoteTotals(vs, ps).against

LEMMA TotalsCountPairs ==
  ASSUME NEW vs \in SUBSET Vote, NEW ps \in SUBSET Proxy
  PROVE  /\ IsFiniteSet(Pairs(vs, ps)) /\ Total(vs, ps) = Cardinality(Pairs(vs, ps))
         /\ calculateVoteTotals(vs, ps) \in [for: Nat, against: Nat]
<1>1. PICK f, a: f = Spoken("for", vs, ps) /\ a = Spoken("against", vs, ps)
  OBVIOUS
<1>2. \A v \in vs: SpeaksFor(v, vs, ps) \subseteq Members
  BY DEF SpeaksFor, Vote, Proxy
<1>3. ASSUME NEW c \in VoteChoice PROVE Spoken(c, vs, ps) = {x \in Pairs(vs, ps): x[1].choice = c}
  BY <1>2 DEF Spoken, Pairs
<1>4. f \cup a = Pairs(vs, ps) /\ f \cap a = {}
  <2>1. f = {x \in Pairs(vs, ps): x[1].choice = "for"} /\ a = {x \in Pairs(vs, ps): x[1].choice = "against"}
    BY <1>1, <1>3 DEF VoteChoice
  <2>2. \A x \in Pairs(vs, ps): x[1].choice \in {"for", "against"}
    BY DEF Pairs, Vote, VoteChoice
  <2> QED
    BY <2>1, <2>2
<1>5. IsFiniteSet(Pairs(vs, ps))
  <2>0. IsFiniteSet(VoteChoice)
    <3>1. IsFiniteSet({"for"} \cup {"against"})
      BY FS_Singleton, FS_AddElement
    <3> QED
      BY <3>1 DEF VoteChoice
  <2>1. IsFiniteSet(Members \X VoteChoice)
    BY <2>0, MembersAssumption, FS_Product
  <2>2. PICK g: g = [v \in Vote |-> <<v.voter, v.choice>>]
    OBVIOUS
  <2>3. g \in Injection(Vote, Members \X VoteChoice)
    BY <2>2 DEF Injection, IsInjective, Vote
  <2>4. IsFiniteSet(Vote)
    BY <2>1, <2>3, FS_Injection
  <2>5. IsFiniteSet(Vote \X Members)
    BY <2>4, MembersAssumption, FS_Product
  <2>6. Pairs(vs, ps) \in SUBSET (Vote \X Members)
    BY DEF Pairs
  <2> QED
    BY <2>5, <2>6, FS_Subset
<1>6. IsFiniteSet(f) /\ IsFiniteSet(a)
  BY <1>4, <1>5, FS_Subset
<1>7. Cardinality(f \cup a) = Cardinality(f) + Cardinality(a) - Cardinality(f \cap a)
  BY <1>6, FS_Union
<1>8. Cardinality(f \cap a) = 0
  BY <1>4, FS_EmptySet
<1>9. Cardinality(f) \in Nat /\ Cardinality(a) \in Nat
  BY <1>6, FS_CardinalityType
<1>10. Cardinality(Pairs(vs, ps)) = Cardinality(f) + Cardinality(a)
  <2>1. Cardinality(f \cup a) = Cardinality(f) + Cardinality(a)
    BY <1>7, <1>8, <1>9
  <2> QED
    BY <1>4, <2>1
<1>11. CountFor("for", vs, ps) = Cardinality(f) /\ CountFor("against", vs, ps) = Cardinality(a)
  BY <1>1 DEF CountFor
<1> QED
  BY <1>5, <1>9, <1>10, <1>11 DEF Total, calculateVoteTotals

(* One vote a voter and one proxy a grantor: nobody is spoken for twice.   *)
LEMMA TotalsAreBounded ==
  ASSUME NEW vs \in SUBSET Vote, NEW ps \in SUBSET Proxy, NEW ms \in SUBSET Members,
         DistinctVoters(vs), DistinctGrantors(ps), Voters(vs) \subseteq ms, {p.from: p \in ps} \subseteq ms
  PROVE  Total(vs, ps) <= Cardinality(ms)
<1>1. PICK f: f = [x \in Pairs(vs, ps) |-> x[2]]
  OBVIOUS
<1>2. \A x \in Pairs(vs, ps): x[2] \in ms
  BY DEF Pairs, SpeaksFor, Voters
<1>3. ASSUME NEW x \in Pairs(vs, ps), NEW y \in Pairs(vs, ps), x[2] = y[2] PROVE x = y
  <2>1. x[1] \in vs /\ y[1] \in vs /\ x = <<x[1], x[2]>> /\ y = <<y[1], y[2]>>
    BY DEF Pairs
  <2>2. x[2] \in SpeaksFor(x[1], vs, ps) /\ x[2] \in SpeaksFor(y[1], vs, ps)
    BY <1>3 DEF Pairs
  <2>3. CASE x[2] \in Voters(vs)
    <3>1. x[2] = x[1].voter /\ x[2] = y[1].voter
      BY <2>2, <2>3 DEF SpeaksFor
    <3> QED
      BY <1>3, <2>1, <3>1 DEF DistinctVoters
  <2>4. CASE x[2] \notin Voters(vs)
    <3>1. x[2] # x[1].voter /\ x[2] # y[1].voter
      BY <2>1, <2>4 DEF Voters
    <3>2. PICK p \in ps: p.from = x[2] /\ p.to = x[1].voter
      BY <2>2, <3>1 DEF SpeaksFor
    <3>3. PICK q \in ps: q.from = x[2] /\ q.to = y[1].voter
      BY <2>2, <3>1 DEF SpeaksFor
    <3>4. x[1].voter = y[1].voter
      BY <3>2, <3>3 DEF DistinctGrantors
    <3> QED
      BY <1>3, <2>1, <3>4 DEF DistinctVoters
  <2> QED
    BY <2>3, <2>4
<1>4. f \in Injection(Pairs(vs, ps), ms)
  BY <1>1, <1>2, <1>3 DEF Injection, IsInjective
<1>5. IsFiniteSet(ms)
  BY MembersAssumption, FS_Subset
<1> QED
  BY <1>4, <1>5, FS_Injection, TotalsCountPairs

(* When each member has voted or is spoken for, no weight is missing.      *)
LEMMA TotalsAreComplete ==
  ASSUME NEW vs \in SUBSET Vote, NEW ps \in SUBSET Proxy, NEW ms \in SUBSET Members,
         \A m \in ms: m \in Voters(vs) \/ \E p \in ps: p.from = m /\ p.to \in Voters(vs)
  PROVE  Cardinality(ms) <= Total(vs, ps)
<1>1. PICK spoken: spoken = {m \in Members: \E x \in Pairs(vs, ps): x[2] = m}
  OBVIOUS
<1>2. PICK f: f = [x \in Pairs(vs, ps) |-> x[2]]
  OBVIOUS
<1>3. f \in Surjection(Pairs(vs, ps), spoken)
  BY <1>1, <1>2 DEF Surjection, Pairs
<1>4. IsFiniteSet(spoken) /\ Cardinality(spoken) <= Total(vs, ps)
  BY <1>3, FS_Surjection, TotalsCountPairs
<1>5. ASSUME NEW m \in ms PROVE m \in spoken
  <2>1. CASE m \in Voters(vs)
    <3>1. PICK v \in vs: v.voter = m
      BY <2>1 DEF Voters
    <3>2. <<v, m>> \in Pairs(vs, ps)
      BY <3>1 DEF Pairs, SpeaksFor
    <3> QED
      BY <1>1, <3>2
  <2>2. CASE m \notin Voters(vs)
    <3>1. PICK p \in ps: p.from = m /\ p.to \in Voters(vs)
      BY <2>2
    <3>2. PICK v \in vs: v.voter = p.to
      BY <3>1 DEF Voters
    <3>3. m \in SpeaksFor(v, vs, ps)
      BY <2>2, <3>1, <3>2 DEF SpeaksFor
    <3>4. <<v, m>> \in Pairs(vs, ps)
      BY <3>3 DEF Pairs
    <3> QED
      BY <1>1, <3>4
  <2> QED
    BY <2>1, <2>2
<1>6. ms \in SUBSET spoken
  BY <1>5
<1>7. Cardinality(ms) <= Cardinality(spoken) /\ IsFiniteSet(ms)
  BY <1>4, <1>6, FS_Subset
<1>8. Cardinality(ms) \in Nat /\ Cardinality(spoken) \in Nat /\ Total(vs, ps) \in Nat
  BY <1>4, <1>7, FS_CardinalityType, TotalsCountPairs
<1> QED
  BY <1>4, <1>7, <1>8

(* A proxy between two members who have not voted changes no total.        *)
LEMMA ProxyChangesNothing ==
  ASSUME NEW vs \in SUBSET Vote, NEW ps \in SUBSET Proxy, NEW p \in Proxy, p.to \notin Voters(vs)
  PROVE  calculateVoteTotals(vs, ps \cup {p}) = calculateVoteTotals(vs, ps)
<1>1. \A v \in vs: SpeaksFor(v, vs, ps \cup {p}) = SpeaksFor(v, vs, ps)
  BY DEF SpeaksFor, Voters
<1>2. \A c \in VoteChoice: Spoken(c, vs, ps \cup {p}) = Spoken(c, vs, ps)
  BY <1>1 DEF Spoken
<1> QED
  BY <1>2 DEF calculateVoteTotals, CountFor, VoteChoice

-----------------------------------------------------------------------------
(* The invariant of every meeting, however its requests overlap.  A vote   *)
(* is counted with proxies that are still there, over votes of different   *)
(* voters; and who is counted as present has voted or given a proxy.       *)
Voting == {"checked", "vote", "count"}

RequestOK(q) ==
  \/ q.step \in {"idle", "proxies"}
  \/ q.step \in Voting /\ q.resolution \in Resolutions /\ q.vote \in Vote /\ q.vote.voter \in members
  \/ q.step = "assign" /\ q.proxy \in Proxy /\ {q.proxy.from, q.proxy.to} \subseteq members
  \/ q.step \in {"voters", "quorum"} /\ q.present \subseteq Participants

TablesOK ==
  /\ members \subseteq Members /\ eligible \in Nat /\ quorum \in Nat
  /\ proxies \subseteq Proxy /\ {p.from: p \in proxies} \subseteq members /\ {p.to: p \in proxies} \subseteq members
  /\ votes \in [Resolutions -> SUBSET Vote]
  /\ \A s \in Resolutions: Voters(votes[s]) \subseteq members
  /\ tally \in [Resolutions -> [for: Nat, against: Nat]]
  /\ status \in [Resolutions -> {"open", "passed", "failed"}]
  /\ DOMAIN request = Requests
  /\ \A r \in Requests: RequestOK(request[r])

Weighed(q) == q.step \in {"vote", "count"} => q.proxies \subseteq proxies

Listed(q) ==
  q.step = "count" => /\ q.listed \subseteq Vote /\ DistinctVoters(q.listed) /\ Voters(q.listed) \subseteq members
                      /\ q.vote.voter \notin Voters(votes[q.resolution])

Apart(q, o) ==
  q.step = "count" /\ o.step = "count" /\ q.resolution = o.resolution => q.vote.voter # o.vote.voter

CountInv ==
  /\ \A s \in Resolutions: DistinctVoters(votes[s])
  /\ DistinctGrantors(proxies)
  /\ \A r \in Requests: Weighed(request[r]) /\ Listed(request[r])
  /\ \A r, o \in Requests: r # o => Apart(request[r], request[o])
  /\ EachMemberCountsOnce

MeetingInv == TablesOK /\ CountInv /\ QuorumIsReal

LEMMA ParticipantsAreFew ==
  ASSUME TablesOK
  PROVE  Participants \subseteq members /\ IsFiniteSet(Participants)
<1>1. Participants \subseteq members
  BY DEF Participants, TablesOK
<1>2. Participants \in SUBSET Members
  BY <1>1 DEF TablesOK
<1> QED
  BY <1>1, <1>2, MembersAssumption, FS_Subset

\* Tables only grow: what was true of a request that did not move stays true.
Grows ==
  /\ members \subseteq members' /\ proxies \subseteq proxies'
  /\ \A s \in Resolutions: votes[s] \subseteq votes'[s]

LEMMA RequestsKeep ==
  ASSUME TablesOK, Grows, NEW q, RequestOK(q)
  PROVE  RequestOK(q)'
<1>1. Participants \subseteq Participants'
  BY DEF Grows, Participants, Voters
<1> QED
  BY <1>1 DEF RequestOK, Grows

LEMMA QuorumKeeps ==
  ASSUME TablesOK, TablesOK', Grows, QuorumIsReal, quorum' = quorum
  PROVE  QuorumIsReal'
<1>1. Participants \subseteq Participants'
  BY DEF Grows, Participants, Voters
<1>0. IsFiniteSet(Participants) /\ IsFiniteSet(Participants')
  <2>1. /\ Participants \in SUBSET Members /\ Participants' \in SUBSET Members
    BY DEF Participants, TablesOK
  <2> QED
    BY <2>1, MembersAssumption, FS_Subset
<1>2. Cardinality(Participants) <= Cardinality(Participants')
  BY <1>0, <1>1, FS_Subset
<1>3. Cardinality(Participants) \in Nat /\ Cardinality(Participants') \in Nat
  BY <1>0, FS_CardinalityType
<1> QED
  BY <1>2, <1>3 DEF QuorumIsReal, TablesOK

\* A request that moves on without writing a table.
LEMMA OnlyRequest ==
  ASSUME MeetingInv, NEW r \in Requests, NEW q, UNCHANGED agm, request' = [request EXCEPT ![r] = q],
         RequestOK(q), Weighed(q), Listed(q), \A o \in Requests: o # r => Apart(q, request[o])
  PROVE  MeetingInv'
<1>1. /\ UNCHANGED <<members, eligible, over, proxies, votes, tally, status, quorum>>
      /\ TablesOK /\ CountInv /\ QuorumIsReal
  BY DEF agm, MeetingInv
<1>2. DOMAIN request' = Requests /\ request'[r] = q /\ \A o \in Requests: o # r => request'[o] = request[o]
  BY <1>1 DEF TablesOK
<1>3. Grows
  BY <1>1 DEF Grows
<1>4. ASSUME NEW o \in Requests PROVE RequestOK(request[o])'
  <2>1. PICK e: e = request'[o]
    OBVIOUS
  <2>2. RequestOK(e)
    BY <1>1, <1>2, <2>1 DEF TablesOK
  <2>3. RequestOK(e)'
    BY <1>1, <1>3, <2>2, RequestsKeep
  <2> QED
    BY <2>1, <2>3 DEF RequestOK
<1>5. TablesOK'
  BY <1>1, <1>2, <1>4 DEF TablesOK, Voters
<1>6. \A o \in Requests: (Weighed(request[o]) /\ Listed(request[o]))'
  BY <1>1, <1>2 DEF CountInv, Weighed, Listed, Voters, DistinctVoters
<1>7. \A o, n \in Requests: o # n => Apart(request[o], request[n])'
  BY <1>1, <1>2 DEF CountInv, Apart
<1>8. CountInv'
  BY <1>1, <1>6, <1>7 DEF CountInv, EachMemberCountsOnce
<1>9. QuorumIsReal'
  BY <1>1, <1>3, <1>5, QuorumKeeps
<1> QED
  BY <1>5, <1>8, <1>9 DEF MeetingInv

LEMMA RequestMoves ==
  ASSUME MeetingInv, NEW r \in Requests,
         \/ \E m \in Members, s \in Resolutions, choice \in VoteChoice: CheckVote(r, m, s, choice)
         \/ \E from, to \in Members: CheckProxy(r, from, to)
         \/ ReadProxies(r) \/ CreateAgmVote(r) \/ ListProxyAssignments(r) \/ ListVoters(r) \/ Fail(r)
  PROVE  MeetingInv'
<1>0. TablesOK /\ CountInv /\ RequestOK(request[r])
  BY DEF MeetingInv, TablesOK
<1>1. ASSUME NEW m \in Members, NEW s \in Resolutions, NEW choice \in VoteChoice, CheckVote(r, m, s, choice)
      PROVE  MeetingInv'
  <2>1. PICK v \in Vote: v = [voter |-> m, choice |-> choice]
    BY DEF Vote
  <2>2. PICK q: q = [step |-> "checked", resolution |-> s, vote |-> v]
    OBVIOUS
  <2>3. q.step = "checked" /\ q.resolution = s /\ q.vote = v /\ v.voter = m /\ m \in members
    BY <1>1, <2>1, <2>2 DEF CheckVote, MayVote
  <2>4. RequestOK(q) /\ Weighed(q) /\ Listed(q) /\ \A o \in Requests: Apart(q, request[o])
    BY <2>3 DEF RequestOK, Weighed, Listed, Apart, Voting
  <2>5. UNCHANGED agm /\ request' = [request EXCEPT ![r] = q]
    BY <1>1, <2>1, <2>2 DEF CheckVote
  <2> QED
    BY <2>4, <2>5, OnlyRequest
<1>2. ASSUME NEW from \in Members, NEW to \in Members, CheckProxy(r, from, to) PROVE MeetingInv'
  <2>1. PICK p \in Proxy: p = [from |-> from, to |-> to]
    BY DEF Proxy
  <2>2. PICK q: q = [step |-> "assign", proxy |-> p]
    OBVIOUS
  <2>3. q.step = "assign" /\ q.proxy = p /\ p.from = from /\ p.to = to /\ {from, to} \subseteq members
    BY <1>2, <2>1, <2>2 DEF CheckProxy, MayAssign
  <2>4. RequestOK(q) /\ Weighed(q) /\ Listed(q) /\ \A o \in Requests: Apart(q, request[o])
    BY <2>3 DEF RequestOK, Weighed, Listed, Apart, Voting
  <2>5. UNCHANGED agm /\ request' = [request EXCEPT ![r] = q]
    BY <1>2, <2>1, <2>2 DEF CheckProxy
  <2> QED
    BY <2>4, <2>5, OnlyRequest
<1>3. CASE ReadProxies(r)
  <2>1. PICK v, s: v = request[r].vote /\ s = request[r].resolution
    OBVIOUS
  <2>2. PICK q: q = [step |-> "vote", resolution |-> s, vote |-> v, proxies |-> proxies]
    OBVIOUS
  <2>3. q.step = "vote" /\ q.resolution = s /\ q.vote = v /\ q.proxies = proxies
    BY <2>2
  <2>4. request[r].step = "checked" /\ UNCHANGED agm /\ request' = [request EXCEPT ![r] = q]
    BY <1>3, <2>1, <2>2 DEF ReadProxies
  <2>5. RequestOK(q) /\ Weighed(q) /\ Listed(q) /\ \A o \in Requests: Apart(q, request[o])
    BY <1>0, <2>1, <2>3, <2>4 DEF RequestOK, Weighed, Listed, Apart, Voting
  <2> QED
    BY <2>4, <2>5, OnlyRequest
<1>4. CASE CreateAgmVote(r)
  <2>1. PICK v, s, ps: v = request[r].vote /\ s = request[r].resolution /\ ps = request[r].proxies
    OBVIOUS
  <2>2. PICK vs: vs = votes[s] \cup {v}
    OBVIOUS
  <2>3. PICK q: q = [step |-> "count", vote |-> v, resolution |-> s, proxies |-> ps, listed |-> vs]
    OBVIOUS
  <2>4. q.step = "count" /\ q.resolution = s /\ q.vote = v /\ q.proxies = ps /\ q.listed = vs
    BY <2>3
  <2>5. /\ request[r].step = "vote" /\ UNCHANGED agm /\ request' = [request EXCEPT ![r] = q]
        /\ v.voter \notin Voters(votes[s])
        /\ \A o \in Requests: request[o].step = "count" => request[o].resolution # s \/ request[o].vote.voter # v.voter
    BY <1>4, <2>1, <2>2, <2>3 DEF CreateAgmVote
  <2>6. s \in Resolutions /\ v \in Vote /\ v.voter \in members /\ ps \subseteq proxies
    BY <1>0, <2>1, <2>5 DEF RequestOK, Voting, CountInv, Weighed
  <2>7. DistinctVoters(vs)
    BY <1>0, <2>2, <2>5, <2>6 DEF CountInv, DistinctVoters, Voters
  <2>8. vs \subseteq Vote /\ Voters(vs) \subseteq members
    BY <1>0, <2>2, <2>6 DEF TablesOK, Voters
  <2>9. RequestOK(q) /\ Weighed(q) /\ Listed(q) /\ \A o \in Requests: Apart(q, request[o])
    BY <2>4, <2>5, <2>6, <2>7, <2>8 DEF RequestOK, Weighed, Listed, Apart, Voting
  <2> QED
    BY <2>5, <2>9, OnlyRequest
<1>5. CASE ListProxyAssignments(r)
  <2>1. PICK q: q = [step |-> "voters", present |-> Grantors]
    OBVIOUS
  <2>2. q.step = "voters" /\ q.present = Grantors
    BY <2>1
  <2>3. RequestOK(q) /\ Weighed(q) /\ Listed(q) /\ \A o \in Requests: Apart(q, request[o])
    BY <2>2 DEF RequestOK, Weighed, Listed, Apart, Participants, Grantors
  <2> QED
    BY <1>5, <2>1, <2>3, OnlyRequest DEF ListProxyAssignments
<1>6. CASE ListVoters(r)
  <2>1. PICK there: there = request[r].present \cup UNION {Voters(votes[s]): s \in Resolutions}
    OBVIOUS
  <2>2. PICK q: q = [step |-> "quorum", present |-> there]
    OBVIOUS
  <2>3. q.step = "quorum" /\ q.present = there
    BY <2>2
  <2>4. request[r].step = "voters" /\ UNCHANGED agm /\ request' = [request EXCEPT ![r] = q]
    BY <1>0, <1>6, <2>1, <2>2 DEF ListVoters, TablesOK
  <2>5. there \subseteq Participants
    BY <1>0, <2>1, <2>4 DEF RequestOK, Participants, Voting
  <2>6. RequestOK(q) /\ Weighed(q) /\ Listed(q) /\ \A o \in Requests: Apart(q, request[o])
    BY <2>3, <2>5 DEF RequestOK, Weighed, Listed, Apart
  <2> QED
    BY <2>4, <2>6, OnlyRequest
<1>7. CASE Fail(r)
  <2>1. RequestOK(Idle) /\ Weighed(Idle) /\ Listed(Idle) /\ \A o \in Requests: Apart(Idle, request[o])
    BY DEF RequestOK, Weighed, Listed, Apart, Idle
  <2> QED
    BY <1>7, <2>1, OnlyRequest DEF Fail
<1> QED
  BY <1>1, <1>2, <1>3, <1>4, <1>5, <1>6, <1>7

\* The requests that did not move, when the tables have grown.
LEMMA OthersKeep ==
  ASSUME TablesOK, Grows, NEW o \in Requests, request'[o] = request[o]
  PROVE  RequestOK(request[o])'
<1>1. PICK e: e = request[o]
  OBVIOUS
<1>2. RequestOK(e)
  BY <1>1 DEF TablesOK
<1>3. RequestOK(e)'
  BY <1>2, RequestsKeep
<1> QED
  BY <1>1, <1>3 DEF RequestOK

LEMMA JoinKeeps ==
  ASSUME MeetingInv, NEW m \in Members, JoinScheme(m)
  PROVE  MeetingInv'
<1>1. /\ members' = members \cup {m} /\ TablesOK /\ CountInv /\ QuorumIsReal
      /\ UNCHANGED <<eligible, over, proxies, votes, tally, status, quorum, request>>
  BY DEF JoinScheme, MeetingInv
<1>2. Grows
  BY <1>1 DEF Grows
<1>3. TablesOK'
  BY <1>1, <1>2, OthersKeep DEF TablesOK, Voters
<1>4. EachMemberCountsOnce'
  <2>1. IsFiniteSet(members) /\ IsFiniteSet(members') /\ members \subseteq members'
    BY <1>1, MembersAssumption, FS_Subset DEF TablesOK
  <2>2. Cardinality(members) <= Cardinality(members') /\ Cardinality(members) \in Nat /\ Cardinality(members') \in Nat
    BY <2>1, FS_Subset, FS_CardinalityType
  <2>3. ASSUME NEW s \in Resolutions PROVE tally[s].for + tally[s].against <= Cardinality(members')
    <3>1. tally[s].for \in Nat /\ tally[s].against \in Nat
      BY <1>1 DEF TablesOK
    <3> QED
      BY <1>1, <2>2, <3>1 DEF CountInv, EachMemberCountsOnce
  <2> QED
    BY <1>1, <2>3 DEF EachMemberCountsOnce
<1>5. CountInv'
  BY <1>1, <1>4 DEF CountInv, Weighed, Listed, Apart, DistinctVoters, DistinctGrantors, Voters
<1>6. QuorumIsReal'
  BY <1>1, <1>2, <1>3, QuorumKeeps
<1> QED
  BY <1>3, <1>5, <1>6 DEF MeetingInv

LEMMA CalendarKeeps ==
  ASSUME MeetingInv, ScheduleMeeting \/ MeetingDayPasses
  PROVE  MeetingInv'
<1>1. /\ UNCHANGED <<members, proxies, votes, tally, status, quorum, request>>
      /\ eligible' = eligible \/ eligible' = Cardinality(members)
      /\ TablesOK /\ CountInv /\ QuorumIsReal
  BY DEF ScheduleMeeting, MeetingDayPasses, MeetingInv, eligibleVoterCount
<1>2. Grows
  BY <1>1 DEF Grows
<1>3. IsFiniteSet(members)
  BY <1>1, MembersAssumption, FS_Subset DEF TablesOK
<1>4. eligible' \in Nat
  BY <1>1, <1>3, FS_CardinalityType DEF TablesOK
<1>5. TablesOK'
  BY <1>1, <1>2, <1>4, OthersKeep DEF TablesOK, Voters
<1>6. CountInv'
  BY <1>1 DEF CountInv, Weighed, Listed, Apart, DistinctVoters, DistinctGrantors, Voters, EachMemberCountsOnce
<1>7. QuorumIsReal'
  BY <1>1, <1>2, <1>5, QuorumKeeps
<1> QED
  BY <1>5, <1>6, <1>7 DEF MeetingInv

\* What a vote's transaction is about to commit.
LEMMA Committing ==
  ASSUME MeetingInv, NEW r \in Requests, CommitVote(r)
  PROVE  \E s \in Resolutions, v \in Vote, totals \in [for: Nat, against: Nat]:
           /\ request[r].step = "count" /\ s = request[r].resolution /\ v = request[r].vote
           /\ v.voter \in members /\ v.voter \notin Voters(votes[s])
           /\ totals = calculateVoteTotals(request[r].listed, request[r].proxies)
           /\ totals.for + totals.against <= Cardinality(members)
           /\ votes' = [votes EXCEPT ![s] = votes[s] \cup {v}]
           /\ tally' = [tally EXCEPT ![s] = totals]
           /\ status' = [status EXCEPT ![s] = IF totals.for + totals.against < eligible THEN status[s]
                                              ELSE IF totals.for > totals.against THEN "passed" ELSE "failed"]
<1>0. TablesOK /\ CountInv /\ RequestOK(request[r]) /\ request[r].step = "count"
  BY DEF MeetingInv, TablesOK, CommitVote
<1>1. PICK s \in Resolutions, v \in Vote: s = request[r].resolution /\ v = request[r].vote /\ v.voter \in members
  BY <1>0 DEF RequestOK, Voting
<1>2. PICK vs, ps: vs = request[r].listed /\ ps = request[r].proxies
  OBVIOUS
<1>3. vs \subseteq Vote /\ DistinctVoters(vs) /\ Voters(vs) \subseteq members /\ v.voter \notin Voters(votes[s])
  BY <1>0, <1>1, <1>2 DEF CountInv, Listed
<1>4. ps \subseteq Proxy /\ DistinctGrantors(ps) /\ {p.from: p \in ps} \subseteq members
  BY <1>0, <1>2 DEF CountInv, Weighed, TablesOK, DistinctGrantors
<1>5. PICK totals: totals = calculateVoteTotals(vs, ps)
  OBVIOUS
<1>6. totals \in [for: Nat, against: Nat] /\ totals.for + totals.against <= Cardinality(members)
  BY <1>0, <1>3, <1>4, <1>5, TotalsCountPairs, TotalsAreBounded DEF TablesOK, Total
<1>7. totals = calculateVoteTotals(request[r].listed, request[r].proxies)
  BY <1>2, <1>5
<1>8. /\ votes' = [votes EXCEPT ![s] = votes[s] \cup {v}]
      /\ tally' = [tally EXCEPT ![s] = totals]
      /\ status' = [status EXCEPT ![s] = IF totals.for + totals.against < eligible THEN status[s]
                                         ELSE IF totals.for > totals.against THEN "passed" ELSE "failed"]
  BY <1>1, <1>7 DEF CommitVote
<1> QED
  BY <1>0, <1>1, <1>3, <1>6, <1>7, <1>8

LEMMA CommitKeeps ==
  ASSUME MeetingInv, NEW r \in Requests, CommitVote(r)
  PROVE  MeetingInv'
<1>0. TablesOK /\ CountInv /\ QuorumIsReal /\ UNCHANGED <<members, eligible, over, proxies, quorum>>
  BY DEF MeetingInv, CommitVote
<1>1. PICK s \in Resolutions, v \in Vote, totals \in [for: Nat, against: Nat]:
        /\ request[r].step = "count" /\ s = request[r].resolution /\ v = request[r].vote
        /\ v.voter \in members /\ v.voter \notin Voters(votes[s])
        /\ totals.for + totals.against <= Cardinality(members)
        /\ votes' = [votes EXCEPT ![s] = votes[s] \cup {v}]
        /\ tally' = [tally EXCEPT ![s] = totals]
        /\ status' = [status EXCEPT ![s] = IF totals.for + totals.against < eligible THEN status[s]
                                           ELSE IF totals.for > totals.against THEN "passed" ELSE "failed"]
  BY Committing
<1>2. PICK q: q = [step |-> "proxies"]
  OBVIOUS
<1>3. /\ q.step = "proxies" /\ DOMAIN request' = Requests /\ request'[r] = q
      /\ \A o \in Requests: o # r => request'[o] = request[o]
  BY <1>0, <1>2 DEF CommitVote, TablesOK
<1>4. PICK vs: vs = votes[s] \cup {v}
  OBVIOUS
<1>5. /\ votes'[s] = vs /\ \A t \in Resolutions: t # s => votes'[t] = votes[t]
      /\ tally'[s] = totals /\ \A t \in Resolutions: t # s => tally'[t] = tally[t]
      /\ tally' \in [Resolutions -> [for: Nat, against: Nat]]
  BY <1>0, <1>1, <1>4 DEF TablesOK
<1>6. Grows
  BY <1>0, <1>4, <1>5 DEF Grows
<1>7. vs \subseteq Vote /\ DistinctVoters(vs) /\ Voters(vs) \subseteq members /\ Voters(vs) = Voters(votes[s]) \cup {v.voter}
  BY <1>0, <1>1, <1>4 DEF TablesOK, CountInv, DistinctVoters, Voters
<1>8. TablesOK'
  <2>1. ASSUME NEW o \in Requests PROVE RequestOK(request[o])'
    BY <1>0, <1>3, <1>6, OthersKeep DEF RequestOK
  <2>2. votes' \in [Resolutions -> SUBSET Vote] /\ \A t \in Resolutions: Voters(votes'[t]) \subseteq members
    BY <1>0, <1>1, <1>4, <1>5, <1>7 DEF TablesOK
  <2>3. status' \in [Resolutions -> {"open", "passed", "failed"}]
    <3>1. PICK to \in {"open", "passed", "failed"}: status' = [status EXCEPT ![s] = to]
      BY <1>0, <1>1 DEF TablesOK
    <3> QED
      BY <1>0, <3>1 DEF TablesOK
  <2> QED
    BY <1>0, <1>3, <1>5, <2>1, <2>2, <2>3 DEF TablesOK, Voters
<1>9. CountInv'
  <2>1. \A t \in Resolutions: DistinctVoters(votes'[t])
    BY <1>0, <1>5, <1>7 DEF CountInv
  <2>2. ASSUME NEW o \in Requests PROVE Weighed(request[o])' /\ Listed(request[o])'
    <3>1. CASE o = r
      BY <1>3, <3>1 DEF Weighed, Listed
    <3>2. CASE o # r
      <4>1. Weighed(request[o]) /\ Listed(request[o]) /\ Apart(request[o], request[r]) /\ request'[o] = request[o]
        BY <1>0, <1>3, <3>2 DEF CountInv
      <4>2. Weighed(request[o])'
        BY <1>0, <4>1 DEF Weighed
      <4>3. request[o].step = "count" => request[o].vote.voter \notin Voters(votes'[request[o].resolution])
        <5> SUFFICES ASSUME request[o].step = "count"
                     PROVE  request[o].vote.voter \notin Voters(votes'[request[o].resolution])
          OBVIOUS
        <5>1. request[o].resolution \in Resolutions
          BY <1>0 DEF TablesOK, RequestOK, Voting
        <5>2. CASE request[o].resolution = s
          BY <1>1, <1>5, <1>7, <4>1, <5>2 DEF Apart, Listed
        <5>3. CASE request[o].resolution # s
          BY <1>5, <4>1, <5>1, <5>3 DEF Listed
        <5> QED
          BY <5>2, <5>3
      <4>4. Listed(request[o])'
        BY <1>0, <4>1, <4>3 DEF Listed, Voters, DistinctVoters
      <4> QED
        BY <4>2, <4>4
    <3> QED
      BY <3>1, <3>2
  <2>3. \A o, n \in Requests: o # n => Apart(request[o], request[n])'
    BY <1>0, <1>3 DEF CountInv, Apart
  <2>4. EachMemberCountsOnce'
    BY <1>0, <1>1, <1>5 DEF CountInv, EachMemberCountsOnce
  <2>5. DistinctGrantors(proxies)' /\ \A t \in Resolutions: DistinctVoters(votes[t])'
    BY <1>0, <2>1 DEF CountInv, DistinctGrantors, DistinctVoters
  <2> QED
    BY <2>2, <2>3, <2>4, <2>5 DEF CountInv
<1>10. QuorumIsReal'
  BY <1>0, <1>6, <1>8, QuorumKeeps
<1> QED
  BY <1>8, <1>9, <1>10 DEF MeetingInv

LEMMA AssignKeeps ==
  ASSUME MeetingInv, NEW r \in Requests, CreateProxyAssignment(r)
  PROVE  MeetingInv'
<1>0. /\ TablesOK /\ CountInv /\ QuorumIsReal
      /\ UNCHANGED <<members, eligible, over, votes, tally, status, quorum>>
  BY DEF MeetingInv, CreateProxyAssignment
<1>1. PICK p \in Proxy: /\ p = request[r].proxy /\ {p.from, p.to} \subseteq members
                        /\ proxies' = proxies \cup {p} /\ ~hasOutgoingProxyAssignment(p.from)
  BY <1>0 DEF CreateProxyAssignment, TablesOK, RequestOK, Voting
<1>2. PICK q: q = [step |-> "proxies"]
  OBVIOUS
<1>3. /\ q.step = "proxies" /\ DOMAIN request' = Requests /\ request'[r] = q
      /\ \A o \in Requests: o # r => request'[o] = request[o]
  BY <1>0, <1>2 DEF CreateProxyAssignment, TablesOK
<1>4. Grows
  BY <1>0, <1>1 DEF Grows
<1>5. TablesOK'
  <2>1. ASSUME NEW o \in Requests PROVE RequestOK(request[o])'
    BY <1>0, <1>3, <1>4, OthersKeep DEF RequestOK
  <2> QED
    BY <1>0, <1>1, <1>3, <2>1 DEF TablesOK, Voters
<1>6. CountInv'
  <2>1. DistinctGrantors(proxies)'
    BY <1>0, <1>1 DEF CountInv, DistinctGrantors, hasOutgoingProxyAssignment
  <2>2. \A o \in Requests: Weighed(request[o])' /\ Listed(request[o])'
    BY <1>0, <1>1, <1>3 DEF CountInv, Weighed, Listed, Voters, DistinctVoters
  <2>3. \A o, n \in Requests: o # n => Apart(request[o], request[n])'
    BY <1>0, <1>3 DEF CountInv, Apart
  <2> QED
    BY <1>0, <2>1, <2>2, <2>3 DEF CountInv, EachMemberCountsOnce, DistinctVoters
<1>7. QuorumIsReal'
  BY <1>0, <1>4, <1>5, QuorumKeeps
<1> QED
  BY <1>5, <1>6, <1>7 DEF MeetingInv

LEMMA CountingKeeps ==
  ASSUME MeetingInv, NEW r \in Requests, UpdateAgmQuorumPresent(r)
  PROVE  MeetingInv'
<1>0. /\ TablesOK /\ CountInv /\ quorum' = Cardinality(request[r].present)
      /\ UNCHANGED <<members, eligible, over, proxies, votes, tally, status>>
  BY DEF MeetingInv, UpdateAgmQuorumPresent
<1>1. request[r].present \in SUBSET Participants
  BY <1>0 DEF UpdateAgmQuorumPresent, TablesOK, RequestOK, Voting
<1>2. IsFiniteSet(Participants)
  BY <1>0, ParticipantsAreFew
<1>3. quorum' \in Nat /\ quorum' <= Cardinality(Participants)
  BY <1>0, <1>1, <1>2, FS_Subset, FS_CardinalityType
<1>4. Participants' = Participants
  BY <1>0 DEF Participants, Voters
<1>5. /\ DOMAIN request' = Requests /\ request'[r] = Idle
      /\ \A o \in Requests: o # r => request'[o] = request[o]
  BY <1>0 DEF UpdateAgmQuorumPresent, TablesOK
<1>6. Grows
  BY <1>0 DEF Grows
<1>7. TablesOK'
  <2>1. ASSUME NEW o \in Requests PROVE RequestOK(request[o])'
    BY <1>0, <1>5, <1>6, OthersKeep DEF RequestOK, Idle
  <2> QED
    BY <1>0, <1>3, <1>5, <2>1 DEF TablesOK, Voters
<1>8. CountInv'
  BY <1>0, <1>5 DEF CountInv, Weighed, Listed, Apart, DistinctVoters, DistinctGrantors, Voters, EachMemberCountsOnce, Idle
<1> QED
  BY <1>3, <1>4, <1>7, <1>8 DEF MeetingInv, QuorumIsReal

LEMMA MeetingStart == Init => MeetingInv
<1> SUFFICES ASSUME Init PROVE MeetingInv
  OBVIOUS
<1> USE DEF Init
<1>1. TablesOK
  BY DEF TablesOK, RequestOK, Idle, Voters
<1>2. IsFiniteSet(members) /\ Cardinality(members) = 0
  BY FS_EmptySet
<1>3. CountInv
  BY <1>2 DEF CountInv, Weighed, Listed, Apart, DistinctVoters, DistinctGrantors, EachMemberCountsOnce, Idle
<1>4. QuorumIsReal
  BY <1>1, ParticipantsAreFew, FS_CardinalityType DEF QuorumIsReal
<1> QED
  BY <1>1, <1>3, <1>4 DEF MeetingInv

LEMMA MeetingStep == MeetingInv /\ [Next]_vars => MeetingInv'
<1> SUFFICES ASSUME MeetingInv, [Next]_vars PROVE MeetingInv'
  OBVIOUS
<1>1. CASE UNCHANGED vars
  BY <1>1 DEF vars, agm, MeetingInv, TablesOK, RequestOK, CountInv, Weighed, Listed, Apart, DistinctVoters,
              DistinctGrantors, Voters, EachMemberCountsOnce, QuorumIsReal, Participants
<1>2. CASE Next
  BY <1>2, JoinKeeps, CalendarKeeps, RequestMoves, CommitKeeps, AssignKeeps, CountingKeeps DEF Next
<1> QED
  BY <1>1, <1>2

LEMMA MeetingsAreSound == Spec => []MeetingInv
  BY MeetingStart, MeetingStep, PTL DEF Spec

(* The tables of a meeting keep their types, and no more members are held  *)
(* to be eligible than there are.                                          *)
THEOREM MeetingTypeCorrect == Spec => []TypeOK
<1> DEFINE Known == over \in BOOLEAN /\ eligible <= Cardinality(members)
<1>1. Init => Known
  <2> SUFFICES ASSUME Init PROVE Known
    OBVIOUS
  <2>1. Cardinality(members) = 0
    BY FS_EmptySet DEF Init
  <2>2. over \in BOOLEAN
    BY DEF Init
  <2>3. eligible <= Cardinality(members)
    BY <2>1 DEF Init
  <2> QED
    BY <2>2, <2>3
<1>2. MeetingInv /\ Known /\ [Next]_vars => Known'
  <2> SUFFICES ASSUME MeetingInv, Known, [Next]_vars PROVE Known'
    OBVIOUS
  <2>0. members \subseteq Members /\ IsFiniteSet(members) /\ eligible \in Nat /\ Cardinality(members) \in Nat
    BY MembersAssumption, FS_Subset, FS_CardinalityType DEF MeetingInv, TablesOK
  <2>1. ASSUME NEW m \in Members, JoinScheme(m) PROVE Known'
    <3>1. members' = members \cup {m} /\ UNCHANGED <<over, eligible>>
      BY <2>1 DEF JoinScheme
    <3>2. Cardinality(members \cup {m}) \in {Cardinality(members), Cardinality(members) + 1}
      BY <2>0, FS_AddElement
    <3>3. Cardinality(members') >= Cardinality(members) /\ Cardinality(members') \in Nat
      BY <2>0, <3>1, <3>2
    <3> QED
      BY <2>0, <3>1, <3>3
  <2>2. CASE ScheduleMeeting \/ MeetingDayPasses
    <3>1. members' = members
      BY <2>2 DEF ScheduleMeeting, MeetingDayPasses
    <3>2. Cardinality(members') = Cardinality(members)
      BY <3>1
    <3>3. eligible' \in {eligible, Cardinality(members)}
      BY <2>2 DEF ScheduleMeeting, MeetingDayPasses, eligibleVoterCount
    <3>4. over' \in BOOLEAN
      BY <2>2 DEF ScheduleMeeting, MeetingDayPasses
    <3>5. eligible' <= Cardinality(members')
      BY <2>0, <3>2, <3>3
    <3> QED
      BY <3>4, <3>5
  <2> QED
    BY <2>1, <2>2 DEF Next, vars, agm, CheckVote, CheckProxy, ReadProxies, CreateAgmVote, CommitVote,
       CreateProxyAssignment, ListProxyAssignments, ListVoters, UpdateAgmQuorumPresent, Fail
<1>3. MeetingInv /\ Known => TypeOK
  <2> SUFFICES ASSUME MeetingInv, Known PROVE TypeOK
    OBVIOUS
  <2>1. Cardinality(members) \in Nat
    BY MembersAssumption, FS_Subset, FS_CardinalityType DEF MeetingInv, TablesOK
  <2> QED
    BY <2>1 DEF TypeOK, MeetingInv, TablesOK
<1> QED
  BY <1>1, <1>2, <1>3, MeetingsAreSound, PTL DEF Spec

(* However votes and proxies overtake each other, no total exceeds the     *)
(* number of members: nobody's weight is in it twice.                      *)
THEOREM NobodyCountsTwice == Spec => []EachMemberCountsOnce
<1>1. MeetingInv => EachMemberCountsOnce
  BY DEF MeetingInv, CountInv
<1> QED
  BY <1>1, MeetingsAreSound, PTL

(* The quorum shown is never more than those who voted or gave a proxy.    *)
THEOREM QuorumIsNeverInvented == Spec => []QuorumIsReal
<1>1. MeetingInv => QuorumIsReal
  BY DEF MeetingInv
<1> QED
  BY <1>1, MeetingsAreSound, PTL

-----------------------------------------------------------------------------
(* Requests that come one by one.  What a request has checked and read is  *)
(* still so when it writes; so proxies make no chains, no grantor votes,   *)
(* and a resolution is open exactly while weight is missing from it.       *)
Holders == {p.to: p \in proxies}
HasVoted(m) == \E s \in Resolutions: m \in Voters(votes[s])

SerialRequest(q) ==
  /\ q.step \in Voting => /\ eligible > 0 /\ status[q.resolution] = "open"
                          /\ q.vote.voter \notin Grantors /\ q.vote.voter \notin Voters(votes[q.resolution])
  /\ q.step \in {"vote", "count"} => q.proxies = proxies
  /\ q.step = "count" => q.listed = votes[q.resolution] \cup {q.vote}
  /\ q.step = "assign" => /\ eligible > 0 /\ q.proxy.from # q.proxy.to
                          /\ q.proxy.from \notin Grantors /\ q.proxy.to \notin Grantors
                          /\ q.proxy.from \notin Holders
                          /\ ~HasVoted(q.proxy.from) /\ ~HasVoted(q.proxy.to)

OpenWhileMissing ==
  \A s \in Resolutions: eligible > 0 /\ status[s] = "open" => tally[s].for + tally[s].against < eligible

ProxiesInv ==
  /\ eligible <= Cardinality(members)
  /\ eligible = 0 => proxies = {} /\ \A s \in Resolutions: votes[s] = {}
  /\ \A p \in proxies: p.to \notin Grantors /\ ~HasVoted(p.from)

SerialInv ==
  /\ OneByOne /\ \A r \in Requests: SerialRequest(request[r])
  /\ ProxiesInv /\ TalliesAreCurrent /\ OpenWhileMissing

LEMMA NothingAddsUpToNothing == calculateVoteTotals({}, {}) = [for |-> 0, against |-> 0]
<1>1. \A c \in VoteChoice: Spoken(c, {}, {}) = {}
  BY DEF Spoken
<1> QED
  BY <1>1, FS_EmptySet DEF calculateVoteTotals, CountFor, VoteChoice

LEMMA SerialMoves ==
  ASSUME MeetingInv, SerialInv, OneByOne', NEW r \in Requests, NEW q, UNCHANGED agm,
         request' = [request EXCEPT ![r] = q], SerialRequest(q)
  PROVE  SerialInv'
<1>1. /\ UNCHANGED <<members, eligible, over, proxies, votes, tally, status, quorum>>
      /\ DOMAIN request = Requests
  BY DEF agm, MeetingInv, TablesOK
<1>2. request'[r] = q /\ \A o \in Requests: o # r => request'[o] = request[o]
  BY <1>1
<1>3. \A o \in Requests: SerialRequest(request[o])'
  BY <1>1, <1>2 DEF SerialInv, SerialRequest, Grantors, Holders, HasVoted, Voters
<1>4. ProxiesInv' /\ OpenWhileMissing'
  BY <1>1 DEF SerialInv, ProxiesInv, OpenWhileMissing, Grantors, HasVoted, Voters
<1>5. TalliesAreCurrent'
  BY <1>1 DEF SerialInv, TalliesAreCurrent, calculateVoteTotals, CountFor, Spoken, SpeaksFor, Voters
<1> QED
  BY <1>3, <1>4, <1>5 DEF SerialInv

LEMMA SerialRequestMoves ==
  ASSUME MeetingInv, SerialInv, OneByOne', NEW r \in Requests,
         \/ \E m \in Members, s \in Resolutions, choice \in VoteChoice: CheckVote(r, m, s, choice)
         \/ \E from, to \in Members: CheckProxy(r, from, to)
         \/ ReadProxies(r) \/ CreateAgmVote(r) \/ ListProxyAssignments(r) \/ ListVoters(r) \/ Fail(r)
  PROVE  SerialInv'
<1>0. SerialRequest(request[r]) /\ DOMAIN request = Requests
  BY DEF SerialInv, MeetingInv, TablesOK
<1>1. ASSUME NEW m \in Members, NEW s \in Resolutions, NEW choice \in VoteChoice, CheckVote(r, m, s, choice)
      PROVE  SerialInv'
  <2>1. PICK v: v = [voter |-> m, choice |-> choice]
    OBVIOUS
  <2>2. PICK q: q = [step |-> "checked", resolution |-> s, vote |-> v]
    OBVIOUS
  <2>3. q.step = "checked" /\ q.resolution = s /\ q.vote = v /\ v.voter = m
    BY <2>1, <2>2
  <2>4. MayVote(m, s) /\ UNCHANGED agm /\ request' = [request EXCEPT ![r] = q]
    BY <1>1, <2>1, <2>2 DEF CheckVote
  <2>5. eligible > 0 /\ status[s] = "open" /\ m \notin Grantors /\ m \notin Voters(votes[s])
    BY <2>4 DEF MayVote, MeetingOpen, hasOutgoingProxyAssignment, Grantors
  <2>6. SerialRequest(q)
    BY <2>3, <2>5 DEF SerialRequest
  <2> QED
    BY <2>4, <2>6, SerialMoves
<1>2. ASSUME NEW from \in Members, NEW to \in Members, CheckProxy(r, from, to) PROVE SerialInv'
  <2>1. PICK p: p = [from |-> from, to |-> to]
    OBVIOUS
  <2>2. PICK q: q = [step |-> "assign", proxy |-> p]
    OBVIOUS
  <2>3. q.step = "assign" /\ q.proxy = p /\ p.from = from /\ p.to = to
    BY <2>1, <2>2
  <2>4. MayAssign(from, to) /\ UNCHANGED agm /\ request' = [request EXCEPT ![r] = q]
    BY <1>2, <2>1, <2>2 DEF CheckProxy
  <2>5. /\ eligible > 0 /\ from # to /\ from \notin Grantors /\ to \notin Grantors /\ from \notin Holders
        /\ ~HasVoted(from) /\ ~HasVoted(to)
    BY <2>4 DEF MayAssign, MeetingOpen, hasOutgoingProxyAssignment, hasIncomingProxyAssignment,
                userHasMeetingVote, Grantors, Holders, HasVoted
  <2>6. SerialRequest(q)
    BY <2>3, <2>5 DEF SerialRequest, Voting
  <2> QED
    BY <2>4, <2>6, SerialMoves
<1>3. CASE ReadProxies(r)
  <2>1. PICK v, s: v = request[r].vote /\ s = request[r].resolution
    OBVIOUS
  <2>2. PICK q: q = [step |-> "vote", resolution |-> s, vote |-> v, proxies |-> proxies]
    OBVIOUS
  <2>3. q.step = "vote" /\ q.resolution = s /\ q.vote = v /\ q.proxies = proxies
    BY <2>2
  <2>4. request[r].step = "checked" /\ UNCHANGED agm /\ request' = [request EXCEPT ![r] = q]
    BY <1>3, <2>1, <2>2 DEF ReadProxies
  <2>5. SerialRequest(q)
    BY <1>0, <2>1, <2>3, <2>4 DEF SerialRequest, Voting
  <2> QED
    BY <2>4, <2>5, SerialMoves
<1>4. CASE CreateAgmVote(r)
  <2>1. PICK v, s, ps: v = request[r].vote /\ s = request[r].resolution /\ ps = request[r].proxies
    OBVIOUS
  <2>2. PICK vs: vs = votes[s] \cup {v}
    OBVIOUS
  <2>3. PICK q: q = [step |-> "count", vote |-> v, resolution |-> s, proxies |-> ps, listed |-> vs]
    OBVIOUS
  <2>4. q.step = "count" /\ q.resolution = s /\ q.vote = v /\ q.proxies = ps /\ q.listed = vs
    BY <2>3
  <2>5. request[r].step = "vote" /\ UNCHANGED agm /\ request' = [request EXCEPT ![r] = q]
    BY <1>4, <2>1, <2>2, <2>3 DEF CreateAgmVote
  <2>6. SerialRequest(q)
    BY <1>0, <2>1, <2>2, <2>4, <2>5 DEF SerialRequest, Voting
  <2> QED
    BY <2>5, <2>6, SerialMoves
<1>5. CASE ListProxyAssignments(r)
  <2>1. PICK q: q = [step |-> "voters", present |-> Grantors]
    OBVIOUS
  <2>2. SerialRequest(q)
    BY <2>1 DEF SerialRequest, Voting
  <2> QED
    BY <1>5, <2>1, <2>2, SerialMoves DEF ListProxyAssignments
<1>6. CASE ListVoters(r)
  <2>1. PICK q: q = [step |-> "quorum",
                     present |-> request[r].present \cup UNION {Voters(votes[s]): s \in Resolutions}]
    OBVIOUS
  <2>2. SerialRequest(q)
    BY <2>1 DEF SerialRequest, Voting
  <2>3. UNCHANGED agm /\ request' = [request EXCEPT ![r] = q]
    BY <1>0, <1>6, <2>1 DEF ListVoters
  <2> QED
    BY <2>2, <2>3, SerialMoves
<1>7. CASE Fail(r)
  <2>1. SerialRequest(Idle)
    BY DEF SerialRequest, Voting, Idle
  <2> QED
    BY <1>7, <2>1, SerialMoves DEF Fail
<1> QED
  BY <1>1, <1>2, <1>3, <1>4, <1>5, <1>6, <1>7

\* While a request is under way the others are idle, and owe nothing.
LEMMA OthersIdle ==
  ASSUME MeetingInv, SerialInv, NEW r \in Requests, request[r].step # "idle",
         NEW q, request' = [request EXCEPT ![r] = q], q.step \in {"idle", "proxies"}
  PROVE  OneByOne' /\ \A o \in Requests: SerialRequest(request[o])'
<1>1. DOMAIN request = Requests /\ request[r] # Idle
  BY DEF MeetingInv, TablesOK, Idle
<1>2. \A o \in Requests: o # r => request[o] = Idle /\ request'[o] = request[o]
  BY <1>1 DEF SerialInv, OneByOne
<1>3. \A o \in Requests: request'[o].step \in {"idle", "proxies"}
  BY <1>1, <1>2 DEF Idle
<1> QED
  BY <1>2, <1>3 DEF OneByOne, SerialRequest, Voting

LEMMA SerialCommit ==
  ASSUME MeetingInv, SerialInv, NEW r \in Requests, CommitVote(r)
  PROVE  SerialInv' /\ OutcomeStands
<1>0. /\ TablesOK /\ UNCHANGED <<members, eligible, over, proxies, quorum>>
      /\ SerialRequest(request[r]) /\ ProxiesInv /\ TalliesAreCurrent /\ OpenWhileMissing
  BY DEF MeetingInv, CommitVote, SerialInv
<1>1. PICK s \in Resolutions, v \in Vote, totals \in [for: Nat, against: Nat]:
        /\ request[r].step = "count" /\ s = request[r].resolution /\ v = request[r].vote
        /\ v.voter \in members /\ v.voter \notin Voters(votes[s])
        /\ totals = calculateVoteTotals(request[r].listed, request[r].proxies)
        /\ votes' = [votes EXCEPT ![s] = votes[s] \cup {v}]
        /\ tally' = [tally EXCEPT ![s] = totals]
        /\ status' = [status EXCEPT ![s] = IF totals.for + totals.against < eligible THEN status[s]
                                           ELSE IF totals.for > totals.against THEN "passed" ELSE "failed"]
  BY Committing
<1>2. PICK vs: vs = votes[s] \cup {v}
  OBVIOUS
<1>3. /\ eligible > 0 /\ status[s] = "open" /\ v.voter \notin Grantors
      /\ request[r].listed = vs /\ request[r].proxies = proxies
  BY <1>0, <1>1, <1>2 DEF SerialRequest, Voting
<1>4. /\ votes'[s] = vs /\ \A t \in Resolutions: t # s => votes'[t] = votes[t]
      /\ tally'[s] = totals /\ \A t \in Resolutions: t # s => tally'[t] = tally[t]
      /\ \A t \in Resolutions: t # s => status'[t] = status[t]
      /\ status'[s] = "open" => totals.for + totals.against < eligible
  BY <1>0, <1>1, <1>2 DEF TablesOK
<1>5. totals = calculateVoteTotals(vs, proxies)
  BY <1>1, <1>3
<1>6. OutcomeStands
  BY <1>3, <1>4 DEF OutcomeStands
<1>7. OneByOne' /\ \A o \in Requests: SerialRequest(request[o])'
  <2>1. PICK q: q = [step |-> "proxies"]
    OBVIOUS
  <2> QED
    BY <1>1, <2>1, OthersIdle DEF CommitVote
<1>8. ProxiesInv'
  <2>1. \A t \in Resolutions: Voters(votes'[t]) \subseteq Voters(votes[t]) \cup {v.voter}
    BY <1>2, <1>4 DEF Voters
  <2>2. \A p \in proxies: ~HasVoted(p.from)'
    BY <1>0, <1>3, <2>1 DEF ProxiesInv, HasVoted, Grantors, Voters
  <2> QED
    BY <1>0, <1>3, <2>2 DEF ProxiesInv, Grantors
<1>9. TalliesAreCurrent'
  <2>1. \A t \in Resolutions: tally'[t] = calculateVoteTotals(votes'[t], proxies)
    BY <1>0, <1>4, <1>5 DEF TalliesAreCurrent
  <2> QED
    BY <1>0, <2>1 DEF TalliesAreCurrent
<1>10. OpenWhileMissing'
  BY <1>0, <1>4 DEF OpenWhileMissing
<1> QED
  BY <1>6, <1>7, <1>8, <1>9, <1>10 DEF SerialInv

LEMMA SerialAssign ==
  ASSUME MeetingInv, SerialInv, NEW r \in Requests, CreateProxyAssignment(r)
  PROVE  SerialInv'
<1>0. /\ TablesOK /\ UNCHANGED <<members, eligible, over, votes, tally, status, quorum>>
      /\ SerialRequest(request[r]) /\ ProxiesInv /\ TalliesAreCurrent /\ OpenWhileMissing
  BY DEF MeetingInv, CreateProxyAssignment, SerialInv
<1>1. PICK p \in Proxy: p = request[r].proxy /\ proxies' = proxies \cup {p} /\ request[r].step = "assign"
  BY <1>0 DEF CreateProxyAssignment, TablesOK, RequestOK, Voting
<1>2. /\ eligible > 0 /\ p.from # p.to /\ p.from \notin Grantors /\ p.to \notin Grantors
      /\ p.from \notin Holders /\ ~HasVoted(p.from) /\ ~HasVoted(p.to)
  BY <1>0, <1>1 DEF SerialRequest
<1>3. OneByOne' /\ \A o \in Requests: SerialRequest(request[o])'
  <2>1. PICK q: q = [step |-> "proxies"]
    OBVIOUS
  <2> QED
    BY <1>1, <2>1, OthersIdle DEF CreateProxyAssignment
<1>4. ProxiesInv'
  <2>1. \A x \in proxies': ~HasVoted(x.from)'
    BY <1>0, <1>1, <1>2 DEF ProxiesInv, HasVoted, Voters
  <2>2. \A x \in proxies': \A y \in proxies': x.to # y.from
    BY <1>0, <1>1, <1>2 DEF ProxiesInv, Grantors, Holders
  <2> QED
    BY <1>0, <1>2, <2>1, <2>2 DEF ProxiesInv, Grantors
<1>5. TalliesAreCurrent'
  <2>1. ASSUME NEW s \in Resolutions PROVE tally[s] = calculateVoteTotals(votes[s], proxies \cup {p})
    <3>1. PICK vs \in SUBSET Vote, ps \in SUBSET Proxy: vs = votes[s] /\ ps = proxies
      BY <1>0 DEF TablesOK
    <3>2. p.to \notin Voters(vs)
      BY <1>2, <3>1 DEF HasVoted
    <3>3. calculateVoteTotals(vs, ps \cup {p}) = calculateVoteTotals(vs, ps)
      BY <3>2, ProxyChangesNothing
    <3> QED
      BY <1>0, <3>1, <3>3 DEF TalliesAreCurrent
  <2> QED
    BY <1>0, <1>1, <2>1 DEF TalliesAreCurrent, calculateVoteTotals, CountFor, Spoken, SpeaksFor, Voters
<1>6. OpenWhileMissing'
  BY <1>0 DEF OpenWhileMissing
<1> QED
  BY <1>3, <1>4, <1>5, <1>6 DEF SerialInv

LEMMA SerialRest ==
  ASSUME MeetingInv, SerialInv, OneByOne',
         \/ \E m \in Members: JoinScheme(m)
         \/ ScheduleMeeting \/ MeetingDayPasses
         \/ \E r \in Requests: UpdateAgmQuorumPresent(r)
  PROVE  SerialInv'
<1>0. /\ TablesOK /\ ProxiesInv /\ TalliesAreCurrent /\ OpenWhileMissing
      /\ \A r \in Requests: SerialRequest(request[r])
  BY DEF MeetingInv, SerialInv
<1>1. ASSUME NEW m \in Members, JoinScheme(m) PROVE SerialInv'
  <2>1. members' = members \cup {m} /\ UNCHANGED <<eligible, over, proxies, votes, tally, status, quorum, request>>
    BY <1>1 DEF JoinScheme
  <2>2. IsFiniteSet(members) /\ IsFiniteSet(members') /\ members \subseteq members'
    BY <1>0, <2>1, MembersAssumption, FS_Subset DEF TablesOK
  <2>3. Cardinality(members) <= Cardinality(members') /\ Cardinality(members) \in Nat /\ Cardinality(members') \in Nat
    BY <2>2, FS_Subset, FS_CardinalityType
  <2>4. eligible' <= Cardinality(members')
    BY <1>0, <2>1, <2>3 DEF ProxiesInv, TablesOK
  <2>5. ProxiesInv'
    BY <1>0, <2>1, <2>4 DEF ProxiesInv, Grantors, HasVoted, Voters
  <2>6. TalliesAreCurrent' /\ OpenWhileMissing'
    BY <1>0, <2>1 DEF TalliesAreCurrent, OpenWhileMissing
  <2>7. \A r \in Requests: SerialRequest(request[r])'
    BY <1>0, <2>1 DEF SerialRequest, Grantors, Holders, HasVoted, Voters
  <2> QED
    BY <2>5, <2>6, <2>7 DEF SerialInv
<1>2. CASE ScheduleMeeting
  <2>1. /\ eligible = 0 /\ eligible' = Cardinality(members) /\ members # {}
        /\ UNCHANGED <<members, over, proxies, votes, tally, status, quorum, request>>
    BY <1>2 DEF ScheduleMeeting, eligibleVoterCount
  <2>2. IsFiniteSet(members)
    BY <1>0, MembersAssumption, FS_Subset DEF TablesOK
  <2>3. Cardinality(members) \in Nat /\ Cardinality(members) # 0
    BY <2>1, <2>2, FS_CardinalityType, FS_EmptySet
  <2>4. proxies = {} /\ \A s \in Resolutions: votes[s] = {}
    BY <1>0, <2>1 DEF ProxiesInv
  <2>5. \A s \in Resolutions: tally[s] = [for |-> 0, against |-> 0]
    BY <1>0, <2>4, NothingAddsUpToNothing DEF TalliesAreCurrent
  <2>6. OpenWhileMissing'
    BY <2>1, <2>3, <2>5 DEF OpenWhileMissing
  <2>7. ProxiesInv'
    BY <1>0, <2>1, <2>3, <2>4 DEF ProxiesInv, Grantors, HasVoted, Voters
  <2>8. TalliesAreCurrent'
    BY <1>0, <2>1 DEF TalliesAreCurrent
  <2>9. ASSUME NEW r \in Requests PROVE SerialRequest(request[r])'
    <3>1. SerialRequest(request[r])
      BY <1>0
    <3> QED
      BY <2>1, <2>3, <3>1 DEF SerialRequest, Grantors, Holders, HasVoted, Voters
  <2> QED
    BY <2>6, <2>7, <2>8, <2>9 DEF SerialInv
<1>3. CASE MeetingDayPasses
  <2>1. UNCHANGED <<members, eligible, proxies, votes, tally, status, quorum, request>>
    BY <1>3 DEF MeetingDayPasses
  <2> QED
    BY <1>0, <2>1 DEF SerialInv, ProxiesInv, TalliesAreCurrent, OpenWhileMissing, SerialRequest, Grantors, Holders,
                      HasVoted, Voters
<1>4. ASSUME NEW r \in Requests, UpdateAgmQuorumPresent(r) PROVE SerialInv'
  <2>1. /\ UNCHANGED <<members, eligible, over, proxies, votes, tally, status>>
        /\ request' = [request EXCEPT ![r] = Idle] /\ request[r].step = "quorum"
    BY <1>4 DEF UpdateAgmQuorumPresent
  <2>2. \A o \in Requests: SerialRequest(request[o])'
    <3>1. PICK q: q = Idle
      OBVIOUS
    <3>2. q.step = "idle"
      BY <3>1 DEF Idle
    <3> QED
      BY <2>1, <3>1, <3>2, OthersIdle
  <2> QED
    BY <1>0, <2>1, <2>2 DEF SerialInv, ProxiesInv, TalliesAreCurrent, OpenWhileMissing, Grantors, HasVoted, Voters
<1> QED
  BY <1>1, <1>2, <1>3, <1>4

SerialInvIfSo == ~busy => SerialInv
OutcomeStandsIfSo == ~busy => OutcomeStands

LEMMA SerialStart == MeetingInit => SerialInvIfSo
<1> SUFFICES ASSUME MeetingInit, ~busy PROVE SerialInv
  BY DEF SerialInvIfSo
<1> USE DEF MeetingInit, Init
<1>1. OneByOne /\ \A r \in Requests: SerialRequest(request[r])
  BY DEF OneByOne, SerialRequest, Voting, Idle
<1>2. Cardinality(members) = 0
  BY FS_EmptySet
<1>3. ProxiesInv /\ OpenWhileMissing
  BY <1>2 DEF ProxiesInv, OpenWhileMissing
<1>4. TalliesAreCurrent
  BY NothingAddsUpToNothing DEF TalliesAreCurrent
<1> QED
  BY <1>1, <1>3, <1>4 DEF SerialInv

LEMMA SerialStep ==
  ASSUME MeetingInv, SerialInvIfSo, [MeetingNext]_<<vars, busy>>
  PROVE  SerialInvIfSo' /\ OutcomeStandsIfSo
<1> SUFFICES ASSUME ~busy \/ ~busy' PROVE SerialInv' /\ OutcomeStands
  BY DEF SerialInvIfSo, OutcomeStandsIfSo
<1>0. busy' = busy /\ ~busy /\ SerialInv
  BY DEF MeetingNext, SerialInvIfSo
<1>1. CASE UNCHANGED <<vars, busy>>
  BY <1>0, <1>1 DEF vars, agm, SerialInv, OneByOne, ProxiesInv, TalliesAreCurrent, OpenWhileMissing, SerialRequest,
                    Grantors, Holders, HasVoted, Voters, OutcomeStands
<1>2. CASE MeetingNext
  <2>0. Next /\ OneByOne'
    BY <1>0, <1>2 DEF MeetingNext
  <2>1. ASSUME NEW r \in Requests,
               \/ \E m \in Members, s \in Resolutions, choice \in VoteChoice: CheckVote(r, m, s, choice)
               \/ \E from, to \in Members: CheckProxy(r, from, to)
               \/ ReadProxies(r) \/ CreateAgmVote(r) \/ ListProxyAssignments(r) \/ ListVoters(r) \/ Fail(r)
        PROVE  SerialInv' /\ OutcomeStands
    <3>1. UNCHANGED agm
      BY <2>1 DEF CheckVote, CheckProxy, ReadProxies, CreateAgmVote, ListProxyAssignments, ListVoters, Fail
    <3>2. OutcomeStands
      BY <3>1 DEF agm, OutcomeStands
    <3> QED
      BY <1>0, <2>0, <2>1, <3>2, SerialRequestMoves
  <2>2. ASSUME NEW r \in Requests, CommitVote(r) PROVE SerialInv' /\ OutcomeStands
    BY <1>0, <2>2, SerialCommit
  <2>3. ASSUME NEW r \in Requests, CreateProxyAssignment(r) PROVE SerialInv' /\ OutcomeStands
    BY <1>0, <2>3, SerialAssign DEF CreateProxyAssignment, OutcomeStands
  <2>4. ASSUME \/ \E m \in Members: JoinScheme(m)
               \/ ScheduleMeeting \/ MeetingDayPasses
               \/ \E r \in Requests: UpdateAgmQuorumPresent(r)
        PROVE  SerialInv' /\ OutcomeStands
    <3>1. OutcomeStands
      BY <2>4 DEF JoinScheme, ScheduleMeeting, MeetingDayPasses, UpdateAgmQuorumPresent, OutcomeStands
    <3> QED
      BY <1>0, <2>0, <2>4, <3>1, SerialRest
  <2> QED
    BY <2>0, <2>1, <2>2, <2>3, <2>4 DEF Next
<1> QED
  BY <1>1, <1>2

LEMMA SerialMeetings == MeetingSpec => [](MeetingInv /\ SerialInvIfSo)
<1>1. MeetingInit => Init
  BY DEF MeetingInit
<1>2. [MeetingNext]_<<vars, busy>> => [Next]_vars
  BY DEF MeetingNext
<1>3. MeetingInv /\ SerialInvIfSo /\ [MeetingNext]_<<vars, busy>> => SerialInvIfSo'
  BY SerialStep
<1> QED
  BY <1>1, <1>2, <1>3, MeetingStart, MeetingStep, SerialStart, PTL DEF MeetingSpec

(* AssignProxy never recounts, and need not while requests come one by     *)
(* one: its checks keep every proxy from changing a total that is there.   *)
THEOREM TotalsStayCurrent == MeetingSpec => []TotalsAreCurrent
<1>1. SerialInvIfSo => TotalsAreCurrent
  BY DEF SerialInvIfSo, SerialInv, TotalsAreCurrent
<1> QED
  BY <1>1, SerialMeetings, PTL

(* Nobody is silenced: if nobody could vote any more on an open resolution *)
(* each member would have voted or be spoken for, and it would have closed.*)
THEOREM EverybodyIsHeard == MeetingSpec => []NobodyIsShutOut
<1>1. ASSUME MeetingInv, SerialInvIfSo PROVE NobodyIsShutOut
  <2> SUFFICES ASSUME ~busy, MeetingOpen, NEW s \in Resolutions, status[s] = "open",
                      \A m \in Members: ~MayVote(m, s)
               PROVE  FALSE
    BY DEF NobodyIsShutOut, NobodyIsSilenced
  <2>0. SerialInv /\ TablesOK
    BY <1>1 DEF SerialInvIfSo, MeetingInv
  <2>1. PICK vs \in SUBSET Vote, ps \in SUBSET Proxy, ms \in SUBSET Members: vs = votes[s] /\ ps = proxies /\ ms = members
    BY <2>0 DEF TablesOK
  <2>2. \A m \in ms: m \in Voters(vs) \/ \E p \in ps: p.from = m
    BY <2>1 DEF MayVote, hasOutgoingProxyAssignment
  <2>3. \A p \in ps: p.to \in ms /\ p.to \notin Grantors
    BY <2>0, <2>1 DEF TablesOK, SerialInv, ProxiesInv
  <2>4. \A p \in ps: p.to \in Voters(vs)
    BY <2>1, <2>2, <2>3 DEF Grantors
  <2>5. Cardinality(ms) <= Total(vs, ps)
    BY <2>2, <2>4, TotalsAreComplete
  <2>6. Total(vs, ps) = tally[s].for + tally[s].against
    BY <2>0, <2>1 DEF SerialInv, TalliesAreCurrent, Total
  <2>7. tally[s].for + tally[s].against < eligible /\ eligible <= Cardinality(ms)
    BY <2>0, <2>1 DEF SerialInv, OpenWhileMissing, ProxiesInv, MeetingOpen
  <2>8. eligible \in Nat /\ tally[s].for \in Nat /\ tally[s].against \in Nat
    BY <2>0 DEF TablesOK
  <2>9. Cardinality(ms) \in Nat
    BY MembersAssumption, FS_Subset, FS_CardinalityType
  <2> QED
    BY <2>5, <2>6, <2>7, <2>8, <2>9
<1> QED
  BY <1>1, SerialMeetings, PTL

(* One at a time, votes never turn a resolution that has closed.           *)
THEOREM OutcomesAreFinal == MeetingSpec => OutcomeIsFinal
<1>1. MeetingInv /\ SerialInvIfSo /\ [MeetingNext]_<<vars, busy>> => [OutcomeStandsIfSo]_<<vars, busy>>
  BY SerialStep
<1>2. OutcomeStandsIfSo => (~busy => OutcomeStands)
  BY DEF OutcomeStandsIfSo
<1> QED
  BY <1>1, SerialMeetings, PTL DEF MeetingSpec, OutcomeIsFinal, OutcomeStandsIfSo

(* One at a time, who holds a proxy has not given theirs away (the reading *)
(* of "grantor delegates their vote to grantee" in 00006_agm.sql:45).      *)
HoldersMayVote == ~busy => ProxyHoldersMayVote

THEOREM ProxiesMakeNoChains == MeetingSpec => []HoldersMayVote
<1>1. SerialInvIfSo => HoldersMayVote
  BY DEF SerialInvIfSo, SerialInv, ProxiesInv, HoldersMayVote, ProxyHoldersMayVote, hasOutgoingProxyAssignment, Grantors
<1> QED
  BY <1>1, SerialMeetings, PTL
=============================================================================
