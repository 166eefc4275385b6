---------------------------- MODULE MCAgmVoting -----------------------------
(***************************************************************************)
(* A meeting held by requests that come one after the other, with four     *)
(* members and two resolutions, or a busy one, where two requests run at a *)
(* time, with three members and one resolution.                            *)
(***************************************************************************)
EXTENDS AgmVoting, TLC

VARIABLE busy

MeetingInit == Init /\ busy \in BOOLEAN

OneByOne == \A r, q \in Requests: request[r] # Idle /\ request[q] # Idle => r = q
InVote(r, s) == request[r].step \in {"checked", "vote", "count"} /\ request[r].resolution = s
Touched == {s \in Resolutions: votes[s] # {} \/ \E r \in Requests: InVote(r, s)}

MeetingNext ==
  /\ Next /\ UNCHANGED busy
  /\ ~busy => OneByOne'
  /\ busy => Cardinality(members') <= 3 /\ Cardinality(Touched') <= 1

MeetingSpec == MeetingInit /\ [][MeetingNext]_<<vars, busy>>

Symmetry == Permutations(Members) \cup Permutations(Resolutions) \cup Permutations(Requests)

(* Between requests that come one after the other a resolution shows the   *)
(* totals its votes and proxies add up to: AssignProxy never recounts, so  *)
(* its checks must keep every proxy from changing a total that is there.   *)
(* Two votes at one time lose one of each other (agm/service.go:288).      *)
TotalsAreCurrent == ~busy => TalliesAreCurrent

(* And nobody is silenced by the proxies that were given: whoever's weight *)
(* is missing from an open resolution can still vote, or somebody for them.*)
NobodyIsShutOut == ~busy => NobodyIsSilenced

(* Nor does an outcome change once it is there; two requests that count at *)
(* one time do turn a resolution that passed into one that failed.         *)
OutcomeIsFinal == [][~busy => OutcomeStands]_<<vars, busy>>
=============================================================================
