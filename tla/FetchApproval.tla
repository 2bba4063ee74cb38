---------------------------- MODULE FetchApproval ----------------------------
(***************************************************************************)
(* One fetch_url call (internal/workspacetools/fetch.go): the first address *)
(* and every address it is redirected to needs the policy's permission or   *)
(* the user's.  A redirect that needs an approval ends the attempt; when    *)
(* the user answers, the call starts over from its first address with all   *)
(* the addresses approved so far, and the servers may redirect it           *)
(* elsewhere than before.                                                   *)
(***************************************************************************)
EXTENDS Naturals

CONSTANTS
  Addresses,      \* normalised public URLs
  AllowedByRule,  \* those the call's policy allows without asking
  MaxRedirects,   \* redirects of one attempt (the client's limit)
  MaxAttempts     \* bound: attempts of the call

ASSUME AllowedAssumption == AllowedByRule \subseteq Addresses

VARIABLES
  firstAddress,    \* the first address
  attempt,      \* "called", "requesting", "asked", or how the call ended
  here,         \* the address being requested
  hops,         \* redirects followed in this attempt
  approvedUrls, \* the addresses in the confirmation's payload
  target,       \* the address the user is asked about
  said,         \* the addresses the user has approved
  contacted,    \* the addresses requests were sent to
  attempts

fetchVars == <<firstAddress, attempt, here, hops, approvedUrls, target, said, contacted, attempts>>

FetchInit ==
  /\ firstAddress \in Addresses
  /\ attempt = "called"
  /\ here = firstAddress /\ target = firstAddress
  /\ hops = 0 /\ attempts = 0
  /\ approvedUrls = {} /\ said = {} /\ contacted = {}

\* requestFetchConfirmation: the payload carries what was approved before, and the target.
Ask(address) ==
  /\ attempt' = "asked"
  /\ target' = address
  /\ approvedUrls' = approvedUrls \cup {address}
  /\ UNCHANGED <<firstAddress, here, hops, said, contacted, attempts>>

Send(address, hop) ==
  /\ attempt' = "requesting"
  /\ here' = address /\ hops' = hop
  /\ contacted' = contacted \cup {address}
  /\ UNCHANGED <<firstAddress, approvedUrls, target, said>>

CallFetch ==
  /\ attempt = "called" /\ attempts < MaxAttempts
  /\ IF firstAddress \notin AllowedByRule
       THEN Ask(firstAddress)
       ELSE Send(firstAddress, 0) /\ attempts' = attempts + 1

AnswerFetch ==
  /\ attempt = "asked" /\ attempts < MaxAttempts
  /\ \/ /\ said' = said \cup {target}
        /\ here' = firstAddress /\ hops' = 0
        /\ contacted' = contacted \cup {firstAddress}
        /\ attempt' = "requesting"
        /\ attempts' = attempts + 1
        /\ UNCHANGED <<firstAddress, approvedUrls, target>>
     \/ /\ attempt' = "denied"
        /\ UNCHANGED <<firstAddress, here, hops, approvedUrls, target, said, contacted, attempts>>

\* Mutant: a redirect needs no approval once the user has approved an address of the call.
PermittedOnce(address) == address \in AllowedByRule \/ approvedUrls # {}
Permitted(address) == address \in AllowedByRule \/ address \in approvedUrls

\* CheckRedirect.
Redirect ==
  /\ attempt = "requesting"
  /\ \E address \in Addresses :
       IF hops >= MaxRedirects
         THEN /\ attempt' = "failed"
              /\ UNCHANGED <<firstAddress, here, hops, approvedUrls, target, said, contacted,
                             attempts>>
         ELSE \/ Permitted(address) /\ Send(address, hops + 1) /\ UNCHANGED attempts
              \/ ~Permitted(address) /\ Ask(address)

\* The answer is text, or cannot be used.
Respond ==
  /\ attempt = "requesting"
  /\ attempt' \in {"fetched", "failed"}
  /\ UNCHANGED <<firstAddress, here, hops, approvedUrls, target, said, contacted, attempts>>

FetchNext == CallFetch \/ AnswerFetch \/ Redirect \/ Respond

FetchSpec == FetchInit /\ [][FetchNext]_fetchVars

-----------------------------------------------------------------------------
\* Whatever the servers redirect to and however often the call is resumed, no address is
\* contacted that neither the policy allows nor the user has approved for this call.
OnlyApprovedAddresses == contacted \subseteq AllowedByRule \cup said
=============================================================================
