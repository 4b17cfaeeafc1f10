--------------------------- MODULE StablePolling ----------------------------
(***************************************************************************)
(* The polling hook of the intelligence pages: one fetch at a time, kept   *)
(* data on failure, an immediate run whenever the fetcher or the enabled   *)
(* flag changes.  The hook's state is a record; the pages that use it hold *)
(* it in their own state and issue the fetch when RunStarts.               *)
(***************************************************************************)
EXTENDS PageRequests

IdlePoll == [data |-> Null, error |-> FALSE, initialLoading |-> TRUE,
             refreshing |-> FALSE, inFlight |-> FALSE]

\* Mutant: polling that stops after a failure.
RunStartsUnlessFailed(poll, enabled) == enabled /\ ~poll.inFlight /\ ~poll.error

\* run() does nothing while disabled or while a fetch is in flight.
RunStarts(poll, enabled) == enabled /\ ~poll.inFlight

Run(poll, enabled) ==
  IF RunStarts(poll, enabled)
  THEN [poll EXCEPT !.inFlight = TRUE,
                    !.refreshing = (poll.data # Null),
                    !.initialLoading = @ \/ poll.data = Null]
  ELSE poll

\* Mutant: a failure leaves the fetch marked as in flight.
FinishRunStuck(poll, answer) ==
  [data |-> IF answer.ok THEN answer.val ELSE poll.data,
   error |-> ~answer.ok,
   initialLoading |-> FALSE, refreshing |-> FALSE, inFlight |-> ~answer.ok]

\* The fetch ends: an answer replaces the data, a failure keeps it.
FinishRun(poll, answer) ==
  [data |-> IF answer.ok THEN answer.val ELSE poll.data,
   error |-> ~answer.ok,
   initialLoading |-> FALSE, refreshing |-> FALSE, inFlight |-> FALSE]

\* The requests in flight after run(): the fetcher captured arg.
RunIssues(requests, poll, enabled, op, arg) ==
  IF RunStarts(poll, enabled) THEN Issue(requests, op, arg) ELSE requests

=============================================================================
