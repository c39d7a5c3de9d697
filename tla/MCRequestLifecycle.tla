------------------------- MODULE MCRequestLifecycle -------------------------
(* RequestLifecycle for TLC: two asynchronous requests that a client keeps *)
(* and reuses, a save and a fetch, and one call of the synchronous API.    *)
(* All three share two addresses; with a third address, at which a worker  *)
(* can be made while another one waits behind the task of a restarted      *)
(* request, the save meets either the call or the fetch.                   *)
EXTENDS RequestLifecycle

CONSTANTS save, fetch, call, cache, guid, w1, w2, w3

MCNeeds == [r \in Request |-> IF r = save THEN {cache, guid} ELSE {cache}]

Scenario(requests, addresses) ==
    /\ state = [r \in Request |-> IF r \in requests THEN "inactive" ELSE "gone"]
    /\ phase = [w \in Worker |-> IF w \in addresses THEN "free" ELSE "taken"]

MCInit ==
    /\ Init
    /\ \/ Scenario(Request, {w1, w2})
       \/ Scenario({save, call}, Worker)
       \/ Scenario({save, fetch}, Worker)

MCSpec == MCInit /\ [][Next]_vars /\ Fairness
=============================================================================
