------------------------------ MODULE MCProcess ------------------------------
(* What lives and dies with a process of the system, for TLC: the rate     *)
(* limiter, the registry cache, the HyDE cache, the transactions of the    *)
(* requests that may be replayed, and the life cycle itself.  They share   *)
(* neither state nor clock, so each behaviour of the process is an         *)
(* interleaving of one of each; focus says which of them moves in a        *)
(* behaviour, and the others are held at one initial state.                *)
EXTENDS RateLimiter, RegistryCache, HydeCache, Idempotency, Startup, TLC

VARIABLE focus

everything == <<limiter, registry, hyde, vars, startup, focus>>

Parts == {"limiter", "registry", "hyde", "replay", "startup"}
ProcessInit ==
  /\ focus \in Parts
  /\ focus # "startup" => deployed = [i \in Instances |-> CHOOSE d \in Deployments : TRUE]
  /\ focus # "startup" => schema = 0
  /\ focus # "hyde" => generator = TRUE
  /\ focus # "limiter" => observed = CHOOSE o \in [who : Clients, since : {0}, spent : {0}] : TRUE
  /\ LimiterInit /\ RegistryInit /\ HydeInit /\ Init /\ StartupInit
ProcessNext ==
  \/ focus = "limiter"  /\ LimiterNext  /\ UNCHANGED <<registry, hyde, vars, startup, focus>>
  \/ focus = "registry" /\ RegistryNext /\ UNCHANGED <<limiter, hyde, vars, startup, focus>>
  \/ focus = "hyde"     /\ HydeNext     /\ UNCHANGED <<limiter, registry, vars, startup, focus>>
  \/ focus = "replay"   /\ Next         /\ UNCHANGED <<limiter, registry, hyde, startup, focus>>
  \/ focus = "startup"  /\ StartupNext  /\ UNCHANGED <<limiter, registry, hyde, vars, focus>>
ProcessSpec == ProcessInit /\ [][ProcessNext]_everything

(* HyDE: two spellings of one short query, two queries at the threshold    *)
(* with jargon at and above the limit, a question, and one for the bare    *)
(* retriever.                                                              *)
Searches ==
  {[key |-> "ca", words |-> 2, jargon |-> 2, imperative |-> FALSE],
   [key |-> "ca", words |-> 2, jargon |-> 0, imperative |-> FALSE],
   [key |-> "db", words |-> 10, jargon |-> 5, imperative |-> FALSE],
   [key |-> "db", words |-> 10, jargon |-> 4, imperative |-> FALSE],
   [key |-> "how", words |-> 8, jargon |-> 0, imperative |-> TRUE]}

(* Life cycle: deployments that differ in what goes wrong with them.       *)
Section == [present |-> TRUE, schema |-> TRUE, policy |-> TRUE, enabled |-> TRUE, env |-> TRUE]
Models  == [exists |-> TRUE, parses |-> TRUE, embedding |-> Section, generator |-> Section]
Api     == [kind |-> "api", url |-> "set", allowlist |-> FALSE, migrate |-> TRUE, head |-> 2,
            models |-> Models, security |-> TRUE, hyde |-> TRUE]
Ingester == [Api EXCEPT !.kind = "worker", !.allowlist = TRUE, !.hyde = FALSE]
Fleet ==
  {Api, Ingester,
   [Api EXCEPT !.head = 1, !.models.generator.enabled = FALSE,
               !.models.generator.policy = FALSE],
   [Api EXCEPT !.url = "unset", !.models.embedding.enabled = FALSE],
   [Api EXCEPT !.migrate = FALSE, !.security = FALSE, !.models.exists = FALSE],
   [Ingester EXCEPT !.url = "bad"],
   [Ingester EXCEPT !.head = 1, !.models.generator.env = FALSE]}

(* The parts draw their clients, requests and instances from the same      *)
(* model values, so that one permutation serves all of them.               *)
ProcessSymmetry == Permutations(Requests) \cup Permutations(Bodies)
                     \cup Permutations(Clients)
=============================================================================
