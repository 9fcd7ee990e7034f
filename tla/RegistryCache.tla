---------------------------- MODULE RegistryCache ----------------------------
(***************************************************************************)
(* GET /v1/registry (api/registry.py): the filter vocabulary, aggregated by*)
(* one SELECT per dimension (db/repositories/registry.py) and cached in the*)
(* process for RegistryTtl.  Requests interleave at the SELECTs; each      *)
(* SELECT sees the documents as of its own start, so a payload says of     *)
(* every dimension which version of the corpus it counted.                 *)
(*                                                                         *)
(* A definition whose name starts with Mut is the definition after it with *)
(* a plausible bug; the properties are shown to catch it.                  *)
(***************************************************************************)
EXTENDS Naturals

CONSTANTS
  Readers,     \* requests that may arrive
  Dimensions,  \* _DIMENSION_COLUMNS
  RegistryTtl, \* KILN_REGISTRY_CACHE_SECONDS
  MaxVersion,  \* ingestion runs (bound of the model)
  MaxWall      \* last instant of the model's clock (bound of the model)

ASSUME RegistryAssumption ==
  Dimensions # {} /\ RegistryTtl \in Nat /\ MaxVersion \in Nat /\ MaxWall \in Nat

VARIABLES
  version,  \* commits of the ingestion so far
  ended,    \* ended[v]: when version v was replaced by v + 1
  wall,     \* datetime.now(UTC)
  built,    \* _cache_built_at, or Never
  payload,  \* _cache_payload, or Nothing
  phase,    \* phase[r]: where request r is
  arrived,  \* arrived[r]: its "now"
  rows,     \* rows[r]: version counted for each dimension so far, or Unread
  answer,   \* answer[r]: the payload it was sent, or Nothing
  first     \* history: version of the corpus when r arrived

registry == <<version, ended, wall, built, payload, phase, arrived, rows, answer, first>>

Never   == MaxWall + 1
Unread  == MaxVersion + 1
Nothing == [d \in Dimensions |-> Unread]
Phases  == {"new", "build", "done", "failed"}

RegistryInit ==
  /\ version = 0
  /\ ended = [v \in 0..MaxVersion |-> 0]
  /\ wall = 0
  /\ built = Never /\ payload = Nothing
  /\ phase = [r \in Readers |-> "new"]
  /\ arrived = [r \in Readers |-> 0]
  /\ rows = [r \in Readers |-> Nothing]
  /\ answer = [r \in Readers |-> Nothing]
  /\ first = [r \in Readers |-> 0]

MutTtlExpired == built = Never \/ built + RegistryTtl < wall
(* _ttl_expired: nothing cached, or an age of RegistryTtl.               *)
TtlExpired == built = Never \/ built + RegistryTtl <= wall

(* registry(): from the cache, or on to aggregate_all.                     *)
Request(r) ==
  /\ phase[r] = "new"
  /\ arrived' = [arrived EXCEPT ![r] = wall]
  /\ first' = [first EXCEPT ![r] = version]
  /\ \/ /\ TtlExpired
        /\ phase' = [phase EXCEPT ![r] = "build"]
        /\ UNCHANGED answer
     \/ /\ ~TtlExpired
        /\ phase' = [phase EXCEPT ![r] = "done"]
        /\ answer' = [answer EXCEPT ![r] = payload]
  /\ UNCHANGED <<version, ended, wall, built, payload, rows>>

(* aggregate(dimension), in the order of _DIMENSION_COLUMNS or any other.  *)
Aggregate(r, d) ==
  /\ phase[r] = "build" /\ rows[r][d] = Unread
  /\ rows' = [rows EXCEPT ![r] = [rows[r] EXCEPT ![d] = version]]
  /\ UNCHANGED <<version, ended, wall, built, payload, phase, arrived, answer, first>>

(* All dimensions are there: cache the payload as of the request's "now",  *)
(* over whatever a concurrent request has cached meanwhile, and send it.   *)
Publish(r) ==
  /\ phase[r] = "build" /\ \A d \in Dimensions : rows[r][d] # Unread
  /\ payload' = rows[r] /\ built' = arrived[r]
  /\ answer' = [answer EXCEPT ![r] = rows[r]]
  /\ phase' = [phase EXCEPT ![r] = "done"]
  /\ rows' = [rows EXCEPT ![r] = Nothing]
  /\ UNCHANGED <<version, ended, wall, arrived, first>>

(* A SELECT raises or the client goes away: the cache stays as it is.      *)
FailBuild(r) ==
  /\ phase[r] = "build"
  /\ phase' = [phase EXCEPT ![r] = "failed"]
  /\ rows' = [rows EXCEPT ![r] = Nothing]
  /\ UNCHANGED <<version, ended, wall, built, payload, arrived, answer, first>>

(* An ingestion run commits documents.                                     *)
Ingest ==
  /\ version < MaxVersion
  /\ version' = version + 1
  /\ ended' = [ended EXCEPT ![version] = wall]
  /\ UNCHANGED <<wall, built, payload, phase, arrived, rows, answer, first>>

WallTick ==
  /\ wall < MaxWall
  /\ wall' = wall + 1
  /\ UNCHANGED <<version, ended, built, payload, phase, arrived, rows, answer, first>>

RegistryNext ==
  \/ \E r \in Readers :
       Request(r) \/ Publish(r) \/ FailBuild(r) \/ \E d \in Dimensions : Aggregate(r, d)
  \/ Ingest
  \/ WallTick
RegistrySpec == RegistryInit /\ [][RegistryNext]_registry
-----------------------------------------------------------------------------
RegistryTypeOK ==
  LET Payloads == [Dimensions -> 0..MaxVersion + 1] IN
  /\ version \in 0..MaxVersion
  /\ ended \in [0..MaxVersion -> Nat]
  /\ wall \in 0..MaxWall
  /\ built \in 0..MaxWall + 1
  /\ payload \in Payloads
  /\ phase \in [Readers -> Phases]
  /\ arrived \in [Readers -> 0..MaxWall]
  /\ rows \in [Readers -> Payloads]
  /\ answer \in [Readers -> Payloads]
  /\ first \in [Readers -> 0..MaxVersion]

(* Counts of version v were right at instant t or later.                   *)
TrueAfter(v, t) == v <= version /\ (v < version => t <= ended[v])

(* "a 5-min window means the worst case is a 5-min stale aggregate": what a*)
(* request is told was replaced less than RegistryTtl before it arrived, if*)
(* at all, however long the aggregations took and in whatever order they   *)
(* ended.                                                                  *)
StaleWindow ==
  \A r \in Readers, d \in Dimensions :
    phase[r] = "done" =>
      /\ answer[r][d] <= version
      /\ answer[r][d] < first[r] => arrived[r] < ended[answer[r][d]] + RegistryTtl

(* The inductive invariant: what is cached, and what a request has counted *)
(* so far, was right when built_at says, and later.                        *)
CacheHonest ==
  /\ built # Never => built <= wall /\ \A d \in Dimensions : TrueAfter(payload[d], built)
  /\ built = Never => payload = Nothing
RowsHonest ==
  \A r \in Readers, d \in Dimensions :
    /\ arrived[r] <= wall /\ first[r] <= version
    /\ rows[r][d] # Unread => TrueAfter(rows[r][d], arrived[r]) /\ first[r] <= rows[r][d]
    /\ phase[r] # "build" => rows[r][d] = Unread
PastKept == \A v \in 0..MaxVersion : v < version => ended[v] <= wall
RegistryInv ==
  /\ RegistryTypeOK
  /\ CacheHonest
  /\ RowsHonest
  /\ PastKept
  /\ StaleWindow
=============================================================================
