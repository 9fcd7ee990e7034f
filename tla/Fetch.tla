-------------------------------- MODULE Fetch --------------------------------
(* fetch_source: the files of one source.  A local directory or a fresh git *)
(* clone is walked; the URLs of an HTTP source are requested one by one,    *)
(* redirects followed by hand, each hop behind the host guard and with the  *)
(* process's resolver replaced while it connects (pin_dns).  Each fetcher   *)
(* is a thread of one process: the worker runs one.                         *)
(*                                                                          *)
(* A definition whose name starts with Mut is the definition after it with  *)
(* a plausible bug; the properties are shown to catch it.                   *)
EXTENDS Integers, Sequences, FiniteSets

CONSTANTS Fetchers,
          Sources,       \* [kind, items, allowlist]
          Hosts,         \* the hosts a redirect may name
          MaxFileBytes, MaxFiles, MaxRepoBytes,   \* IngestionCaps
          MaxHops        \* HttpConnector._MAX_REDIRECTS

ASSUME CapsAssumption ==
  {MaxFileBytes, MaxFiles, MaxRepoBytes} \subseteq Nat /\ MaxHops \in Nat \ {0}
(* A tree has files of some size each, an HTTP source URLs.                 *)
ASSUME SourcesAssumption ==
  \A s \in Sources :
    /\ Len(s.items) \in Nat
    /\ s.kind # "http" => \A k \in 1 .. Len(s.items) : s.items[k].size \in Nat

VARIABLES source,    \* what each fetcher was asked for
          at,        \* the item it is at
          phase,
          files,     \* FetchResult.files: the items, with their sizes
          skipped,   \* FetchResult.skipped: the items, with the reasons
          host, hops,   \* the current URL's host; the requests made for it
          tempdir,   \* the clone's directory exists
          resolver,  \* socket.getaddrinfo: the pins around the real one
          saved,     \* pin_dns: real_getaddrinfo
          holder     \* _dns_pin_lock

fetching == <<source, at, phase, files, skipped, host, hops, tempdir, resolver, saved, holder>>
pins == <<resolver, saved, holder>>

Items(f) == source[f].items
Item(f) == Items(f)[at[f]]
Done == {"returned", "cap_exceeded", "failed"}
Nobody == "nobody"
RealResolver == <<>>

Sum(sizes) ==
  LET upTo[n \in 0 .. Len(sizes)] == IF n = 0 THEN 0 ELSE upTo[n - 1] + sizes[n].size
  IN upTo[Len(sizes)]

Unfetched ==
  /\ at = [f \in Fetchers |-> 1]
  /\ phase = [f \in Fetchers |-> "start"]
  /\ files = [f \in Fetchers |-> <<>>]
  /\ skipped = [f \in Fetchers |-> <<>>]
  /\ host = [f \in Fetchers |-> Nobody]
  /\ hops = [f \in Fetchers |-> 0]
  /\ tempdir = [f \in Fetchers |-> FALSE]
  /\ resolver = RealResolver
  /\ saved = [f \in Fetchers |-> RealResolver]
  /\ holder = Nobody
FetchInit == source \in [Fetchers -> Sources] /\ Unfetched

-------------------------------------------------------------------------------
(* Where the loop over the items goes: on, or out.                          *)
Proceed(f, p) == phase' = [phase EXCEPT ![f] = p]
MutSkip(f, reason) == at' = [at EXCEPT ![f] = @ + 1] /\ UNCHANGED <<files, skipped>>
Skip(f, reason) ==
  /\ skipped' = [skipped EXCEPT ![f] = Append(@, [item |-> at[f], reason |-> reason])]
  /\ at' = [at EXCEPT ![f] = @ + 1]
  /\ UNCHANGED files
Keep(f, size) ==
  /\ files' = [files EXCEPT ![f] = Append(@, [item |-> at[f], size |-> size])]
  /\ at' = [at EXCEPT ![f] = @ + 1]
  /\ UNCHANGED skipped
Refuse(f) == Proceed(f, "cap_exceeded") /\ UNCHANGED <<at, files, skipped>>

OverBytes(f, size) == Sum(files[f]) + size > MaxRepoBytes
MutOverFiles(f) == Len(files[f]) > MaxFiles
OverFiles(f) == Len(files[f]) >= MaxFiles

-------------------------------------------------------------------------------
(* LocalConnector and GitConnector.                                         *)
OpenLocal(f) ==
  /\ phase[f] = "start" /\ source[f].kind = "local"
  /\ \E present \in BOOLEAN : Proceed(f, IF present THEN "walk" ELSE "failed")
  /\ UNCHANGED <<source, at, files, skipped, host, hops, tempdir, pins>>

StartClone(f) ==
  /\ phase[f] = "start" /\ source[f].kind = "git"
  /\ tempdir' = [tempdir EXCEPT ![f] = TRUE]
  /\ Proceed(f, "clone")
  /\ UNCHANGED <<source, at, files, skipped, host, hops, pins>>

(* git clone or git rev-parse exits; a failure leaves the with block.       *)
EndClone(f) ==
  /\ phase[f] = "clone"
  /\ \E ok \in BOOLEAN :
       /\ Proceed(f, IF ok THEN "walk" ELSE "failed")
       /\ tempdir' = [tempdir EXCEPT ![f] = ok]
  /\ UNCHANGED <<source, at, files, skipped, host, hops, pins>>

(* Why _walk passes over a file: the first of the tests it fails.           *)
SkipReasons(file) ==
  (IF "escapes" \in file.marks THEN <<"symlink_escape">> ELSE <<>>)
  \o (IF file.marks \cap {"dotfile", "not_included", "excluded"} # {}
      THEN <<"excluded_by_pattern">> ELSE <<>>)
  \o (IF "other_suffix" \in file.marks THEN <<"unsupported_file_type">> ELSE <<>>)
  \o (IF file.size > MaxFileBytes THEN <<"too_large">> ELSE <<>>)

WalkFile(f) ==
  /\ phase[f] = "walk" /\ at[f] <= Len(Items(f))
  /\ LET reasons == SkipReasons(Item(f))
     IN \/ /\ reasons # <<>>
           /\ Skip(f, reasons[1]) /\ UNCHANGED <<phase, tempdir>>
        \/ /\ reasons = <<>>
           /\ OverBytes(f, Item(f).size) \/ OverFiles(f)
           /\ Refuse(f) /\ tempdir' = [tempdir EXCEPT ![f] = FALSE]
        \/ /\ reasons = <<>>
           /\ ~OverBytes(f, Item(f).size) /\ ~OverFiles(f)
           /\ Keep(f, Item(f).size) /\ UNCHANGED <<phase, tempdir>>
  /\ UNCHANGED <<source, host, hops, pins>>

(* A file that stat or read_bytes cannot read: an OSError out of the walk.  *)
FileFails(f) ==
  /\ phase[f] = "walk" /\ at[f] <= Len(Items(f))
  /\ SkipReasons(Item(f)) \in {<<>>, <<"too_large">>}
  /\ Proceed(f, "failed")
  /\ tempdir' = [tempdir EXCEPT ![f] = FALSE]
  /\ UNCHANGED <<source, at, files, skipped, host, hops, pins>>

EndWalk(f) ==
  /\ phase[f] = "walk" /\ at[f] > Len(Items(f))
  /\ Proceed(f, "returned")
  /\ tempdir' = [tempdir EXCEPT ![f] = FALSE]
  /\ UNCHANGED <<source, at, files, skipped, host, hops, pins>>

-------------------------------------------------------------------------------
(* HttpConnector.                                                           *)
NextUrl(f) ==
  /\ source[f].kind = "http" /\ phase[f] \in {"start", "url"} /\ at[f] <= Len(Items(f))
  /\ host' = [host EXCEPT ![f] = Item(f).host]
  /\ hops' = [hops EXCEPT ![f] = 0]
  /\ Proceed(f, "guard")
  /\ UNCHANGED <<source, at, files, skipped, tempdir, pins>>

(* A configured URL that httpx cannot parse: nothing catches InvalidURL.    *)
UrlFails(f) ==
  /\ source[f].kind = "http" /\ phase[f] \in {"start", "url"} /\ at[f] <= Len(Items(f))
  /\ Proceed(f, "failed")
  /\ UNCHANGED <<source, at, files, skipped, host, hops, tempdir, pins>>

EndUrls(f) ==
  /\ source[f].kind = "http" /\ phase[f] \in {"start", "url"} /\ at[f] > Len(Items(f))
  /\ Proceed(f, "returned")
  /\ UNCHANGED <<source, at, files, skipped, host, hops, tempdir, pins>>

Allowlisted(f) == host[f] \in source[f].allowlist

(* What getaddrinfo may answer (nothing, when it fails), and whether every  *)
(* address of it is public.                                                 *)
Resolutions == SUBSET {"public", "private"}
AllPublic(addresses) == addresses = {"public"}

(* _guard_url: the host is on the source's list and resolves to public      *)
(* addresses only; pin_dns then reads the resolver it will put back.        *)
Guard(f) ==
  /\ phase[f] = "guard"
  /\ \E addresses \in Resolutions :
       \/ /\ Allowlisted(f) /\ AllPublic(addresses)
          /\ saved' = [saved EXCEPT ![f] = resolver]
          /\ Proceed(f, "pin") /\ UNCHANGED <<at, files, skipped>>
       \/ /\ ~(Allowlisted(f) /\ AllPublic(addresses))
          /\ Skip(f, "excluded_by_pattern")
          /\ Proceed(f, "url") /\ UNCHANGED saved
  /\ UNCHANGED <<source, host, hops, tempdir, resolver, holder>>

Pin(f) ==
  /\ phase[f] = "pin" /\ holder = Nobody
  /\ holder' = f
  /\ resolver' = <<f>> \o saved[f]
  /\ hops' = [hops EXCEPT ![f] = @ + 1]
  /\ Proceed(f, "get")
  /\ UNCHANGED <<source, at, files, skipped, host, tempdir, saved>>

MutUnpin(f) == holder' = Nobody /\ UNCHANGED resolver
Unpin(f) == resolver' = saved[f] /\ holder' = Nobody

(* The request ends in an HTTP error, a status of 400 or more, a redirect   *)
(* that is not followed, or a body over the file's cap; ...                 *)
GetNothing(f) ==
  /\ phase[f] = "get" /\ Unpin(f)
  /\ \E reason \in {"excluded_by_pattern", "too_large"} : Skip(f, reason)
  /\ Proceed(f, "url")
  /\ UNCHANGED <<source, host, hops, tempdir, saved>>

(* ... in a redirect, to any host, to another path of this one, or to a     *)
(* Location httpx cannot parse, whose InvalidURL nothing catches; ...       *)
GetRedirect(f) ==
  /\ phase[f] = "get" /\ Unpin(f)
  /\ \/ /\ hops[f] < MaxHops
        /\ \E h \in Hosts : host' = [host EXCEPT ![f] = h]
        /\ Proceed(f, "guard") /\ UNCHANGED <<at, files, skipped>>
     \/ /\ hops[f] = MaxHops
        /\ Skip(f, "excluded_by_pattern")
        /\ Proceed(f, "url") /\ UNCHANGED host
     \/ Proceed(f, "failed") /\ UNCHANGED <<at, files, skipped, host>>
  /\ UNCHANGED <<source, hops, tempdir, saved>>

(* ... or in a body, which the caps on the whole source may refuse.         *)
GetBody(f) ==
  /\ phase[f] = "get" /\ Unpin(f)
  /\ \E size \in 0 .. MaxFileBytes :
       \/ (OverBytes(f, size) \/ OverFiles(f)) /\ Refuse(f)
       \/ /\ ~OverBytes(f, size) /\ ~OverFiles(f)
          /\ Keep(f, size) /\ Proceed(f, "url")
  /\ UNCHANGED <<source, host, hops, tempdir, saved>>

FetchStep(f) ==
  \/ OpenLocal(f) \/ StartClone(f) \/ EndClone(f) \/ WalkFile(f) \/ FileFails(f)
  \/ EndWalk(f) \/ NextUrl(f) \/ UrlFails(f) \/ EndUrls(f) \/ Guard(f) \/ Pin(f)
  \/ GetNothing(f) \/ GetRedirect(f) \/ GetBody(f)
FetchNext == \E f \in Fetchers : FetchStep(f)
FetchSpec == FetchInit /\ [][FetchNext]_fetching

-------------------------------------------------------------------------------
(* Properties.                                                              *)
(* The files of a tree that pass every test, up to item i, and their bytes. *)
Wanted(items, i) == {k \in 1 .. i : SkipReasons(items[k]) = <<>>}
WantedBytes(items, i) ==
  Sum([k \in 1 .. i |-> [size |-> IF k \in Wanted(items, i) THEN items[k].size ELSE 0]])

(* IngestionCaps (connectors.py:5-6): a result stays within the three caps, *)
(* and a walk refuses the source when, and only when, the files it would    *)
(* have to take break one: neither an exact fit nor a skipped file counts.  *)
CapsAreExact ==
  \A f \in Fetchers :
    /\ Len(files[f]) <= MaxFiles /\ Sum(files[f]) <= MaxRepoBytes
    /\ \A k \in 1 .. Len(files[f]) : files[f][k].size <= MaxFileBytes
    /\ source[f].kind # "http" /\ phase[f] = "cap_exceeded" =>
         \/ Cardinality(Wanted(Items(f), at[f])) > MaxFiles
         \/ WantedBytes(Items(f), at[f]) > MaxRepoBytes
    /\ source[f].kind # "http" /\ phase[f] = "returned" =>
         Len(files[f]) = Cardinality(Wanted(Items(f), Len(Items(f))))

ItemsOf(list) == {list[k].item : k \in 1 .. Len(list)}

(* FetchResult ("skipped records every file the connector saw but did not   *)
(* return", connectors.py:104): every item so far is returned or skipped,   *)
(* once, in order; a result that is returned covers them all.               *)
EveryItemAccounted ==
  \A f \in Fetchers :
    LET taken == ItemsOf(files[f])
        passed == ItemsOf(skipped[f])
    IN /\ taken \cup passed = 1 .. (at[f] - 1) /\ taken \cap passed = {}
       /\ Len(files[f]) + Len(skipped[f]) = at[f] - 1
       /\ phase[f] = "returned" => at[f] = Len(Items(f)) + 1

(* pin_dns (ssrf.py) and the connectors' temporary directories, for one     *)
(* thread: whichever way a fetch ends, the process has its own resolver     *)
(* back and no clone is left on the disk.                                   *)
NothingLeftBehind ==
  (\A f \in Fetchers : phase[f] \in Done) =>
    /\ resolver = RealResolver /\ holder = Nobody
    /\ \A f \in Fetchers : ~tempdir[f]
=============================================================================
