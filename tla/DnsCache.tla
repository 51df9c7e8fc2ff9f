-------------------------------- MODULE DnsCache --------------------------------
(***************************************************************************)
(* The cache of host names (dnscache.c): names that were looked up, oldest *)
(* first, and those of dns_cache_hosts(), which are kept and read again    *)
(* when the file is newer than at the last reading.                        *)
(***************************************************************************)
EXTENDS Integers, Sequences, FiniteSets, SequencesExt, Functions

CONSTANTS
  Addr, HostName,
  Failed,                 \* the NULL name of a lookup that failed
  CacheSize,              \* the values of dns_cache_size(), of the configurations
  dns_cache_expire, dns_cache_expire_failed,
  MaxNow, MaxHostsChanges, MaxParams  \* bounds

VARIABLES
  dynamic,           \* the addresses of the list cache_first..cache_last
  cached,            \* the dynamic entries: [name, resolved]
  persistent,        \* the persistent entries: the name of each address
  persistent_count,  \* dns_cache_persistent_count
  dns_cache_size,
  persist_only,      \* use_dns(persist_only)
  hosts_mtime,       \* dns_cache_hosts_mtime
  now,
  hosts,             \* the file: [names, mtime], or <<>> if there is none
  hosts_changes, params,
  loaded,            \* history: the names of the file as it was last read
  seen,              \* history: the names in the file when it was last looked at
  looked,            \* history: when that was
  overlooked,        \* history: it could not be opened, or was given an older time since
  replaced,          \* history: how many dynamic entries a persistent one replaced
  overfull,          \* history: the size of the dynamic list was lowered below its length
  aborted            \* the assertion of dns_cache_key_hash failed

entry_vars == <<dynamic, cached, persistent, persistent_count, replaced, aborted>>
param_vars == <<dns_cache_size, persist_only, params, overfull>>
file_vars == <<hosts, hosts_changes>>
seen_vars == <<loaded, seen, looked>>
dns_vars == <<entry_vars, param_vars, file_vars, seen_vars, overlooked, hosts_mtime, now>>

ASSUME DnsCacheAssumption ==
  /\ IsFiniteSet(Addr) /\ CacheSize \subseteq Nat
  /\ MaxNow \in Nat /\ MaxHostsChanges \in Nat /\ MaxParams \in Nat

Empty == [a \in {} |-> {}]

\* What is known of some of the addresses.
Table(V) == UNION {[S -> V] : S \in SUBSET Addr}

Element == [name : HostName \cup {Failed}, resolved : 0..MaxNow]

DnsCacheTypeOK ==
  /\ dynamic \in Seq(Addr) /\ cached \in Table(Element)
  /\ persistent \in Table(HostName) /\ persistent_count \in Int
  /\ dns_cache_size \in CacheSize /\ now \in 0..MaxNow
  /\ hosts_mtime \in -1..MaxNow
  /\ hosts = <<>> \/ hosts \in [names : Table(HostName), mtime : 0..MaxNow]
  /\ hosts_changes \in 0..MaxHostsChanges /\ params \in 0..MaxParams
  /\ loaded \in Table(HostName) /\ seen \in Table(HostName)
  /\ looked \in -1..MaxNow /\ replaced \in Nat
  /\ persist_only \in BOOLEAN /\ overlooked \in BOOLEAN
  /\ overfull \in BOOLEAN /\ aborted \in BOOLEAN

DnsCacheInit ==
  /\ dynamic = <<>> /\ cached = Empty /\ persistent = Empty /\ persistent_count = 0
  /\ dns_cache_size \in CacheSize /\ hosts_mtime = -1 /\ now = 0 /\ hosts = <<>>
  /\ persist_only \in BOOLEAN
  /\ hosts_changes = 0 /\ params = 0 /\ loaded = Empty /\ seen = Empty
  /\ looked = -1 /\ overlooked = FALSE /\ replaced = 0
  /\ overfull = FALSE /\ aborted = FALSE

-----------------------------------------------------------------------------
(* dns_cache_store, on a record of the entries and the count. *)

Entries == [dynamic |-> dynamic, cached |-> cached, persistent |-> persistent,
            count |-> persistent_count, replaced |-> replaced, aborted |-> aborted]
Size(e) == Cardinality(DOMAIN e.cached \cup DOMAIN e.persistent)
Forget(e, a) == [e EXCEPT !.dynamic = RemoveFirst(@, a),
                          !.cached = Restrict(@, DOMAIN @ \ {a})]

\* The oldest dynamic element is removed; if there is none, the end of the list
\* is taken for one, and its key has no family.
Evicted(e) == IF e.dynamic = <<>> THEN [e EXCEPT !.aborted = TRUE]
              ELSE Forget(e, Head(e.dynamic))

Bounded(e) == IF Size(e) - e.count > dns_cache_size THEN Evicted(e) ELSE e

StoreDynamic(e, a, name) ==
  Bounded([Forget(e, a) EXCEPT !.dynamic = Append(@, a),
                               !.cached = [b \in DOMAIN @ \cup {a} |->
                                  IF b = a THEN [name |-> name, resolved |-> now] ELSE @[b]],
                               !.persistent = Restrict(@, DOMAIN @ \ {a})])

\* Mutant: every persistent entry is counted.
AllCounted(e, a, name) ==
  Bounded([Forget(e, a) EXCEPT !.persistent = [b \in DOMAIN @ \cup {a} |->
                                                 IF b = a THEN name ELSE @[b]],
                               !.replaced = IF a \in DOMAIN e.cached THEN @ + 1 ELSE @,
                               !.count = @ + 1])
\* Counted only if the table grew: a dynamic entry that is replaced was not
\* counted, and neither is the persistent one in its place.
StorePersistent(e, a, name) ==
  Bounded([Forget(e, a) EXCEPT !.persistent = [b \in DOMAIN @ \cup {a} |->
                                                 IF b = a THEN name ELSE @[b]],
                               !.replaced = IF a \in DOMAIN e.cached THEN @ + 1 ELSE @,
                               !.count = IF a \in DOMAIN e.cached \cup DOMAIN e.persistent
                                         THEN @ ELSE @ + 1])

\* Mutant: the old persistent entries stay.
CleanedNot(e) == e
\* dns_cache_cleanup_persistent_hosts.
Cleaned(e) == [e EXCEPT !.persistent = Empty,
                        !.count = @ - Cardinality(DOMAIN e.persistent)]

\* The lines of the file, in some order.
Loaded(e, names) ==
  LET lines == SetToSeq(DOMAIN names)
      after[n \in 0..Len(lines)] ==
        IF n = 0 THEN Cleaned(e)
        ELSE StorePersistent(after[n - 1], lines[n], names[lines[n]])
  IN  after[Len(lines)]

\* dns_cache_check_hosts: a file that cannot be opened leaves nothing, and is not
\* tried again until it is newer.
Newer == hosts # <<>> /\ (hosts_mtime = -1 \/ hosts.mtime > hosts_mtime)
Names == IF hosts = <<>> THEN Empty ELSE hosts.names
Checked(opened) ==
  IF hosts # <<>> /\ ~Newer THEN Entries ELSE Loaded(Entries, IF opened THEN Names ELSE Empty)

CheckHosts(opened) ==
  /\ ~Newer => opened
  /\ hosts_mtime' = IF Newer THEN hosts.mtime ELSE hosts_mtime
  /\ loaded' = IF hosts # <<>> /\ ~Newer THEN loaded ELSE IF opened THEN Names ELSE Empty
  /\ seen' = Names /\ looked' = now
  /\ overlooked' = IF Newer THEN ~opened ELSE hosts # <<>> /\ overlooked

SetEntries(e) ==
  /\ dynamic' = e.dynamic /\ cached' = e.cached /\ persistent' = e.persistent
  /\ persistent_count' = e.count /\ replaced' = e.replaced /\ aborted' = e.aborted

-----------------------------------------------------------------------------
(* dns_cache_lookup, and resolve_hostname after a miss. *)

Fresh(entry) ==
  IF entry.name = Failed THEN entry.resolved >= now - dns_cache_expire_failed
  ELSE entry.resolved >= now - dns_cache_expire

\* With persist_only, nothing is asked of the resolver, and nothing stored.
Resolve(a, resolved, opened) ==
  LET e == Checked(opened)
      hit == a \in DOMAIN e.persistent \/ (a \in DOMAIN e.cached /\ Fresh(e.cached[a]))
      asked == ~hit /\ ~persist_only
  IN  /\ ~aborted
      /\ ~asked => resolved = Failed
      /\ SetEntries(IF asked /\ ~e.aborted THEN StoreDynamic(e, a, resolved) ELSE e)
      /\ CheckHosts(opened)
      /\ UNCHANGED <<param_vars, file_vars, now>>

\* cfg_init of a further configuration.
SetParams(size, only) ==
  /\ ~aborted /\ params < MaxParams /\ params' = params + 1
  /\ dns_cache_size' = size /\ persist_only' = only
  /\ overfull' = (overfull \/ size < dns_cache_size)
  /\ hosts_mtime' = -1
  /\ UNCHANGED <<entry_vars, file_vars, seen_vars, overlooked, now>>

DnsClock ==
  /\ now < MaxNow /\ now' = now + 1
  /\ UNCHANGED <<entry_vars, param_vars, file_vars, seen_vars, overlooked, hosts_mtime>>

\* The file is written, or replaced by an older one, or removed.
ChangeHosts(names, mtime) ==
  /\ hosts_changes < MaxHostsChanges /\ hosts_changes' = hosts_changes + 1
  /\ hosts' = IF names = Empty THEN <<>> ELSE [names |-> names, mtime |-> mtime]
  /\ overlooked' = (overlooked \/ (names # Empty /\ mtime <= looked))
  /\ UNCHANGED <<entry_vars, param_vars, seen_vars, hosts_mtime, now>>

DnsCacheNext ==
  \/ DnsClock
  \/ \E a \in Addr, n \in HostName \cup {Failed}, opened \in BOOLEAN : Resolve(a, n, opened)
  \/ \E size \in CacheSize, only \in BOOLEAN : SetParams(size, only)
  \/ \E S \in SUBSET Addr, n \in HostName, mtime \in 0..now : ChangeHosts([a \in S |-> n], mtime)

DnsCacheSpec == DnsCacheInit /\ [][DnsCacheNext]_dns_vars

-----------------------------------------------------------------------------
\* Whatever is stored, replaced and removed: the persistent entries are those of
\* the hosts file as it was last read, none of them pushed out.  And those are
\* what the last lookup found in the file, unless that could not be opened, or
\* was given a time no later than the lookup before (it may then be missed until
\* it is changed again or the configuration is loaded).
HostsLoaded ==
  ~aborted => persistent = loaded /\ (~overlooked => loaded = seen)

\* The count of persistent entries lacks exactly those that replaced a dynamic
\* one, though "persistent elements are not counted" against dns_cache_size():
\* each of these takes a place of the dynamic names for good.  The places left are
\* never exceeded unless a reload lowered the size, and the assertion of
\* dns_cache_key_hash fails only if it lowered it below the places taken.
PlacesTaken ==
  IF aborted THEN overfull /\ replaced > dns_cache_size
  ELSE /\ persistent_count = Cardinality(DOMAIN persistent) - replaced
       /\ ~overfull => Len(dynamic) + replaced <= dns_cache_size

\* The two lists and the count of dns_cache_store agree with the hosts file and
\* with dns_cache_size() in these ways.
CacheConsistent == HostsLoaded /\ PlacesTaken
=============================================================================
