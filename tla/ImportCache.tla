----------------------------- MODULE ImportCache -----------------------------
(***************************************************************************)
(* Resolver.read (internal/rules/resolver.go): an import with an address   *)
(* is asked for with the validators of its row in import_cache.  Imports   *)
(* of one address, in this file and in files that are normalized at the    *)
(* same time, read and write one row.                                      *)
(*                                                                         *)
(* What a server publishes under an address is numbered; a row's validator *)
(* and content, written by one statement, are one of these numbers.        *)
(***************************************************************************)
EXTENDS Integers, Sequences

CONSTANTS
    Urls,
    NoUrl,              \* an import with a path
    MaxPublished        \* bound: what a server publishes

ASSUME ImportCacheAssumption == NoUrl \notin Urls /\ MaxPublished \in Nat \ {0}

VARIABLES
    published,          \* the servers' current body
    cache,              \* import_cache, 0: no row
    reads               \* each import's read: where it is, its local variables

cacheVars == <<published, cache, reads>>

CacheInit ==
    /\ published = [u \in Urls |-> 1] /\ cache = [u \in Urls |-> 0]
    /\ reads = <<>>

(* since: what was published when the reads began, after whatever servers  *)
(* published and earlier reads stored.                                     *)
BeginReads(urls) ==
    /\ IF \A i \in DOMAIN urls : urls[i] = NoUrl THEN UNCHANGED <<published, cache>>
       ELSE /\ published' \in [Urls -> 1..MaxPublished]
            /\ cache' \in [Urls -> 0..MaxPublished]
            /\ \A u \in Urls : cache'[u] <= published'[u]
    /\ reads' = [i \in DOMAIN urls |->
          [at |-> IF urls[i] = NoUrl THEN "path" ELSE "look", url |-> urls[i],
           cached |-> 0, body |-> 0,
           since |-> IF urls[i] = NoUrl THEN 0 ELSE published'[urls[i]]]]

Look(i) ==
    /\ reads[i].at = "look"
    /\ reads' = [reads EXCEPT ![i] = [@ EXCEPT !.at = "ask", !.cached = cache[reads[i].url]]]
    /\ UNCHANGED <<published, cache>>

(* Mutant: the body of a 304 is taken from the table.                      *)
NotModifiedRereads(i) ==
    /\ reads[i].at = "ask"
    /\ reads[i].cached = published[reads[i].url]
    /\ reads' = [reads EXCEPT ![i] =
          [@ EXCEPT !.at = "returned", !.cached = 0, !.body = cache[reads[i].url]]]
    /\ UNCHANGED <<published, cache>>

(* 304: the row that was sent along has the current body.                  *)
NotModified(i) ==
    /\ reads[i].at = "ask"
    /\ reads[i].cached = published[reads[i].url]
    /\ reads' = [reads EXCEPT ![i] = [@ EXCEPT !.at = "returned", !.cached = 0, !.body = reads[i].cached]]
    /\ UNCHANGED <<published, cache>>

(* 200, also from a server that does not look at validators.               *)
Modified(i) ==
    /\ reads[i].at = "ask"
    /\ reads' = [reads EXCEPT ![i] =
          [@ EXCEPT !.at = "store", !.cached = 0, !.body = published[reads[i].url]]]
    /\ UNCHANGED <<published, cache>>

PutImportCache(i) ==
    /\ reads[i].at = "store"
    /\ reads' = [reads EXCEPT ![i] = [@ EXCEPT !.at = "returned"]]
    /\ cache' = [cache EXCEPT ![reads[i].url] = reads[i].body]
    /\ UNCHANGED published

(* The database or the server fails.                                       *)
ReadFails(i) ==
    /\ reads[i].at \in {"look", "ask", "store"}
    /\ reads' = [reads EXCEPT ![i] = [@ EXCEPT !.at = "failed", !.cached = 0, !.body = 0]]
    /\ UNCHANGED <<published, cache>>

(* While this file is read the server publishes, and reads of other files  *)
(* store what they were answered a moment ago.                             *)
Publish(u) ==
    /\ published[u] < MaxPublished
    /\ published' = [published EXCEPT ![u] = @ + 1]
    /\ UNCHANGED <<cache, reads>>

OthersStore(u) ==
    /\ \E body \in 1..published[u] : cache' = [cache EXCEPT ![u] = body]
    /\ UNCHANGED <<published, reads>>

UnderWay(u) == \E i \in DOMAIN reads : reads[i].url = u /\ reads[i].at \in {"look", "ask", "store"}

CacheStep ==
    \/ \E i \in DOMAIN reads :
          Look(i) \/ NotModified(i) \/ Modified(i) \/ PutImportCache(i) \/ ReadFails(i)
    \/ \E u \in Urls : UnderWay(u) /\ (Publish(u) \/ OthersStore(u))

-----------------------------------------------------------------------------
(* A read returns a body that its server had at some moment of the read,   *)
(* whatever row others have stored meanwhile, newer or older: a 304 stands *)
(* for the content whose validator was sent.                               *)
FreshBody ==
    \A i \in DOMAIN reads : reads[i].at = "returned" =>
        reads[i].body \in reads[i].since .. published[reads[i].url]

(* A read of an address goes on from what was published when it began, and *)
(* what it was answered was published since.                               *)
Read ==
    [at : {"path", "look", "ask", "store", "returned", "failed"}, url : Urls \cup {NoUrl},
     cached : Nat, body : Nat, since : Nat]

Reads ==
    /\ published \in [Urls -> Nat] /\ cache \in [Urls -> Nat]
    /\ \A i \in DOMAIN reads :
          /\ reads[i] \in Read
          /\ reads[i].at \in {"look", "ask", "store", "returned"} =>
                reads[i].url \in Urls /\ reads[i].since <= published[reads[i].url]
          /\ reads[i].at \in {"store", "returned"} =>
                reads[i].body \in reads[i].since .. published[reads[i].url]

=============================================================================
