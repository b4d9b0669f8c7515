---------------------------- MODULE SessionCache ----------------------------
(***************************************************************************)
(* The session cache of ssl/ssl_sess.c, shared by the connections of one   *)
(* SSL_CTX, each in a thread of its own: a hash table and a doubly linked  *)
(* list under CRYPTO_LOCK_SSL_CTX, atomic reference counts, the callbacks  *)
(* behind which the application may keep a cache of its own, resumption on *)
(* the server and on the client, bad shutdowns, time-outs.                 *)
(*                                                                         *)
(* A section under the lock is one step, or holds lock through several     *)
(* steps where the code loops; between sections the threads interleave.    *)
(***************************************************************************)
EXTENDS Integers, FiniteSets, Sequences

CONSTANTS
  Session,      \* the addresses SSL_SESSION_new can return
  Id,           \* the session IDs
  Thread,
  CacheSize,    \* session_cache_size
  MaxTime,      \* bound: the clock stops there
  Roles,        \* what the connections are: "server", "client"
  Features,     \* "external": the application has a cache behind the callbacks,
                \* of pointers to sessions;
                \* "switch": SSL_set_SSL_CTX is called in the handshake;
                \* "renew": servers renew the ticket of a resumed session
  Null, HeadPtr, TailPtr   \* NULL and the two list sentinels

ASSUME SizesAssumption ==
  IsFiniteSet(Session) /\ CacheSize \in Nat \ {0} /\ MaxTime \in Nat /\ Roles \subseteq {"server", "client"}
ASSUME PointersAssumption ==
  Null # HeadPtr /\ Null # TailPtr /\ HeadPtr # TailPtr
  /\ {Null, HeadPtr, TailPtr} \cap (Session \cup Id \cup Thread) = {}

VARIABLES
  mem,      \* mem[s]: the SSL_SESSION at address s
  cache,    \* ctx->sessions as pairs of a bucket and a session, the list's ends
  lock,     \* the thread inside CRYPTO_LOCK_SSL_CTX, or Null
  conn,     \* conn[t]: the connection of thread t
  ext,      \* the application's own cache of sessions
  pocket,   \* the session the application holds for SSL_set_session, or Null
  now

vars == <<mem, cache, lock, conn, ext, pocket, now>>

\* A session with no ID, or freed memory.
Blank == [live |-> FALSE, refs |-> 0, id |-> Null, time |-> 0, dead |-> FALSE,
           prev |-> Null, next |-> Null]
NoConn == [pc |-> "idle", role |-> "server", sess |-> Null, ret |-> Null, back |-> "idle",
           want |-> Null, hit |-> FALSE, switched |-> FALSE]

Init ==
  /\ mem = [s \in Session |-> Blank]
  /\ cache = [table |-> {}, head |-> Null, tail |-> Null]
  /\ lock = Null
  /\ conn = [t \in Thread |-> NoConn]
  /\ ext = {} /\ pocket = Null /\ now = 0

-----------------------------------------------------------------------------
(* Reference counts, the hash table, the list.                              *)

\* CRYPTO_add on references, and SSL_SESSION_free.
UpRef(M, s) == [M EXCEPT ![s].refs = @ + 1]
Free(M, s) ==
  IF s = Null THEN M
  ELSE IF M[s].refs = 1 THEN [M EXCEPT ![s] = Blank] ELSE [M EXCEPT ![s].refs = @ - 1]

\* lh_SSL_SESSION_retrieve: the item is in the bucket of the ID it was inserted
\* with, and is compared by the ID it has now.
Find(M, C, i) == {e \in C.table : e[1] = i /\ M[e[2]].id = i}
Cached(C) == {e[2] : e \in C.table}

\* SSL_SESSION_list_remove; it yields the memory and the cache.
ListRemove(M, C, s) ==
  LET p == M[s].prev
      n == M[s].next
      first == p = HeadPtr
      last == n = TailPtr
  IN IF p = Null \/ n = Null THEN [mem |-> M, cache |-> C]
     ELSE [mem |-> [x \in Session |->
             IF x = s THEN [M[x] EXCEPT !.prev = Null, !.next = Null]
             ELSE IF x = p THEN [M[x] EXCEPT !.next = n]
             ELSE IF x = n THEN [M[x] EXCEPT !.prev = p] ELSE M[x]],
           cache |-> [C EXCEPT
             !.head = IF ~first THEN @ ELSE IF last THEN Null ELSE n,
             !.tail = IF ~last THEN @ ELSE IF first THEN Null ELSE p]]

\* Mutant: the new head is not linked back.
ListAddOneWay(M, C, s) ==
  [mem |-> [M EXCEPT ![s].prev = HeadPtr, ![s].next = IF C.head = Null THEN TailPtr ELSE C.head],
   cache |-> [C EXCEPT !.head = s, !.tail = IF C.head = Null THEN s ELSE @]]

\* SSL_SESSION_list_add: at the head.
ListAdd(M, C, s) ==
  LET linked == M[s].prev # Null /\ M[s].next # Null
      r == IF linked THEN ListRemove(M, C, s) ELSE [mem |-> M, cache |-> C]
      h == r.cache.head
  IN [mem |-> [x \in Session |->
        IF x = s THEN [r.mem[x] EXCEPT !.prev = HeadPtr, !.next = IF h = Null THEN TailPtr ELSE h]
        ELSE IF x = h THEN [r.mem[x] EXCEPT !.prev = s] ELSE r.mem[x]],
      cache |-> [r.cache EXCEPT !.head = s, !.tail = IF h = Null THEN s ELSE @]]

\* The part of remove_session_lock under the lock: only that very session, not
\* another one with its ID.
Unlink(M, C, s) ==
  LET E == IF M[s].id = Null THEN {} ELSE {e \in Find(M, C, M[s].id) : e[2] = s}
      r == ListRemove(M, C, s)
  IN [found |-> E # {}, mem |-> IF E = {} THEN M ELSE r.mem,
      cache |-> IF E = {} THEN C ELSE [r.cache EXCEPT !.table = @ \ E]]

\* The rest of it: not_resumable, the remove_session_cb of an application that
\* drops its copy, SSL_SESSION_free.
Revoked(M, s) ==
  LET told == [M EXCEPT ![s].dead = TRUE]
  IN Free(IF s \in ext THEN Free(told, s) ELSE told, s)
Dropped(s) == ext \ {s}

-----------------------------------------------------------------------------
(* A connection.                                                            *)

k(t) == conn[t]
At(t, pc) == conn[t].pc = pc
Set(t, r) == conn' = [conn EXCEPT ![t] = r]
Goto(t, pc) == Set(t, [k(t) EXCEPT !.pc = pc])

\* SSL_SESSION_new: some free address, time and one reference.
New(M, i) ==
  {[M EXCEPT ![s] = [Blank EXCEPT !.live = TRUE, !.refs = 1, !.id = i, !.time = now]] :
     s \in {x \in Session : ~M[x].live}}
NewAddress(M) == {x \in Session : M[x].live /\ ~mem[x].live}

Start(t) ==
  /\ At(t, "idle")
  /\ \E role \in Roles : Set(t, [NoConn EXCEPT !.pc = "hello", !.role = role])
  /\ UNCHANGED <<mem, cache, lock, ext, pocket, now>>

\* SSL_set_session, before the client connects.
SetSession(t) ==
  /\ At(t, "hello") /\ k(t).role = "client" /\ pocket # Null /\ k(t).sess # pocket
  /\ mem' = Free(UpRef(mem, pocket), k(t).sess)
  /\ Set(t, [k(t) EXCEPT !.sess = pocket])
  /\ UNCHANGED <<cache, lock, ext, pocket, now>>

\* Mutant: the lock is released before the reference is taken.
LookupUnreferenced(t, i) ==
  /\ At(t, "hello") /\ k(t).role = "server" /\ lock = Null
  /\ LET E == Find(mem, cache, i) IN
     \/ E = {} /\ Set(t, [k(t) EXCEPT !.want = i, !.pc = "new"])
     \/ \E e \in E : Set(t, [k(t) EXCEPT !.want = i, !.ret = e[2], !.pc = "found"])
  /\ UNCHANGED <<mem, cache, lock, ext, pocket, now>>

\* ssl_get_prev_session: the internal cache, under the read lock.
Lookup(t, i) ==
  /\ At(t, "hello") /\ k(t).role = "server" /\ lock = Null
  /\ LET E == Find(mem, cache, i) IN
     \/ /\ E = {} /\ UNCHANGED mem
        /\ Set(t, [k(t) EXCEPT !.want = i,
                     !.pc = IF "external" \in Features THEN "ask" ELSE "new"])
     \/ \E e \in E : /\ mem' = UpRef(mem, e[2])
                     /\ Set(t, [k(t) EXCEPT !.want = i, !.ret = e[2], !.pc = "found"])
  /\ UNCHANGED <<cache, lock, ext, pocket, now>>

\* The client offers no session.
NoOffer(t) ==
  /\ At(t, "hello") /\ k(t).role = "server"
  /\ Goto(t, "new")
  /\ UNCHANGED <<mem, cache, lock, ext, pocket, now>>

\* get_session_cb, which takes the reference itself (copy = 0).
AskApplication(t) ==
  /\ At(t, "ask")
  /\ LET S == {s \in ext : mem[s].id = k(t).want} IN
     \/ S = {} /\ Goto(t, "new") /\ UNCHANGED mem
     \/ \E s \in S : /\ mem' = UpRef(mem, s)
                     /\ Set(t, [k(t) EXCEPT !.ret = s, !.pc = "store"])
  /\ UNCHANGED <<cache, lock, ext, pocket, now>>

\* Out of date, or in another context (sid_ctx): a found session is removed if it
\* is out of date, and treated like a miss.
Expired(s) == mem[s].time < now
UseFound(t) ==
  /\ At(t, "found") \/ At(t, "given")
  /\ IF Expired(k(t).ret)
       THEN Goto(t, "expired") /\ UNCHANGED mem
       ELSE /\ mem' = Free(mem, k(t).sess)
            /\ Set(t, [k(t) EXCEPT !.sess = k(t).ret, !.ret = Null, !.hit = TRUE,
                                   !.pc = "handshake"])
  /\ UNCHANGED <<cache, lock, ext, pocket, now>>
OtherContext(t) ==
  /\ At(t, "found") \/ At(t, "given")
  /\ mem' = Free(mem, k(t).ret)
  /\ Set(t, [k(t) EXCEPT !.ret = Null, !.pc = "new"])
  /\ UNCHANGED <<cache, lock, ext, pocket, now>>

\* ssl_get_new_session on the server: the ID is free when it is chosen, in the
\* cache of the context the connection has now.
NewSession(t) ==
  /\ At(t, "new") /\ k(t).role = "server" /\ lock = Null
  /\ \E i \in Id :
       /\ k(t).switched \/ Find(mem, cache, i) = {}
       /\ \E M \in New(mem, i) : \E s \in NewAddress(M) :
            /\ mem' = Free(M, k(t).sess)
            /\ Set(t, [k(t) EXCEPT !.sess = s, !.hit = FALSE, !.pc = "handshake"])
  /\ UNCHANGED <<cache, lock, ext, pocket, now>>

\* No memory, or no ID that is free: the handshake fails without an alert.
NoSession(t) ==
  /\ At(t, "new") \/ At(t, "offered")
  /\ \/ New(mem, Null) = {} /\ Goto(t, "close") /\ UNCHANGED mem
     \/ /\ At(t, "new") /\ k(t).role = "server" /\ lock = Null
        /\ New(mem, Null) # {} /\ \A i \in Id : Find(mem, cache, i) # {}
        /\ mem' = Free(mem, k(t).sess)
        /\ Set(t, [k(t) EXCEPT !.sess = Null, !.pc = "close"])
  /\ UNCHANGED <<cache, lock, ext, pocket, now>>

\* The ClientHello: a session that cannot be resumed makes way for a new one.
ClientHello(t) ==
  /\ At(t, "hello") /\ k(t).role = "client"
  /\ IF k(t).sess # Null /\ ~mem[k(t).sess].dead /\ mem[k(t).sess].id # Null
       THEN Goto(t, "offered") /\ UNCHANGED mem
       ELSE Goto(t, "new") /\ UNCHANGED mem
  /\ UNCHANGED <<cache, lock, ext, pocket, now>>

\* ServerHello and NewSessionTicket: a new session takes the ID the server sends;
\* a session that is resumed keeps it, or takes that of a new ticket.
FreshId == {i \in Id : \A s \in Session : mem[s].id # i}
ServerHelloMiss(t) ==
  /\ k(t).role = "client" /\ (At(t, "offered") \/ At(t, "new"))
  /\ \E i \in FreshId : \E M \in New(mem, i) : \E s \in NewAddress(M) :
       /\ mem' = Free(M, k(t).sess)
       /\ Set(t, [k(t) EXCEPT !.sess = s, !.hit = FALSE, !.pc = "handshake"])
  /\ UNCHANGED <<cache, lock, ext, pocket, now>>
ServerHelloHit(t) ==
  /\ At(t, "offered")
  /\ Set(t, [k(t) EXCEPT !.hit = TRUE, !.pc = "handshake"])
  /\ \/ UNCHANGED mem
     \/ "renew" \in Features /\ \E i \in FreshId : mem' = [mem EXCEPT ![k(t).sess].id = i]
  /\ UNCHANGED <<cache, lock, ext, pocket, now>>

\* SSL_set_SSL_CTX from the servername callback.
Switch(t) ==
  /\ At(t, "handshake") /\ k(t).role = "server" /\ "switch" \in Features /\ ~k(t).switched
  /\ Set(t, [k(t) EXCEPT !.switched = TRUE])
  /\ UNCHANGED <<mem, cache, lock, ext, pocket, now>>

\* Mutant: a resumed session is added as well.
UpdateCacheOnHit(t) ==
  /\ At(t, "handshake")
  /\ mem' = UpRef(mem, k(t).sess)
  /\ Set(t, [k(t) EXCEPT !.pc = "add", !.ret = k(t).sess, !.back = "notify"])
  /\ UNCHANGED <<cache, lock, ext, pocket, now>>

\* ssl_update_cache at the end of the handshake: the first half of
\* SSL_CTX_add_session takes a reference.
UpdateCache(t) ==
  /\ At(t, "handshake")
  /\ IF k(t).hit \/ mem[k(t).sess].id = Null
       THEN Goto(t, "up") /\ UNCHANGED mem
       ELSE /\ mem' = UpRef(mem, k(t).sess)
            /\ Set(t, [k(t) EXCEPT !.pc = "add", !.ret = k(t).sess, !.back = "notify"])
  /\ UNCHANGED <<cache, lock, ext, pocket, now>>
\* ... and so does the one for a session the application supplied.
StoreGiven(t) ==
  /\ At(t, "store")
  /\ mem' = UpRef(mem, k(t).ret)
  /\ Set(t, [k(t) EXCEPT !.pc = "add", !.back = "given"])
  /\ UNCHANGED <<cache, lock, ext, pocket, now>>

\* The second half: insert under the lock.  An entry with the same ID is
\* replaced, unless it is this session.
AddSession(t) ==
  /\ At(t, "add") /\ lock = Null
  /\ LET s == k(t).ret
         E == Find(mem, cache, mem[s].id)
         old == {e[2] : e \in E} \ {s}
         out == IF old = {} THEN [mem |-> mem, cache |-> cache]
                ELSE LET o == CHOOSE o \in old : TRUE
                         r == ListRemove(mem, cache, o)
                     IN [mem |-> Free(r.mem, o), cache |-> r.cache]
         r == ListAdd(out.mem, out.cache, s)
     IN IF E # {} /\ old = {}
          THEN /\ mem' = Free(mem, s)
               /\ Set(t, [k(t) EXCEPT !.pc = IF k(t).back = "notify" THEN "up" ELSE k(t).back,
                                      !.ret = IF k(t).back = "given" THEN @ ELSE Null])
               /\ UNCHANGED <<cache, lock>>
          ELSE /\ mem' = r.mem
               /\ cache' = [r.cache EXCEPT !.table = (@ \ E) \cup {<<mem[s].id, s>>}]
               /\ lock' = t /\ Goto(t, "evict")
  /\ UNCHANGED <<ext, pocket, now>>

\* Mutant: sessions that are out of date are left to the next flush.
EvictableFresh(C) == C.tail # Null /\ ~Expired(C.tail) /\ Unlink(mem, C, C.tail).found

\* ... and evict from the tail while the cache is too large.
Evictable(C) == C.tail # Null /\ Unlink(mem, C, C.tail).found
\* Mutant: from the wrong end.
EvictNewest(t) ==
  /\ At(t, "evict") /\ Cardinality(cache.table) > CacheSize /\ Evictable(cache)
  /\ LET r == Unlink(mem, cache, cache.head) IN
     /\ mem' = Revoked(r.mem, cache.head) /\ cache' = r.cache /\ ext' = Dropped(cache.head)
  /\ UNCHANGED <<lock, conn, pocket, now>>
EvictMore(t) ==
  /\ At(t, "evict") /\ Cardinality(cache.table) > CacheSize /\ Evictable(cache)
  /\ LET r == Unlink(mem, cache, cache.tail) IN
     /\ mem' = Revoked(r.mem, cache.tail) /\ cache' = r.cache /\ ext' = Dropped(cache.tail)
  /\ UNCHANGED <<lock, conn, pocket, now>>
\* Mutant: the lock is not released.
EvictDoneLocked(t) ==
  /\ At(t, "evict") /\ ~(Cardinality(cache.table) > CacheSize /\ Evictable(cache))
  /\ Set(t, [k(t) EXCEPT !.pc = k(t).back, !.ret = IF k(t).back = "given" THEN @ ELSE Null])
  /\ UNCHANGED <<mem, cache, lock, ext, pocket, now>>
EvictDone(t) ==
  /\ At(t, "evict") /\ ~(Cardinality(cache.table) > CacheSize /\ Evictable(cache))
  /\ lock' = Null
  /\ Set(t, [k(t) EXCEPT !.pc = k(t).back, !.ret = IF k(t).back = "given" THEN @ ELSE Null])
  /\ UNCHANGED <<mem, cache, ext, pocket, now>>

\* new_session_cb: the application keeps a reference, or not.
Notify(t) ==
  /\ At(t, "notify")
  /\ Goto(t, "up")
  /\ \/ UNCHANGED <<mem, ext>>
     \/ /\ "external" \in Features /\ k(t).sess \notin ext
        /\ mem' = UpRef(mem, k(t).sess) /\ ext' = ext \cup {k(t).sess}
  /\ UNCHANGED <<cache, lock, pocket, now>>

\* Mutant: a handshake that fails removes nothing.
FailQuietly(t) ==
  /\ At(t, "handshake") \/ At(t, "up")
  /\ lock = Null
  /\ LET r == Unlink(mem, cache, k(t).sess) IN
     IF r.found /\ ~k(t).switched /\ At(t, "up")
       THEN /\ mem' = r.mem /\ cache' = r.cache
            /\ Set(t, [k(t) EXCEPT !.pc = "unlinked", !.ret = k(t).sess, !.back = "failed"])
       ELSE Goto(t, "failed") /\ UNCHANGED <<mem, cache>>
  /\ UNCHANGED <<lock, ext, pocket, now>>

\* The handshake or the connection fails: ssl3_send_alert, ssl3_read_bytes and
\* ssl_clear_bad_session remove the session from the cache of s->ctx, which is
\* not the one it was added to once the connection has switched.
Fail(t) ==
  /\ At(t, "handshake") \/ At(t, "up")
  /\ lock = Null
  /\ LET r == Unlink(mem, cache, k(t).sess) IN
     IF r.found /\ ~k(t).switched
       THEN /\ mem' = r.mem /\ cache' = r.cache
            /\ Set(t, [k(t) EXCEPT !.pc = "unlinked", !.ret = k(t).sess, !.back = "failed"])
       ELSE Goto(t, "failed") /\ UNCHANGED <<mem, cache>>
  /\ UNCHANGED <<lock, ext, pocket, now>>

\* ssl_get_prev_session removes a session that is out of date.
RemoveExpired(t) ==
  /\ At(t, "expired") /\ lock = Null
  /\ LET r == Unlink(mem, cache, k(t).ret) IN
     IF r.found
       THEN /\ mem' = r.mem /\ cache' = r.cache
            /\ Set(t, [k(t) EXCEPT !.pc = "unlinked", !.back = "release"])
       ELSE Goto(t, "release") /\ UNCHANGED <<mem, cache>>
  /\ UNCHANGED <<lock, ext, pocket, now>>

\* remove_session_lock after it has released the lock.
Revoke(t) ==
  /\ At(t, "unlinked")
  /\ mem' = Revoked(mem, k(t).ret) /\ ext' = Dropped(k(t).ret)
  /\ Set(t, [k(t) EXCEPT !.pc = k(t).back, !.ret = IF k(t).back = "release" THEN @ ELSE Null])
  /\ UNCHANGED <<cache, lock, pocket, now>>

Release(t) ==
  /\ At(t, "release")
  /\ mem' = Free(mem, k(t).ret)
  /\ Set(t, [k(t) EXCEPT !.ret = Null, !.pc = "new"])
  /\ UNCHANGED <<cache, lock, ext, pocket, now>>

\* A renegotiation looks a session up again; SSL_free drops the session.
Renegotiate(t) ==
  /\ At(t, "up")
  /\ Goto(t, "hello")
  /\ UNCHANGED <<mem, cache, lock, ext, pocket, now>>
Close(t) ==
  /\ At(t, "up") \/ At(t, "failed") \/ At(t, "close")
  /\ mem' = Free(mem, k(t).sess)
  /\ Set(t, NoConn)
  /\ UNCHANGED <<cache, lock, ext, pocket, now>>

-----------------------------------------------------------------------------
(* The application and the clock.                                           *)

\* SSL_get1_session, and its SSL_SESSION_free.
GetSession(t) ==
  /\ At(t, "up") /\ pocket = Null /\ "client" \in Roles
  /\ mem' = UpRef(mem, k(t).sess) /\ pocket' = k(t).sess
  /\ UNCHANGED <<cache, lock, conn, ext, now>>
DropSession ==
  /\ pocket # Null
  /\ mem' = Free(mem, pocket) /\ pocket' = Null
  /\ UNCHANGED <<cache, lock, conn, ext, now>>

\* SSL_CTX_flush_sessions by some thread, which keeps the lock while it walks the
\* table; lh_delete misses an item that is in another bucket than its ID's.
Flush(t) ==
  /\ At(t, "idle") /\ lock = Null /\ \E s \in Cached(cache) : Expired(s)
  /\ lock' = t /\ Goto(t, "flush")
  /\ UNCHANGED <<mem, cache, ext, pocket, now>>
FlushOne(t) ==
  /\ At(t, "flush")
  /\ \E e \in cache.table :
       LET r == ListRemove(mem, cache, e[2]) IN
       /\ Expired(e[2])
       /\ mem' = Revoked(r.mem, e[2]) /\ ext' = Dropped(e[2])
       /\ cache' = [r.cache EXCEPT !.table = @ \ Find(mem, cache, mem[e[2]].id)]
  /\ UNCHANGED <<lock, conn, pocket, now>>
FlushDone(t) ==
  /\ At(t, "flush") /\ ~\E s \in Cached(cache) : Expired(s)
  /\ lock' = Null /\ Goto(t, "idle")
  /\ UNCHANGED <<mem, cache, ext, pocket, now>>

\* A flush compares with the time it was given.
Tick ==
  /\ now < MaxTime /\ now' = now + 1
  /\ \A t \in Thread : ~At(t, "flush")
  /\ UNCHANGED <<mem, cache, lock, conn, ext, pocket>>

ThreadStep(t) ==
  \/ Start(t) \/ SetSession(t) \/ NoOffer(t) \/ AskApplication(t) \/ UseFound(t)
  \/ OtherContext(t) \/ NewSession(t) \/ NoSession(t) \/ ClientHello(t)
  \/ ServerHelloMiss(t) \/ ServerHelloHit(t) \/ Switch(t) \/ UpdateCache(t) \/ StoreGiven(t)
  \/ AddSession(t) \/ EvictMore(t) \/ EvictDone(t) \/ Notify(t) \/ Fail(t)
  \/ RemoveExpired(t) \/ Revoke(t) \/ Release(t) \/ Renegotiate(t) \/ Close(t)
  \/ GetSession(t) \/ Flush(t) \/ FlushOne(t) \/ FlushDone(t)

Next ==
  \/ Tick \/ DropSession
  \/ \E t \in Thread : ThreadStep(t) \/ \E i \in Id : Lookup(t, i)

Spec == Init /\ [][Next]_vars

-----------------------------------------------------------------------------
(* Properties.                                                              *)

PC == {"idle", "hello", "ask", "found", "given", "store", "expired", "release", "new",
       "offered", "handshake", "add", "evict", "notify", "unlinked", "up", "failed", "close",
       "flush"}

\* The types, and that the lock is held exactly inside the two loops.
TypeOK ==
  /\ \A s \in Session : mem[s].refs \in Nat /\ mem[s].id \in Id \cup {Null}
  /\ \A t \in Thread : conn[t].pc \in PC /\ (lock = t <=> conn[t].pc \in {"evict", "flush"})
  /\ cache.table \subseteq Id \X Session /\ ext \subseteq Session

\* Everyone who can hold a session: the cache, the application, a connection.
Holder == ({"table"} \X Id) \cup ({"ext", "pocket"} \X {Null}) \cup ({"sess", "ret", "more"} \X Thread)
\* A session that is given to the cache is held once more for the cache while it
\* is added, and for its removal while that is under way.
HoldsMore(c) ==
  \/ c.pc \in {"add", "evict"} /\ c.back = "given"
  \/ c.pc = "unlinked" /\ c.back = "release"
Holds(h, s) ==
  \/ h[1] = "table" /\ <<h[2], s>> \in cache.table
  \/ h[1] = "ext" /\ s \in ext
  \/ h[1] = "pocket" /\ s = pocket
  \/ h[1] = "sess" /\ conn[h[2]].sess = s
  \/ h[1] = "ret" /\ conn[h[2]].ret = s /\ conn[h[2]].pc # "evict"
  \/ h[1] = "more" /\ conn[h[2]].ret = s /\ HoldsMore(conn[h[2]])
Holders(s) == {h \in Holder : Holds(h, s)}

\* A reference count is the number of holders, so that nobody holds freed memory
\* and no session leaks, whatever the interleaving (CRYPTO_add on references).
RefsAreHolders ==
  \A s \in Session : /\ mem[s].refs = Cardinality(Holders(s))
                     /\ mem[s].live <=> Holders(s) # {}

\* The sessions on the list, from the head; a list that does not end is cut.
Onward(M, w) == LET l == w[Len(w)] IN IF l \in Session THEN Append(w, M[l].next) ELSE w
Walk(M, C) ==
  LET walk[n \in 0..Cardinality(Session)] ==
        IF n = 0 THEN <<C.head>> ELSE Onward(M, walk[n - 1])
  IN walk[Cardinality(Session)]
ListOf(M, C) == LET w == Walk(M, C) IN SubSeq(w, 1, Len(w) - 1)
List == ListOf(mem, cache)

\* "each session is in a doubly linked list and an lhash" (SSL_CTX_add_session):
\* the list, forwards and backwards, holds the sessions of the table, and every
\* one is found under its ID.
ListIsTable ==
  LET n == Len(List) IN
  /\ {List[i] : i \in 1..n} = Cached(cache) /\ n = Cardinality(cache.table)
  /\ cache.tail = (IF n = 0 THEN Null ELSE List[n])
  /\ \A i \in 1..n : mem[List[i]].prev = (IF i = 1 THEN HeadPtr ELSE List[i - 1])
  /\ \A e \in cache.table : Find(mem, cache, mem[e[2]].id) = {e}

\* "Most session-ids that will be cached" (session_cache_size in ssl.h).
CacheIsBounded == lock = Null => Cardinality(cache.table) <= CacheSize

\* not_resumable is "used to indicate that session resumption is not allowed"
\* (ssl.h): no such session can be found in the cache.
RevokedStayOut == \A s \in Cached(cache) : ~mem[s].dead

\* The session of a connection that failed is not in the cache, where the
\* connection has kept its context (ssl3_send_alert, ssl_clear_bad_session).
FailureRemoves ==
  \A t \in Thread : conn[t].pc = "failed" /\ ~conn[t].switched => conn[t].sess \notin Cached(cache)

\* "If a fatal one, remove from cache" (ssl3_send_alert), of any connection.
FatalOneIsRemoved == \A t \in Thread : conn[t].pc = "failed" => conn[t].sess \notin Cached(cache)

\* The pointers and buckets behave as a bounded store of sessions.
Store == INSTANCE SessionStore WITH
  Id <- Id \cup {Null}, Size <- CacheSize,
  order <- List,
  id <- [s \in Session |-> mem[s].id],
  reply <- [t \in Thread |-> IF conn[t].pc = "found" THEN <<conn[t].want, conn[t].ret>> ELSE Null]
ImplementsStore == Store!Spec
=============================================================================
