----------------------------- MODULE OAuthLogin -----------------------------
(***************************************************************************)
(* One OAuth login shared by the host's own agent, Boks' keyring and the   *)
(* network supervisors of running sandboxes (internal/secret/secret.go,    *)
(* acquire.go, memory.go, internal/enforce/rotation.go, and the token      *)
(* requests of internal/proxy/inspect.go).                                 *)
(*                                                                         *)
(* The guest holds sentinels.  Its supervisor holds the pair of tokens in  *)
(* two places: the record of its memory store (mem), copied from the       *)
(* keyring when it starts, and the injector's current pair (tok).  The     *)
(* injector's mutex is held across a whole refresh: the exchange with the  *)
(* vendor, the saving and the write-back to the keyring.  A login inside   *)
(* the sandbox is relayed and captured without it.                         *)
(*                                                                         *)
(* The vendor (external) retires a refresh token when it answers with a    *)
(* new one.  Any exchange can fail before or after the vendor acted.       *)
(***************************************************************************)
EXTENDS Naturals, FiniteSets

CONSTANTS Sups,      \* network supervisors, one per sandbox
          Reqs,      \* requests of guests that are under way at a time
          MaxPairs,  \* bound: tokens the vendor issues
          MaxUser,   \* bound: commands of the user, and logouts of the host's agent
          Ported,    \* does the token endpoint's URL name a port (--token-url)
          Free,      \* a mutex nobody holds
          NoRecord,  \* no record under the credential's name
          Unread     \* no entry yet in the injector's map

Ids == 1 .. MaxPairs

(* OAuthTokens: an access and a refresh token by the number the vendor     *)
(* issued them under; 0 is the empty string.                               *)
Tokens == [a : 0 .. MaxPairs, r : 0 .. MaxPairs]
Zero == [a |-> 0, r |-> 0]

(* OAuthRecord: the tokens, Zero while Pending, and whether HostProfileFor *)
(* names a login of the host to follow.                                    *)
Records == [tok : Tokens, follow : BOOLEAN]

ASSUME OAuthAssumption ==
  /\ MaxPairs \in Nat \ {0, 1} /\ MaxUser \in Nat /\ Ported \in BOOLEAN
  /\ Free \notin Reqs \cup Sups
  /\ NoRecord \notin Records /\ Unread \notin Tokens

Outcomes == {"fresh", "rejected", "refused", "unreadable", "lost"}
ReqType == [pc : {"idle", "want", "xchg", "got", "relay", "relayed", "notify", "ringset",
                  "settok"},
            s : Sups \cup {Free}, via : {"resource", "post", "answer", "acquire"},
            stage : {"current", "host", "recover"}, cur : Tokens, got : Outcomes,
            fresh : Tokens, rec : Records \cup {NoRecord}]
NoReq == [pc |-> "idle", s |-> Free, via |-> "resource", stage |-> "current",
          cur |-> Zero, got |-> "lost", fresh |-> Zero, rec |-> NoRecord]

VARIABLES
  issued,   \* how many pairs the vendor has issued
  live,     \* refresh tokens the vendor accepts
  expired,  \* how many access tokens, the oldest first, are past their expiry
  others,   \* tokens of another account than the host's agent is logged in to
  host,     \* the login kept by the host's agent
  ring,     \* the record in Boks' keyring
  mem,      \* the record of each supervisor's memory store, NoRecord when down
  tok,      \* each injector's current pair
  mu,       \* the holder of each injector's mutex
  checked,  \* has each injector read the host's login within the interval
  req,      \* the requests
  spent,    \* history: refresh tokens each supervisor exchanged for new ones
  owed,     \* history: has each memory store a pair not yet written back or noted
  acts      \* how many commands the user has given

vendor == <<issued, live, expired, others>>
keys == <<host, ring>>
saved == <<mem, owed>>
hist == <<spent, acts>>
vars == <<issued, live, expired, others, host, ring, mem, tok, mu, checked, req,
          spent, owed, acts>>

----------------------------------------------------------------------------
Up(s) == mem[s] # NoRecord
Expired(t) == t.a <= expired
IsZero(t) == t.a = 0
At(q, pc) == req[q].pc = pc

(* The tokens the injector works with: LookupOAuth fills its map once. *)
Current(s) == IF tok[s] = Unread THEN mem[s].tok ELSE tok[s]

(* The request is over; the mutex is released if it was held. *)
Done(q) ==
  /\ req' = [req EXCEPT ![q] = NoReq]
  /\ mu' = [s \in Sups |-> IF mu[s] = q THEN Free ELSE mu[s]]

(* MemoryStore.SaveOAuth: from now on the keyring's record is out of date. *)
SaveOAuth(s, t) ==
  /\ mem' = [mem EXCEPT ![s].tok = t]
  /\ owed' = [owed EXCEPT ![s] = TRUE]

Kept(s, t) == owed' = [owed EXCEPT ![s] = @ /\ t # mem[s].tok]

(* Mutant: an account that is not the host's is swapped for it all the same. *)
FromHost_Any(s, cur) == ~IsZero(host) /\ host.a # cur.a

(* fromHost: the host's login, if this record follows it and it is another. *)
FromHost(s, cur) == mem[s].follow /\ ~IsZero(host) /\ host.a # cur.a

(* Mutant: OnRotate is not called. *)
Adopt_Unsaved(q, s, t) ==
  /\ tok' = [tok EXCEPT ![s] = t]
  /\ SaveOAuth(s, t)
  /\ Done(q)

(* adopt, and the end of refresh: the pair becomes the injector's, then    *)
(* the memory store's; OnRotate follows with the mutex still held.         *)
Adopt(q, s, t) ==
  /\ tok' = [tok EXCEPT ![s] = t]
  /\ SaveOAuth(s, t)
  /\ mu' = [mu EXCEPT ![s] = q]
  /\ req' = [req EXCEPT ![q] = [NoReq EXCEPT !.pc = "notify", !.s = s]]

(* Mutant: the mutex is let go while the vendor is asked. *)
AskVendor_Unlocked(q, s, stage, t) ==
  /\ req' = [req EXCEPT ![q] = [NoReq EXCEPT !.pc = "xchg", !.s = s, !.stage = stage,
                                             !.cur = t]]
  /\ UNCHANGED mu

(* refresher.Refresh: the request to the vendor, with the mutex held. *)
AskVendor(q, s, stage, t) ==
  /\ req' = [req EXCEPT ![q] = [NoReq EXCEPT !.pc = "xchg", !.s = s, !.stage = stage,
                                             !.cur = t]]
  /\ mu' = [mu EXCEPT ![s] = q]

(* refresh: without a refresh token the request fails and nothing is kept. *)
Refresh(q, s, t) ==
  IF t.r = 0
    THEN Done(q) /\ tok' = [tok EXCEPT ![s] = t] /\ UNCHANGED saved
    ELSE AskVendor(q, s, "current", t) /\ tok' = [tok EXCEPT ![s] = t] /\ UNCHANGED saved

----------------------------------------------------------------------------
(* Requests of the guest. *)

(* A request on an inspected flow: to a resource host with the sentinel in *)
(* a header (resource), or a POST to the token endpoint that concerns this *)
(* credential (post).  What ClassifyTokenRequest calls foreign is          *)
(* forwarded as it is and touches nothing here, and so is every POST if    *)
(* the endpoint has a port: no target's host is equal to "host:port".      *)
Begin(q, s, via) ==
  /\ At(q, "idle") /\ Up(s) /\ (via = "post" => ~Ported)
  /\ req' = [req EXCEPT ![q] = [NoReq EXCEPT !.pc = "want", !.s = s, !.via = via]]
  /\ UNCHANGED <<vendor, keys, saved, tok, mu, checked, hist>>

Wants(q, via) == At(q, "want") /\ req[q].via = via /\ mu[req[q].s] = Free

(* Mutant: a login that was found dead stays dead. *)
RecoverFromHost_Never(q, s) ==
  /\ Done(q)
  /\ tok' = [tok EXCEPT ![s] = Zero]
  /\ UNCHANGED <<saved, checked>>

(* recoverFromHost, at most once per interval: the host's login is taken   *)
(* if it is still good, refreshed if it can be, and otherwise left alone.  *)
RecoverFromHost(q, s) ==
  /\ checked' = [checked EXCEPT ![s] = TRUE]
  /\ IF ~checked[s] /\ FromHost(s, Zero) /\ ~Expired(host)
       THEN Adopt(q, s, host)
       ELSE /\ tok' = [tok EXCEPT ![s] = Zero]
            /\ UNCHANGED saved
            /\ IF ~checked[s] /\ FromHost(s, Zero) /\ host.r # 0
                 THEN AskVendor(q, s, "recover", host)
                 ELSE Done(q)

(* Injector.accessToken: a pair that works is used; with none the host's   *)
(* login is looked at; one that has expired is compared with the host's    *)
(* first, and refreshed.                                                   *)
AccessToken(q) ==
  LET s == req[q].s
      t == Current(s)
  IN  /\ Wants(q, "resource")
      /\ IF IsZero(t)
           THEN RecoverFromHost(q, s)
         ELSE IF ~Expired(t)
           THEN Done(q) /\ tok' = [tok EXCEPT ![s] = t] /\ UNCHANGED <<saved, checked>>
         ELSE /\ checked' = [checked EXCEPT ![s] = TRUE]
              /\ IF FromHost(s, t) /\ ~Expired(host) THEN Adopt(q, s, host)
                                                     ELSE Refresh(q, s, t)
      /\ UNCHANGED <<vendor, keys, hist>>

(* NeedsAcquisition: with no token at all the request is relayed, and      *)
(* otherwise answered, for which the mutex is taken once more.             *)
NeedsAcquisition(q) ==
  LET s == req[q].s
  IN  /\ Wants(q, "post")
      /\ tok' = [tok EXCEPT ![s] = Current(s)]
      /\ req' = [req EXCEPT ![q] = IF IsZero(Current(s))
                                     THEN [@ EXCEPT !.pc = "relay"]
                                     ELSE [@ EXCEPT !.via = "answer"]]
      /\ UNCHANGED <<vendor, keys, saved, mu, checked, hist>>

(* ExchangeToken: the guest's request stops here; the pair is refreshed if *)
(* it must be, and the guest is answered with the sentinels it has.        *)
ExchangeToken(q) ==
  LET s == req[q].s
      t == Current(s)
  IN  /\ Wants(q, "answer")
      /\ IF (IsZero(t) \/ Expired(t)) /\ t.r # 0
           THEN Refresh(q, s, t)
           ELSE Done(q) /\ tok' = [tok EXCEPT ![s] = t] /\ UNCHANGED saved
      /\ UNCHANGED <<vendor, keys, checked, hist>>

----------------------------------------------------------------------------
(* The vendor's token endpoint (external). *)

(* HTTPRefresher.Refresh: a refresh token that is accepted is answered     *)
(* with a new access token and, if the vendor rotates, a new refresh       *)
(* token; the answer can be lost after that, or the request before it.     *)
Exchange(q) ==
  LET t == req[q].cur
      n == issued + 1
  IN  /\ At(q, "xchg")
      /\ \/ /\ t.r \in live /\ n \in Ids
            /\ issued' = n
            /\ others' = IF t.r \in others THEN others \cup {n} ELSE others
            /\ \E rotates \in BOOLEAN, got \in {"fresh", "lost"} :
                 /\ live' = IF rotates THEN (live \ {t.r}) \cup {n} ELSE live
                 /\ spent' = IF rotates /\ got = "fresh"
                               THEN [spent EXCEPT ![req[q].s] = @ \cup {t.r}] ELSE spent
                 /\ req' = [req EXCEPT ![q] = [@ EXCEPT !.pc = "got", !.got = got,
                              !.fresh = IF got = "lost" THEN Zero
                                        ELSE [a |-> n, r |-> IF rotates THEN n ELSE 0]]]
         \/ /\ req' = [req EXCEPT ![q] = [@ EXCEPT !.pc = "got",
                         !.got = IF t.r \in live THEN "lost" ELSE "rejected"]]
            /\ UNCHANGED <<issued, others, live, spent>>
      /\ UNCHANGED <<expired, keys, saved, tok, mu, checked, acts>>

(* relayTokenRequest reaches the vendor: the guest's authorization code is *)
(* exchanged, refused (its refresh sentinel always is), answered in a form *)
(* Boks cannot read, or not at all.                                        *)
Relay(q) ==
  LET n == issued + 1
  IN  /\ At(q, "relay")
      /\ \/ /\ n \in Ids
            /\ issued' = n
            /\ \E own \in BOOLEAN, r \in {0, n} :
                 /\ others' = IF own THEN others ELSE others \cup {n}
                 /\ live' = live \cup ({r} \ {0})
                 /\ req' = [req EXCEPT ![q] = [@ EXCEPT !.pc = "relayed", !.got = "fresh",
                                                        !.fresh = [a |-> n, r |-> r]]]
         \/ /\ \E got \in {"refused", "unreadable", "lost"} :
                 req' = [req EXCEPT ![q] = [@ EXCEPT !.pc = "relayed", !.got = got]]
            /\ UNCHANGED <<issued, others, live>>
      /\ UNCHANGED <<expired, keys, saved, tok, mu, checked, hist>>

----------------------------------------------------------------------------
(* The vendor's answer.  A new pair is adopted, with the old refresh token *)
(* if it brought none.  A rejected one most often means that the host's    *)
(* agent has rotated it: its login is taken, or refreshed once if it has   *)
(* expired too, and failing that the injector's pair is dropped.  Any      *)
(* other failure leaves the pair as it is.                                 *)
Answered(q) ==
  LET s == req[q].s
      r == req[q]
      fresh == [r.fresh EXCEPT !.r = IF @ = 0 THEN r.cur.r ELSE @]
      Drop == Done(q) /\ tok' = [tok EXCEPT ![s] = Zero] /\ UNCHANGED saved
  IN  /\ At(q, "got")
      /\ IF r.got = "fresh"
           THEN Adopt(q, s, fresh) /\ UNCHANGED checked
         ELSE IF r.stage = "recover" \/ (r.stage = "current" /\ r.got = "lost")
           THEN Done(q) /\ UNCHANGED <<saved, tok, checked>>
         ELSE IF r.stage = "host"
           THEN Drop /\ UNCHANGED checked
         ELSE /\ checked' = [checked EXCEPT ![s] = TRUE]
              /\ IF ~FromHost(s, r.cur) THEN Drop
                 ELSE IF ~Expired(host) THEN Adopt(q, s, host)
                 ELSE IF host.r \notin {0, r.cur.r}
                   THEN AskVendor(q, s, "host", host) /\ UNCHANGED <<saved, tok>>
                 ELSE Drop
      /\ UNCHANGED <<vendor, keys, hist>>

(* AcquireToken: tokens in the answer are stored first.  A refusal is      *)
(* passed through; a success that cannot be read is refused.               *)
AcquireToken(q) ==
  LET s == req[q].s
      r == req[q]
  IN  /\ At(q, "relayed")
      /\ IF r.got = "fresh"
           THEN /\ SaveOAuth(s, r.fresh)
                /\ req' = [req EXCEPT ![q] = [@ EXCEPT !.pc = "notify", !.via = "acquire"]]
                /\ UNCHANGED mu
           ELSE Done(q) /\ UNCHANGED saved
      /\ UNCHANGED <<vendor, keys, tok, checked, hist>>

(* What follows the write-back: a captured login becomes the injector's    *)
(* pair, under the mutex; a refresh or adoption is over.                   *)
Stored(q) ==
  IF req[q].via = "acquire"
    THEN req' = [req EXCEPT ![q].pc = "settok"] /\ UNCHANGED mu
    ELSE Done(q)

(* Mutant: OnRotate is called with the memory store's own lock held, which *)
(* reading the pair back waits for.                                        *)
Notify_Deadlocks(q) == At(q, "notify") /\ FALSE /\ UNCHANGED vars

(* rotationHandler: the pair is read back from the memory store, and the   *)
(* keyring's record is read to be given it.  With no keyring, or no record *)
(* any more, that is noted in the log.  An endpoint with a port is no      *)
(* target to write a note about: it returns without doing either.          *)
Notify(q) ==
  LET s == req[q].s
  IN  /\ At(q, "notify")
      /\ \/ Ported /\ Stored(q) /\ UNCHANGED owed
         \/ ~Ported /\ Kept(s, mem[s].tok) /\ Stored(q)
         \/ /\ ~Ported /\ ring # NoRecord
            /\ req' = [req EXCEPT ![q] = [@ EXCEPT !.pc = "ringset",
                         !.rec = [ring EXCEPT !.tok = mem[s].tok]]]
            /\ UNCHANGED <<mu, owed>>
      /\ UNCHANGED <<vendor, keys, mem, tok, checked, hist>>

(* KeyringStore.SaveOAuth writes the record it read, with the new tokens. *)
RingSet(q) ==
  /\ At(q, "ringset")
  /\ ring' = req[q].rec
  /\ Kept(req[q].s, req[q].rec.tok)
  /\ Stored(q)
  /\ UNCHANGED <<vendor, host, mem, tok, checked, hist>>

(* The end of AcquireToken; then the guest is answered with sentinels. *)
SetTok(q) ==
  LET s == req[q].s
  IN  /\ At(q, "settok") /\ mu[s] = Free
      /\ tok' = [tok EXCEPT ![s] = req[q].fresh]
      /\ Done(q)
      /\ UNCHANGED <<vendor, keys, saved, checked, hist>>

----------------------------------------------------------------------------
(* The rest of the host. *)

(* Time: a token that somebody holds expires; the interval between two     *)
(* looks at the host's login passes.                                       *)
Expire ==
  /\ expired < issued
  /\ expired' = expired + 1
  /\ UNCHANGED <<issued, live, others, keys, saved, tok, mu, checked, req, hist>>

Recheck(s) ==
  /\ checked[s]
  /\ checked' = [checked EXCEPT ![s] = FALSE]
  /\ UNCHANGED <<vendor, keys, saved, tok, mu, req, hist>>

(* The host's agent (external) refreshes its login, logs in or logs out. *)
HostAgent ==
  LET n == issued + 1
  IN  /\ \/ /\ n \in Ids
            /\ issued' = n
            /\ host' = [a |-> n, r |-> n]
            /\ \E old \in {{}, {host.r} \cap live} : live' = (live \ old) \cup {n}
            /\ UNCHANGED acts
         \/ /\ host # Zero /\ host' = Zero
            /\ acts < MaxUser /\ acts' = acts + 1
            /\ UNCHANGED <<issued, live>>
      /\ UNCHANGED <<expired, others, ring, saved, tok, mu, checked, req, spent>>

Command(record) ==
  /\ acts < MaxUser /\ acts' = acts + 1
  /\ ring' = record
  /\ UNCHANGED <<expired, host, saved, tok, mu, checked, req, spent>>

(* "boks secret adopt": the host agent's login, to be followed; and with   *)
(* --from or --account, a login of another account, not to be.             *)
SecretAdopt ==
  /\ host # Zero
  /\ Command([tok |-> host, follow |-> TRUE])
  /\ UNCHANGED <<issued, live, others>>

SecretAdoptFrom ==
  LET n == issued + 1
  IN  /\ n \in Ids
      /\ issued' = n /\ live' = live \cup {n} /\ others' = others \cup {n}
      /\ Command([tok |-> [a |-> n, r |-> n], follow |-> FALSE])

(* "boks secret login --force" arms the record; "boks secret rm" *)
SecretLogin ==
  /\ Command([tok |-> Zero, follow |-> TRUE])
  /\ UNCHANGED <<issued, live, others>>

SecretRm ==
  /\ ring # NoRecord
  /\ Command(NoRecord)
  /\ UNCHANGED <<issued, live, others>>

(* A sandbox starts with the records of its resolved credentials, and ends *)
(* or crashes with whatever its supervisor was doing.                      *)
Start(s) ==
  /\ ~Up(s) /\ ring # NoRecord
  /\ mem' = [mem EXCEPT ![s] = ring]
  /\ UNCHANGED <<vendor, keys, owed, tok, mu, checked, req, hist>>

Halt(s) ==
  /\ Up(s)
  /\ mem' = [mem EXCEPT ![s] = NoRecord]
  /\ tok' = [tok EXCEPT ![s] = Unread]
  /\ mu' = [mu EXCEPT ![s] = Free]
  /\ checked' = [checked EXCEPT ![s] = FALSE]
  /\ req' = [q \in Reqs |-> IF req[q].s = s THEN NoReq ELSE req[q]]
  /\ spent' = [spent EXCEPT ![s] = {}]
  /\ owed' = [owed EXCEPT ![s] = FALSE]
  /\ UNCHANGED <<vendor, keys, acts>>

----------------------------------------------------------------------------
(* The host's agent is logged in; the user has adopted that login or one   *)
(* of another account, or has armed the record for a login in a sandbox.   *)
Init ==
  /\ \/ /\ issued = 1 /\ others = {}
        /\ host = [a |-> 1, r |-> 1]
        /\ ring \in [tok : {host, Zero}, follow : {TRUE}]
     \/ /\ issued = 2 /\ others = {1}
        /\ host = [a |-> 2, r |-> 2]
        /\ ring = [tok |-> [a |-> 1, r |-> 1], follow |-> FALSE]
  /\ live = 1 .. issued /\ expired = 0
  /\ mem = [s \in Sups |-> NoRecord]
  /\ tok = [s \in Sups |-> Unread]
  /\ mu = [s \in Sups |-> Free]
  /\ checked = [s \in Sups |-> FALSE]
  /\ req = [q \in Reqs |-> NoReq]
  /\ spent = [s \in Sups |-> {}]
  /\ owed = [s \in Sups |-> FALSE]
  /\ acts = 0

Step(q) ==
  \/ AccessToken(q) \/ NeedsAcquisition(q) \/ ExchangeToken(q)
  \/ Exchange(q) \/ Answered(q) \/ Notify(q) \/ RingSet(q)
  \/ Relay(q) \/ AcquireToken(q) \/ SetTok(q)

User == SecretAdopt \/ SecretAdoptFrom \/ SecretLogin \/ SecretRm

Next ==
  \/ \E q \in Reqs, s \in Sups, via \in {"resource", "post"} : Begin(q, s, via)
  \/ \E q \in Reqs : Step(q)
  \/ Expire
  \/ \E s \in Sups : Recheck(s) \/ Start(s) \/ Halt(s)
  \/ HostAgent
  \/ User

(* The calls that wait for the user's keyring: the write-back, and on      *)
(* macOS the look at the host agent's login.  The injector's mutex is held *)
(* for them (not for a captured login's write-back), and nothing limits    *)
(* them, as rotationHandler's context is context.Background.               *)
AsksKeyring(q) ==
  LET s == req[q].s
  IN  \/ At(q, "notify") \/ At(q, "ringset")
      \/ At(q, "got") /\ req[q].got = "rejected" /\ mem[s].follow
      \/ /\ At(q, "want") /\ req[q].via = "resource" /\ mem[s].follow
         /\ IF IsZero(Current(s)) THEN ~checked[s] ELSE Expired(Current(s))

(* Time passes, and the guest's agent goes on asking. *)
Going ==
  /\ \A s \in Sups : WF_vars(Recheck(s))
  /\ \A s \in Sups : SF_vars(\E q \in Reqs : Begin(q, s, "resource"))

(* Exchanges and connections have timeouts and Go's mutex lets every       *)
(* waiter in, but a prompt of the keyring that nobody sees stays.          *)
Spec ==
  /\ Init /\ [][Next]_vars
  /\ Going /\ \A q \in Reqs : SF_vars(Step(q) /\ ~AsksKeyring(q))

(* The same, where somebody answers the keyring's prompts. *)
AnsweredSpec ==
  /\ Init /\ [][Next]_vars
  /\ Going /\ \A q \in Reqs : SF_vars(Step(q))

----------------------------------------------------------------------------
(* Every variable has its type; only a supervisor that is up has requests, *)
(* and only a request under way holds its mutex.                           *)
TypeOK ==
  /\ issued \in Ids
  /\ live \subseteq Ids /\ others \subseteq Ids
  /\ expired \in 0 .. issued /\ acts \in 0 .. MaxUser
  /\ owed \in [Sups -> BOOLEAN]
  /\ host \in Tokens
  /\ ring \in Records \cup {NoRecord}
  /\ mem \in [Sups -> Records \cup {NoRecord}]
  /\ tok \in [Sups -> Tokens \cup {Unread}]
  /\ mu \in [Sups -> Reqs \cup {Free}]
  /\ checked \in [Sups -> BOOLEAN]
  /\ spent \in [Sups -> SUBSET Ids]
  /\ req \in [Reqs -> ReqType]
  /\ \A q \in Reqs : ~At(q, "idle") => req[q].s \in Sups /\ Up(req[q].s)
  /\ \A s \in Sups : mu[s] # Free => ~At(mu[s], "idle") /\ req[mu[s]].s = s

(* However many requests of a sandbox find the pair expired at once, its   *)
(* supervisor never presents a refresh token of its own that it has        *)
(* already exchanged for another: a vendor that rotates them would take    *)
(* the second use for theft and end the login.                             *)
SpendsOnce ==
  \A q \in Reqs : At(q, "xchg") /\ req[q].stage = "current"
                    => req[q].cur.r \notin spent[req[q].s]

(* A supervisor that is at rest holds no pair that the user's keyring      *)
(* missed without a note: what it refreshed, took from the host's login or *)
(* captured was written back, or the log says that it was not: "it must    *)
(* not be silent" (rotation.go).  With a port in the token endpoint's URL  *)
(* it is (oauth_port.cfg).                                                 *)
KeptOnHost ==
  \A s \in Sups : (\A q \in Reqs : req[q].s # s) => ~owed[s]

(* Within a sandbox whose record follows no login of the host, the account *)
(* never changes but by a login inside the sandbox.                        *)
SameAccount ==
  \A s \in Sups :
    Up(s) /\ ~mem[s].follow /\ tok'[s] # tok[s] /\ tok'[s] \notin {Unread, Zero}
      => \/ \E q \in Reqs : At(q, "settok") /\ req[q].s = s /\ tok'[s] = req[q].fresh
         \/ /\ Current(s) # Zero
            /\ (tok'[s].a \in others') <=> (Current(s).a \in others)
OwnAccount == [][SameAccount]_vars

(* A record adopted from another place than the host agent's own is "never *)
(* swapped for the host's" (internal/cli/secret.go).                       *)
NeverSwapped ==
  ring # NoRecord /\ ~ring.follow => ring.tok.a \in others

Dead(s) == Up(s) /\ mem[s].follow /\ tok[s] = Zero
HostGood == host # Zero /\ ~Expired(host)

(* A sandbox whose login is dead recovers without a restart once the       *)
(* host's agent has a login that works, if its agent goes on asking and    *)
(* the keyring's prompts are answered.                                     *)
DeadLoginRecovers ==
  \A s \in Sups : (Dead(s) /\ HostGood) ~> (~Dead(s) \/ ~HostGood)

(* Every request ends, whatever the vendor and the other requests of its   *)
(* sandbox do, where the keyring's prompts are answered.  One that is not  *)
(* keeps the mutex, and with it every request of the sandbox               *)
(* (oauth_prompt.cfg), although keyring_linux.go says that such a call     *)
(* "must fail on the caller's deadline".                                   *)
RequestsEnd == \A q \in Reqs : ~At(q, "idle") ~> At(q, "idle")
============================================================================
