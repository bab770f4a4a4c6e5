-------------------------- MODULE OAuthLoginProofs --------------------------
(***************************************************************************)
(* Proofs about OAuthLogin for any number of supervisors, requests and     *)
(* pairs of tokens.                                                        *)
(***************************************************************************)
EXTENDS OAuthLogin, TLAPS

(* A pair that somebody holds was issued, its access token not before its  *)
(* refresh token, and both belong to one account.                          *)
Sound(p) ==
  /\ p.r <= p.a /\ p.a <= issued
  /\ p.r # 0 => (p.a \in others <=> p.r \in others)

PairsSound ==
  /\ others \subseteq 1 .. issued
  /\ Sound(host) /\ host.a = host.r
  /\ ring # NoRecord => Sound(ring.tok)
  /\ \A s \in Sups : /\ Up(s) => Sound(mem[s].tok)
                     /\ tok[s] # Unread => Sound(tok[s])
  /\ \A q \in Reqs : /\ Sound(req[q].cur) /\ Sound(req[q].fresh)
                     /\ req[q].rec # NoRecord => Sound(req[q].rec.tok)

Exchanging(r) == r.pc \in {"xchg", "got"}

(* The mutex is held across the exchange.                                  *)
MutexHeld == \A q \in Reqs : Exchanging(req[q]) => mu[req[q].s] = q

(* What was exchanged for another is expired and no longer accepted.       *)
SpentIsGone == \A s \in Sups : spent[s] \cap live = {} /\ spent[s] \subseteq 1 .. expired

(* An exchange presents an expired pair: the injector's own, not spent, or *)
(* the host's, which this record follows.  The answer is a pair of the     *)
(* same account.                                                           *)
ExchangeSound(r) ==
  /\ r.cur.r # 0 /\ r.cur.a <= expired
  /\ r.stage = "current" => r.cur = tok[r.s]
  /\ r.stage # "current" => mem[r.s].follow
  /\ r.pc = "xchg" /\ r.stage = "current" => r.cur.r \notin spent[r.s]
  /\ r.pc = "got" /\ r.got = "fresh" =>
       /\ (IF r.fresh.r = 0 THEN r.cur.r ELSE r.fresh.r) \notin spent[r.s]
       /\ r.cur.r < r.fresh.a
       /\ r.fresh.a \in others <=> r.cur.r \in others

ExchangesSound == \A q \in Reqs : Exchanging(req[q]) => ExchangeSound(req[q])

(* The injector's pair is spent only while the answer that replaces it is  *)
(* at hand; before the pair is first read nothing is spent.                *)
Replaced(s) == \E q \in Reqs : At(q, "got") /\ req[q].s = s /\ req[q].got = "fresh"
TokUnspent ==
  \A s \in Sups :
    /\ tok[s] = Unread => /\ spent[s] = {}
                          /\ \A q \in Reqs : req[q].s = s => req[q].pc \in {"idle", "want"}
    /\ tok[s] # Unread => tok[s].r \notin spent[s] \/ Replaced(s)

(* A captured pair that is not yet the injector's is nobody else's.        *)
Captured(r) ==
  /\ r.fresh.r # 0
  /\ \/ r.pc = "relayed" /\ r.got = "fresh"
     \/ r.pc \in {"notify", "ringset"} /\ r.via = "acquire"
     \/ r.pc = "settok"
CaptureOwn(q) ==
  LET r == req[q]
      n == r.fresh.r
  IN  /\ n \notin spent[r.s] /\ n # host.r
      /\ tok[r.s] # Unread => n # tok[r.s].r
      /\ \A o \in Reqs \ {q} : req[o].s = r.s => req[o].cur.r # n /\ req[o].fresh.r # n
CapturesOwn == \A q \in Reqs : Captured(req[q]) => CaptureOwn(q)

(* What the keyring is owed, somebody is bringing, if it can be noted.     *)
Brings(r, s) ==
  r.s = s /\ (r.pc = "notify" \/ (r.pc = "ringset" /\ r.rec.tok = mem[s].tok))
OwedIsBrought ==
  \A s \in Sups : owed[s] /\ ~Ported => \E q \in Reqs : Brings(req[q], s)

IInv == /\ TypeOK /\ PairsSound /\ MutexHeld /\ SpentIsGone /\ ExchangesSound
        /\ TokUnspent /\ CapturesOwn /\ OwedIsBrought
----------------------------------------------------------------------------
(* A step of one request, q, in one supervisor, s. *)

(* The refresh tokens q and s had, or the host's: no captured pair of      *)
(* another request has one of these.                                       *)
Known(q, s, n) ==
  \/ n \in {0, host.r} \/ tok[s] = Unread \/ (tok[s] # Unread /\ n = tok[s].r)
  \/ req[q].s = s /\ n \in {req[q].cur.r, req[q].fresh.r}

Types(q, s) ==
  /\ req' \in [Reqs -> ReqType] /\ mem' \in [Sups -> Records \cup {NoRecord}]
  /\ tok' \in [Sups -> Tokens \cup {Unread}] /\ mu' \in [Sups -> Reqs \cup {Free}]
  /\ owed' \in [Sups -> BOOLEAN] /\ checked' \in [Sups -> BOOLEAN]
  /\ \A p \in Reqs \ {q} : req'[p] = req[p]
  /\ \A o \in Sups \ {s} : /\ mem'[o] = mem[o] /\ tok'[o] = tok[o]
                           /\ mu'[o] = mu[o] /\ owed'[o] = owed[o]
  /\ mem[s] # NoRecord /\ mem'[s] # NoRecord
  /\ mem'[s].follow = mem[s].follow
  /\ req'[q].s = s \/ (req'[q].pc = "idle" /\ req'[q].s = Free)
  /\ req[q].pc = "idle" \/ req[q].s = s
  /\ ring' \in Records \cup {NoRecord}
  /\ issued' = issued /\ live' = live /\ expired' = expired /\ others' = others
  /\ host' = host /\ spent' = spent /\ acts' = acts

Pairs(q, s) ==
  /\ Sound(mem'[s].tok) /\ (tok'[s] # Unread => Sound(tok'[s]))
  /\ ring' # NoRecord => Sound(ring'.tok)
  /\ Sound(req'[q].cur) /\ Sound(req'[q].fresh)
  /\ req'[q].rec # NoRecord => Sound(req'[q].rec.tok)

Mutex(q, s) ==
  /\ mu'[s] = mu[s] \/ (mu[s] \in {Free, q} /\ mu'[s] \in {Free, q})
  /\ mu'[s] = q => req'[q].pc # "idle"
  /\ Exchanging(req'[q]) => mu'[s] = q
  /\ tok'[s] = tok[s] \/ mu[s] \in {Free, q}

(* A local step keeps the types, and the mutex with who exchanges. *)
LEMMA TypesKept ==
  ASSUME IInv, NEW q \in Reqs, NEW s \in Sups, Types(q, s), Mutex(q, s)
  PROVE  TypeOK' /\ MutexHeld'
<1>0. TypeOK /\ MutexHeld
  BY DEF IInv
<1>1. \A p \in Reqs : req'[p].pc # "idle" => req'[p].s \in Sups /\ mem'[req'[p].s] # NoRecord
  BY <1>0 DEF TypeOK, Types, At, Up
<1>2. \A o \in Sups : mu'[o] # Free => req'[mu'[o]].pc # "idle" /\ req'[mu'[o]].s = o
  <2>1. ASSUME NEW o \in Sups, mu'[o] # Free
        PROVE  req'[mu'[o]].pc # "idle" /\ req'[mu'[o]].s = o
    <3>1. CASE mu'[o] = q /\ o = s
      BY <3>1 DEF Types, Mutex
    <3>2. CASE mu'[o] = q /\ o # s
      <4>1. mu[o] = q
        BY <3>2 DEF Types
      <4>2. req[q].pc # "idle" /\ req[q].s = o
        BY <1>0, <2>1, <3>2, <4>1 DEF TypeOK, At
      <4> QED BY <3>2, <4>2 DEF Types
    <3>3. CASE mu'[o] # q
      <4>1. mu[o] = mu'[o]
        BY <2>1, <3>3 DEF Types, Mutex
      <4>2. mu[o] \in Reqs \ {q}
        BY <1>0, <2>1, <3>3, <4>1 DEF TypeOK
      <4> QED BY <1>0, <2>1, <4>1, <4>2 DEF TypeOK, At, Types
    <3> QED BY <3>1, <3>2, <3>3
  <2> QED BY <2>1
<1>3. MutexHeld'
  <2>1. ASSUME NEW p \in Reqs, Exchanging(req'[p]) PROVE mu'[req'[p].s] = p
    <3>1. req'[p].pc # "idle"
      BY <2>1 DEF Exchanging
    <3>2. CASE p = q
      BY <2>1, <3>1, <3>2 DEF Types, Mutex
    <3>3. CASE p # q
      <4>1. req'[p] = req[p]
        BY <3>3 DEF Types
      <4>2. mu[req[p].s] = p
        BY <1>0, <2>1, <4>1 DEF MutexHeld
      <4>3. req[p].s \in Sups
        BY <1>0, <3>1, <4>1 DEF TypeOK, At
      <4> QED BY <3>3, <4>1, <4>2, <4>3, OAuthAssumption DEF Types, Mutex
    <3> QED BY <3>2, <3>3
  <2> QED BY <2>1 DEF MutexHeld
<1>4. TypeOK'
  BY <1>0, <1>1, <1>2 DEF TypeOK, Types, At, Up
<1> QED BY <1>3, <1>4

(* A local step makes up no pair, and spends none. *)
LEMMA PairsKept ==
  ASSUME IInv, NEW q \in Reqs, NEW s \in Sups, Types(q, s), Pairs(q, s)
  PROVE  PairsSound' /\ SpentIsGone'
<1>0. PairsSound /\ SpentIsGone
  BY DEF IInv
<1>1. issued' = issued /\ others' = others /\ host' = host
  BY DEF Types
<1>2. \A o \in Sups : /\ mem'[o] # NoRecord => Sound(mem'[o].tok)
                      /\ tok'[o] # Unread => Sound(tok'[o])
  BY <1>0 DEF PairsSound, Types, Pairs, Up
<1>3. \A p \in Reqs : /\ Sound(req'[p].cur) /\ Sound(req'[p].fresh)
                      /\ req'[p].rec # NoRecord => Sound(req'[p].rec.tok)
  BY <1>0 DEF PairsSound, Types, Pairs
<1>4. PairsSound'
  BY <1>0, <1>1, <1>2, <1>3 DEF PairsSound, Pairs, Sound, Up
<1>5. SpentIsGone'
  BY <1>0 DEF SpentIsGone, Types
<1> QED BY <1>4, <1>5

Unspent(q, s) ==
  /\ tok'[s] = Unread => tok[s] = Unread /\ req'[q].pc \in {"idle", "want"}
  /\ tok'[s] # Unread =>
       \/ tok'[s].r \notin spent[s]
       \/ tok'[s] = tok[s] /\ ~(At(q, "got") /\ req[q].got = "fresh")

Captures(q, s) ==
  /\ Captured(req'[q]) => /\ Captured(req[q]) /\ req'[q].fresh = req[q].fresh
                          /\ tok'[s] = tok[s] /\ req'[q].s = req[q].s
  /\ tok'[s] # Unread => Known(q, s, tok'[s].r)
  /\ Known(q, s, req'[q].cur.r) /\ Known(q, s, req'[q].fresh.r)

Owing(q, s) ==
  owed'[s] => \/ Ported \/ Brings(req[q], s)'
              \/ owed[s] /\ mem'[s] = mem[s] /\ ~Brings(req[q], s)

(* A local step leaves the other exchanges as they were: their mutex keeps *)
(* it out.                                                                 *)
LEMMA ExchangesKept ==
  ASSUME IInv, NEW q \in Reqs, NEW s \in Sups, Types(q, s), Mutex(q, s),
         Exchanging(req'[q]) => ExchangeSound(req[q])'
  PROVE  ExchangesSound'
<1>0. TypeOK /\ MutexHeld /\ ExchangesSound
  BY DEF IInv
<1>1. ASSUME NEW p \in Reqs \ {q}, Exchanging(req'[p]) PROVE ExchangeSound(req[p])'
  <2>1. req'[p] = req[p] /\ req[p].pc # "idle"
    BY <1>1 DEF Types, Exchanging
  <2>2. mu[req[p].s] = p /\ req[p].s \in Sups /\ ExchangeSound(req[p])
    BY <1>0, <1>1, <2>1 DEF MutexHeld, ExchangesSound, TypeOK, At
  <2>3. tok'[req[p].s] = tok[req[p].s] /\ mem'[req[p].s].follow = mem[req[p].s].follow
    BY <2>2, OAuthAssumption DEF Types, Mutex
  <2>4. expired' = expired /\ spent' = spent /\ others' = others
    BY DEF Types
  <2> QED BY <2>1, <2>2, <2>3, <2>4 DEF ExchangeSound
<1>2. ASSUME NEW p \in Reqs, Exchanging(req'[p]) PROVE ExchangeSound(req[p])'
  BY <1>1, <1>2
<1> QED BY <1>2 DEF ExchangesSound, Exchanging

(* A local step leaves the injector's pair one that it may present. *)
LEMMA TokKept ==
  ASSUME IInv, NEW q \in Reqs, NEW s \in Sups, Types(q, s), Unspent(q, s)
  PROVE  TokUnspent'
<1>0. TypeOK /\ TokUnspent
  BY DEF IInv
<1>1. ASSUME NEW o \in Sups, tok'[o] = Unread
      PROVE  spent[o] = {} /\ \A p \in Reqs : req'[p].s = o => req'[p].pc \in {"idle", "want"}
  <2>1. tok[o] = Unread
    BY <1>1 DEF Types, Unspent
  <2>2. CASE o = s
    BY <1>0, <1>1, <2>1, <2>2 DEF Types, Unspent, TokUnspent
  <2>3. CASE o # s
    BY <1>0, <1>1, <2>1, <2>3 DEF Types, TokUnspent
  <2> QED BY <2>2, <2>3
<1>2. ASSUME NEW o \in Sups, tok'[o] # Unread
      PROVE  tok'[o].r \notin spent[o] \/ Replaced(o)'
  <2>1. CASE o = s /\ tok'[s].r \notin spent[s]
    BY <2>1
  <2>2. CASE tok'[o] = tok[o] /\ (o = s => ~(At(q, "got") /\ req[q].got = "fresh"))
    <3>1. CASE Replaced(o)
      <4>1. PICK p \in Reqs : req[p].pc = "got" /\ req[p].s = o /\ req[p].got = "fresh"
        BY <3>1 DEF Replaced, At
      <4>2. p # q
        BY <2>2, <4>1 DEF Types, At
      <4>3. req'[p] = req[p]
        BY <4>2 DEF Types
      <4> QED BY <4>1, <4>3 DEF Replaced, At
    <3>2. CASE tok[o].r \notin spent[o]
      BY <2>2, <3>2
    <3> QED BY <1>0, <1>2, <2>2, <3>1, <3>2 DEF TokUnspent
  <2> QED BY <1>2, <2>1, <2>2 DEF Types, Unspent
<1>3. spent' = spent
  BY DEF Types
<1> QED BY <1>1, <1>2, <1>3 DEF TokUnspent

(* What is known is no captured pair of another request.                   *)
LEMMA KnownIsOther ==
  ASSUME IInv, NEW q \in Reqs, NEW s \in Sups, NEW p \in Reqs \ {q}, Captured(req[p]),
         req[p].s = s, NEW n, Known(q, s, n)
  PROVE  n # req[p].fresh.r /\ tok[s] # Unread
<1>1. CaptureOwn(p) /\ req[p].fresh.r # 0 /\ req[p].pc \notin {"idle", "want"}
  BY DEF IInv, CapturesOwn, Captured
<1>2. tok[s] # Unread
  BY <1>1 DEF IInv, TokUnspent
<1> QED BY <1>1, <1>2 DEF Known, CaptureOwn

(* A local step does not hand out a captured pair a second time. *)
LEMMA CapturesKept ==
  ASSUME IInv, NEW q \in Reqs, NEW s \in Sups, Types(q, s), Captures(q, s)
  PROVE  CapturesOwn'
<1>0. CapturesOwn /\ TypeOK
  BY DEF IInv
<1>1. host' = host /\ spent' = spent
  BY DEF Types
<1>2. ASSUME NEW p \in Reqs \ {q}, Captured(req'[p]) PROVE CaptureOwn(p)'
  <2>1. req'[p] = req[p] /\ Captured(req[p]) /\ CaptureOwn(p)
    BY <1>0, <1>2 DEF Types, CapturesOwn
  <2>2. req[p].s \in Sups
    BY <1>0, <2>1 DEF TypeOK, At, Captured
  <2>3. tok'[req[p].s] # Unread => req[p].fresh.r # tok'[req[p].s].r
    <3>1. CASE req[p].s = s
      BY <2>1, <3>1, KnownIsOther DEF Captures
    <3>2. CASE req[p].s # s
      BY <2>1, <2>2, <3>2 DEF Types, CaptureOwn
    <3> QED BY <3>1, <3>2
  <2>4. ASSUME NEW o \in Reqs \ {p}, req'[o].s = req[p].s
        PROVE  req'[o].cur.r # req[p].fresh.r /\ req'[o].fresh.r # req[p].fresh.r
    <3>1. CASE o # q
      BY <2>1, <2>4, <3>1 DEF Types, CaptureOwn
    <3>2. CASE o = q /\ req[p].s = s
      BY <2>1, <3>2, KnownIsOther DEF Captures
    <3>3. CASE o = q /\ req[p].s # s
      BY <2>2, <2>4, <3>3, OAuthAssumption DEF Types
    <3> QED BY <3>1, <3>2, <3>3
  <2> QED BY <1>1, <2>1, <2>3, <2>4 DEF CaptureOwn
<1>3. ASSUME Captured(req'[q]) PROVE CaptureOwn(q)'
  <2>1. /\ Captured(req[q]) /\ req'[q].fresh = req[q].fresh /\ tok'[s] = tok[s]
        /\ CaptureOwn(q) /\ req[q].pc # "idle" /\ req[q].s = s /\ req'[q].s = s
    BY <1>0, <1>3 DEF Captures, CapturesOwn, Captured, Types
  <2> QED BY <1>1, <2>1 DEF CaptureOwn, Types
<1> QED BY <1>2, <1>3 DEF CapturesOwn

(* A local step leaves nobody to bring the keyring what it is owed only    *)
(* when nothing is owed.                                                   *)
LEMMA OwedKept ==
  ASSUME IInv, NEW q \in Reqs, NEW s \in Sups, Types(q, s), Owing(q, s)
  PROVE  OwedIsBrought'
<1>1. ASSUME NEW o \in Sups, owed'[o], ~Ported PROVE \E p \in Reqs : Brings(req[p], o)'
  <2>1. CASE o = s /\ Brings(req[q], s)'
    BY <2>1
  <2>2. CASE owed[o] /\ mem'[o] = mem[o] /\ ~Brings(req[q], o)
    <3>1. PICK p \in Reqs : Brings(req[p], o)
      BY <1>1, <2>2 DEF IInv, OwedIsBrought
    <3>2. req'[p] = req[p]
      BY <2>2, <3>1 DEF Types
    <3>3. Brings(req[p], o)'
      BY <2>2, <3>1, <3>2 DEF Brings
    <3> QED BY <3>3
  <2>3. CASE o # s
    <3>1. owed[o] /\ mem'[o] = mem[o]
      BY <1>1, <2>3 DEF Types
    <3>2. ~Brings(req[q], o)
      BY <2>3 DEF Types, Brings
    <3> QED BY <2>2, <3>1, <3>2
  <2> QED BY <1>1, <2>1, <2>2, <2>3 DEF Owing
<1> QED BY <1>1 DEF OwedIsBrought

(* A step that is local to one request and one supervisor keeps the        *)
(* invariant.                                                              *)
LEMMA LocalStep ==
  ASSUME IInv, NEW q \in Reqs, NEW s \in Sups, Types(q, s), Pairs(q, s), Mutex(q, s),
         Unspent(q, s), Captures(q, s), Owing(q, s),
         Exchanging(req'[q]) => ExchangeSound(req[q])'
  PROVE  IInv'
BY TypesKept, PairsKept, ExchangesKept, TokKept, CapturesKept, OwedKept DEF IInv

----------------------------------------------------------------------------
(* The requests' records. *)
LEMMA ZeroTyped == Zero \in Tokens /\ Zero.a = 0 /\ Zero.r = 0
BY OAuthAssumption DEF Zero, Tokens

(* The record of no request. *)
LEMMA NoReqTyped ==
  /\ NoReq \in ReqType /\ NoReq.pc = "idle" /\ NoReq.s = Free /\ NoReq.cur = Zero
  /\ NoReq.fresh = Zero /\ NoReq.rec = NoRecord /\ NoReq.via = "resource"
BY ZeroTyped DEF NoReq, ReqType, Outcomes

(* A fresh record of a request, as Adopt, AskVendor and Begin make it.     *)
LEMMA NotifyMade ==
  ASSUME NEW s \in Sups
  PROVE  LET r == [NoReq EXCEPT !.pc = "notify", !.s = s]
         IN  /\ r \in ReqType /\ r.pc = "notify" /\ r.s = s /\ r.cur = Zero /\ r.fresh = Zero
             /\ r.rec = NoRecord /\ r.via = "resource"
<1> DEFINE x == NoReq
           r == [x EXCEPT !.pc = "notify", !.s = s]
<1>1. /\ x \in ReqType /\ x.cur = Zero /\ x.fresh = Zero /\ x.rec = NoRecord
      /\ x.via = "resource"
  BY NoReqTyped
<1> HIDE DEF x
<1>2. /\ r \in ReqType /\ r.pc = "notify" /\ r.s = s /\ r.cur = Zero /\ r.fresh = Zero
      /\ r.rec = NoRecord /\ r.via = "resource"
  BY <1>1 DEF ReqType
<1> QED BY <1>2 DEF x

Asking(s, stage, t) == [NoReq EXCEPT !.pc = "xchg", !.s = s, !.stage = stage, !.cur = t]

(* The record of a request that asks the vendor for a new pair. *)
LEMMA XchgMade ==
  ASSUME NEW s \in Sups, NEW stage \in {"current", "host", "recover"}, NEW t \in Tokens
  PROVE  LET r == Asking(s, stage, t)
         IN  /\ r \in ReqType /\ r.pc = "xchg" /\ r.s = s /\ r.cur = t /\ r.stage = stage
             /\ r.fresh = Zero /\ r.rec = NoRecord /\ r.via = "resource"
<1> DEFINE x == NoReq
           r == [x EXCEPT !.pc = "xchg", !.s = s, !.stage = stage, !.cur = t]
<1>1. x \in ReqType /\ x.fresh = Zero /\ x.rec = NoRecord /\ x.via = "resource"
  BY NoReqTyped
<1> HIDE DEF x
<1>2. /\ r \in ReqType /\ r.pc = "xchg" /\ r.s = s /\ r.cur = t /\ r.stage = stage
      /\ r.fresh = Zero /\ r.rec = NoRecord /\ r.via = "resource"
  BY <1>1 DEF ReqType
<1> QED BY <1>2 DEF x, Asking

(* The record of a request that wants a token. *)
LEMMA WantMade ==
  ASSUME NEW s \in Sups, NEW via \in {"resource", "post"}
  PROVE  LET r == [NoReq EXCEPT !.pc = "want", !.s = s, !.via = via]
         IN  /\ r \in ReqType /\ r.pc = "want" /\ r.s = s /\ r.cur = Zero /\ r.fresh = Zero
             /\ r.rec = NoRecord
<1> DEFINE x == NoReq
           r == [x EXCEPT !.pc = "want", !.s = s, !.via = via]
<1>1. x \in ReqType /\ x.cur = Zero /\ x.fresh = Zero /\ x.rec = NoRecord
  BY NoReqTyped
<1> HIDE DEF x
<1>2. /\ r \in ReqType /\ r.pc = "want" /\ r.s = s /\ r.cur = Zero /\ r.fresh = Zero
      /\ r.rec = NoRecord
  BY <1>1 DEF ReqType
<1> QED BY <1>2 DEF x

(* The pair that is none is always sound. *)
LEMMA SoundZero == ASSUME IInv PROVE Sound(Zero)
BY ZeroTyped DEF IInv, TypeOK, Sound, Ids

(* What q and s are when q takes a step. *)
LEMMA Standing ==
  ASSUME IInv, NEW q \in Reqs, req[q].pc # "idle"
  PROVE  /\ req[q].s \in Sups /\ mem[req[q].s] # NoRecord /\ mem[req[q].s] \in Records
         /\ req[q] \in ReqType
         /\ Current(req[q].s) \in Tokens /\ Sound(Current(req[q].s))
BY DEF IInv, TypeOK, At, Up, PairsSound, Current, Records
----------------------------------------------------------------------------
(* What a step may make of the injector's pair. *)
NewTok(q, s) ==
  /\ tok' \in [Sups -> Tokens \cup {Unread}]
  /\ \A o \in Sups \ {s} : tok'[o] = tok[o]
  /\ \/ tok'[s] = tok[s] /\ ~(At(q, "got") /\ req[q].got = "fresh")
     \/ /\ tok'[s] # Unread /\ Sound(tok'[s]) /\ tok'[s].r \notin spent[s]
        /\ Known(q, s, tok'[s].r) /\ mu[s] \in {Free, q}
  /\ tok'[s] # Unread \/ req[q].pc = "idle"

(* What an injector that takes a new pair, or keeps its own, may have. *)
LEMMA TokFacts ==
  ASSUME IInv, NEW q \in Reqs, NEW s \in Sups, NewTok(q, s)
  PROVE  /\ tok'[s] # Unread => Sound(tok'[s]) /\ Known(q, s, tok'[s].r)
         /\ tok'[s] = tok[s] \/ mu[s] \in {Free, q}
         /\ tok'[s] # Unread =>
              \/ tok'[s].r \notin spent[s]
              \/ tok'[s] = tok[s] /\ ~(At(q, "got") /\ req[q].got = "fresh")
BY DEF NewTok, IInv, PairsSound, Known

Elsewhere == /\ UNCHANGED <<issued, live, expired, others, host, spent, acts>>
             /\ checked' \in [Sups -> BOOLEAN]

(* A request is over. *)
LEMMA DoneStep ==
  ASSUME IInv, NEW q \in Reqs, req[q].pc # "idle", Done(q), Elsewhere, NewTok(q, req[q].s),
         UNCHANGED mem, ring' \in Records \cup {NoRecord}, ring' # NoRecord => Sound(ring'.tok),
         owed' \in [Sups -> BOOLEAN], \A o \in Sups \ {req[q].s} : owed'[o] = owed[o],
         owed'[req[q].s] => Ported \/ (owed[req[q].s] /\ ~Brings(req[q], req[q].s))
  PROVE  IInv'
<1> DEFINE s == req[q].s
<1>0. /\ TypeOK /\ s \in Sups /\ mem[s] # NoRecord /\ mem[s] \in Records
      /\ Sound(Zero) /\ Zero.r = 0
  BY Standing, SoundZero, ZeroTyped DEF IInv
<1>1. req' = [req EXCEPT ![q] = NoReq] /\ NoReq \in ReqType
  BY NoReqTyped DEF Done
<1>2. req' \in [Reqs -> ReqType] /\ req'[q] = NoReq /\ \A p \in Reqs \ {q} : req'[p] = req[p]
  BY <1>0, <1>1 DEF TypeOK
<1>3. /\ mu' \in [Sups -> Reqs \cup {Free}]
      /\ \A o \in Sups : mu'[o] = IF mu[o] = q THEN Free ELSE mu[o]
  BY <1>0 DEF Done, TypeOK
<1>4. \A o \in Sups \ {s} : mu'[o] = mu[o]
  BY <1>0, <1>3, OAuthAssumption DEF TypeOK
<1>5. Types(q, s)
  BY <1>0, <1>2, <1>3, <1>4, NoReqTyped DEF Types, Elsewhere, NewTok, TypeOK
<1>6. Pairs(q, s)
  <2>1. Sound(mem'[s].tok)
    BY <1>0 DEF IInv, PairsSound, Up
  <2> QED BY <1>0, <1>2, <2>1, NoReqTyped, TokFacts DEF Pairs
<1>7. Mutex(q, s)
  BY <1>0, <1>2, <1>3, NoReqTyped, TokFacts, OAuthAssumption DEF Mutex, Exchanging
<1>8. Unspent(q, s)
  BY <1>0, TokFacts DEF Unspent, NewTok
<1>9. Captures(q, s)
  BY <1>0, <1>2, NoReqTyped, TokFacts DEF Captures, Captured, Known
<1>10. Owing(q, s)
  BY DEF Owing
<1>11. ~Exchanging(req'[q])
  BY <1>2, NoReqTyped DEF Exchanging
<1> QED BY <1>0, <1>5, <1>6, <1>7, <1>8, <1>9, <1>10, <1>11, LocalStep

(* A request adopts a pair, and tells the keyring about it. *)
LEMMA AdoptStep ==
  ASSUME IInv, NEW q \in Reqs, req[q].pc # "idle", NEW t \in Tokens, Adopt(q, req[q].s, t),
         Elsewhere, UNCHANGED ring, Sound(t), t.r \notin spent[req[q].s],
         Known(q, req[q].s, t.r), mu[req[q].s] \in {Free, q}
  PROVE  IInv'
<1> DEFINE s == req[q].s
           r == [NoReq EXCEPT !.pc = "notify", !.s = s]
<1>0. /\ TypeOK /\ s \in Sups /\ mem[s] # NoRecord /\ mem[s] \in Records
      /\ Sound(Zero) /\ Zero.r = 0 /\ t # Unread
  BY Standing, SoundZero, ZeroTyped, OAuthAssumption DEF IInv
<1>1. /\ r \in ReqType /\ r.pc = "notify" /\ r.s = s /\ r.cur = Zero /\ r.fresh = Zero
      /\ r.rec = NoRecord /\ r.via = "resource"
  BY <1>0, NotifyMade
<1>2. /\ req' = [req EXCEPT ![q] = r] /\ tok' = [tok EXCEPT ![s] = t]
      /\ mu' = [mu EXCEPT ![s] = q] /\ owed' = [owed EXCEPT ![s] = TRUE]
      /\ mem' = [mem EXCEPT ![s].tok = t]
  BY DEF Adopt, SaveOAuth
<1> HIDE DEF r
<1>3. req' \in [Reqs -> ReqType] /\ req'[q] = r /\ \A p \in Reqs \ {q} : req'[p] = req[p]
  BY <1>0, <1>1, <1>2 DEF TypeOK
<1>4. /\ mem' \in [Sups -> Records \cup {NoRecord}] /\ mem'[s] \in Records /\ mem'[s].tok = t
      /\ mem'[s].follow = mem[s].follow /\ \A o \in Sups \ {s} : mem'[o] = mem[o]
  <2>1. [mem[s] EXCEPT !.tok = t] \in Records /\ [mem[s] EXCEPT !.tok = t].tok = t
        /\ [mem[s] EXCEPT !.tok = t].follow = mem[s].follow
    BY <1>0 DEF Records
  <2>2. mem' = [mem EXCEPT ![s] = [mem[s] EXCEPT !.tok = t]]
    BY <1>2
  <2> QED BY <1>0, <2>1, <2>2 DEF TypeOK
<1>5. /\ tok' \in [Sups -> Tokens \cup {Unread}] /\ tok'[s] = t
      /\ mu' \in [Sups -> Reqs \cup {Free}] /\ mu'[s] = q
      /\ owed' \in [Sups -> BOOLEAN]
      /\ \A o \in Sups \ {s} : tok'[o] = tok[o] /\ mu'[o] = mu[o] /\ owed'[o] = owed[o]
  BY <1>0, <1>2 DEF TypeOK
<1>6. Types(q, s)
  BY <1>0, <1>1, <1>3, <1>4, <1>5, OAuthAssumption DEF Types, Elsewhere, TypeOK
<1>7. Pairs(q, s)
  BY <1>0, <1>1, <1>3, <1>4, <1>5 DEF Pairs, IInv, PairsSound
<1>8. Mutex(q, s)
  BY <1>1, <1>3, <1>5 DEF Mutex, Exchanging
<1>9. Unspent(q, s)
  BY <1>0, <1>5 DEF Unspent
<1>10. Captures(q, s)
  BY <1>0, <1>1, <1>3, <1>5 DEF Captures, Captured, Known
<1>11. Owing(q, s)
  BY <1>1, <1>3 DEF Owing, Brings
<1>12. ~Exchanging(req'[q])
  BY <1>1, <1>3 DEF Exchanging
<1> QED BY <1>0, <1>6, <1>7, <1>8, <1>9, <1>10, <1>11, <1>12, LocalStep

(* A request, under the mutex, asks the vendor for a new pair. *)
LEMMA AskStep ==
  ASSUME IInv, NEW q \in Reqs, req[q].pc \notin {"idle", "notify", "ringset"},
         NEW stage \in {"current", "host", "recover"}, NEW t \in Tokens,
         AskVendor(q, req[q].s, stage, t), Elsewhere, UNCHANGED <<ring, mem, owed>>,
         NewTok(q, req[q].s), mu[req[q].s] \in {Free, q}, Sound(t), t.r # 0, t.a <= expired,
         Known(q, req[q].s, t.r),
         stage = "current" => tok'[req[q].s] = t /\ t.r \notin spent[req[q].s],
         stage # "current" => mem[req[q].s].follow
  PROVE  IInv'
<1> DEFINE s == req[q].s
           r == Asking(s, stage, t)
<1>0. /\ TypeOK /\ s \in Sups /\ mem[s] # NoRecord /\ mem[s] \in Records
      /\ Sound(Zero) /\ Zero.r = 0 /\ t # Unread
  BY Standing, SoundZero, ZeroTyped, OAuthAssumption DEF IInv
<1>1. /\ r \in ReqType /\ r.pc = "xchg" /\ r.s = s /\ r.cur = t /\ r.stage = stage
      /\ r.fresh = Zero /\ r.rec = NoRecord /\ r.via = "resource"
  BY <1>0, XchgMade
<1>2. req' = [req EXCEPT ![q] = r] /\ mu' = [mu EXCEPT ![s] = q]
  BY DEF AskVendor, Asking
<1> HIDE DEF r
<1>3. req' \in [Reqs -> ReqType] /\ req'[q] = r /\ \A p \in Reqs \ {q} : req'[p] = req[p]
  BY <1>0, <1>1, <1>2 DEF TypeOK
<1>4. mu' \in [Sups -> Reqs \cup {Free}] /\ mu'[s] = q /\ \A o \in Sups \ {s} : mu'[o] = mu[o]
  BY <1>0, <1>2 DEF TypeOK
<1>5. Types(q, s)
  BY <1>0, <1>1, <1>3, <1>4 DEF Types, Elsewhere, TypeOK, NewTok
<1>6. Pairs(q, s)
  <2>1. Sound(mem'[s].tok)
    BY <1>0 DEF IInv, PairsSound, Up
  <2> QED BY <1>0, <1>1, <1>3, <2>1, TokFacts DEF Pairs, IInv, PairsSound
<1>7. Mutex(q, s)
  BY <1>1, <1>3, <1>4 DEF Mutex
<1>8. Unspent(q, s)
  BY <1>0, TokFacts DEF Unspent, NewTok
<1>9. Captures(q, s)
  BY <1>0, <1>1, <1>3, TokFacts DEF Captures, Captured, Known
<1>10. Owing(q, s)
  BY DEF Owing, Brings
<1>11. ExchangeSound(req[q])'
  BY <1>1, <1>3 DEF ExchangeSound, Elsewhere
<1> QED BY <1>0, <1>5, <1>6, <1>7, <1>8, <1>9, <1>10, <1>11, LocalStep
----------------------------------------------------------------------------
(* The pairs that the steps give the injector. *)

(* The injector's own pair, once the mutex is held, is not spent.          *)
LEMMA OwnPair ==
  ASSUME IInv, NEW q \in Reqs, req[q].pc # "idle", mu[req[q].s] = Free,
         tok' = [tok EXCEPT ![req[q].s] = Current(req[q].s)]
  PROVE  /\ NewTok(q, req[q].s) /\ tok'[req[q].s] = Current(req[q].s)
         /\ Current(req[q].s).r \notin spent[req[q].s]
         /\ Known(q, req[q].s, Current(req[q].s).r)
<1> DEFINE s == req[q].s
           c == Current(s)
<1>1. s \in Sups /\ c \in Tokens /\ Sound(c) /\ c # Unread
  BY Standing, OAuthAssumption
<1>2. ~Replaced(s)
  BY OAuthAssumption DEF IInv, MutexHeld, Replaced, Exchanging, At
<1>3. tok[s] = Unread => spent[s] = {}
  BY <1>1 DEF IInv, TokUnspent
<1>4. tok[s] # Unread => tok[s].r \notin spent[s] /\ c = tok[s]
  BY <1>1, <1>2 DEF IInv, TokUnspent, Current
<1>5. c.r \notin spent[s]
  BY <1>3, <1>4
<1>6. Known(q, s, c.r)
  BY <1>4 DEF Known
<1> HIDE DEF c
<1>7. tok' = [tok EXCEPT ![s] = c]
  BY DEF c
<1>8. /\ tok' \in [Sups -> Tokens \cup {Unread}] /\ tok'[s] = c
      /\ \A o \in Sups \ {s} : tok'[o] = tok[o]
  BY <1>1, <1>7 DEF IInv, TypeOK
<1>9. NewTok(q, s)
  BY <1>1, <1>5, <1>6, <1>8 DEF NewTok
<1> QED BY <1>5, <1>6, <1>8, <1>9 DEF c

(* To forget the pair is always allowed. *)
LEMMA ZeroPair ==
  ASSUME IInv, NEW q \in Reqs, req[q].pc # "idle", mu[req[q].s] \in {Free, q},
         tok' = [tok EXCEPT ![req[q].s] = Zero]
  PROVE  NewTok(q, req[q].s)
<1> DEFINE s == req[q].s
<1>1. s \in Sups /\ Zero \in Tokens /\ Sound(Zero) /\ Zero # Unread /\ Zero.r = 0
  BY Standing, ZeroTyped, SoundZero, OAuthAssumption
<1>2. 0 \notin spent[s]
  BY <1>1 DEF IInv, SpentIsGone, TypeOK
<1>3. Known(q, s, Zero.r)
  BY <1>1 DEF Known
<1>4. /\ tok' \in [Sups -> Tokens \cup {Unread}] /\ tok'[s] = Zero
      /\ \A o \in Sups \ {s} : tok'[o] = tok[o]
  BY <1>1 DEF IInv, TypeOK
<1> QED BY <1>1, <1>2, <1>3, <1>4 DEF NewTok

(* The host's login, if it is good, was not spent here.                    *)
LEMMA HostPair ==
  ASSUME IInv, NEW q \in Reqs, NEW s \in Sups
  PROVE  /\ host \in Tokens /\ Sound(host) /\ Known(q, s, host.r)
         /\ ~Expired(host) => host.r \notin spent[s]
<1>1. /\ host \in Tokens /\ Sound(host) /\ host.a = host.r /\ spent[s] \subseteq 1 .. expired
      /\ expired \in Nat
  BY DEF IInv, TypeOK, PairsSound, SpentIsGone
<1>2. ~Expired(host) => host.r \notin spent[s]
  BY <1>1 DEF Expired, Tokens
<1> QED BY <1>1, <1>2 DEF Known

(* A step that leaves the injector's pair alone, with no answer at hand.   *)
LEMMA SamePair ==
  ASSUME IInv, NEW q \in Reqs, req[q].pc \notin {"idle", "want"}, UNCHANGED tok,
         ~(req[q].pc = "got" /\ req[q].got = "fresh")
  PROVE  NewTok(q, req[q].s)
<1>1. tok[req[q].s] # Unread
  BY Standing DEF IInv, TokUnspent
<1> QED BY <1>1 DEF NewTok, IInv, TypeOK, At
----------------------------------------------------------------------------
(* The requests' steps. *)
LEMMA BeginKeeps ==
  ASSUME IInv, NEW q \in Reqs, NEW s \in Sups, NEW via \in {"resource", "post"},
         Begin(q, s, via)
  PROVE  IInv'
<1> DEFINE r == [NoReq EXCEPT !.pc = "want", !.s = s, !.via = via]
<1>0. /\ TypeOK /\ mem[s] # NoRecord /\ req[q].pc = "idle"
      /\ Sound(Zero) /\ Zero.r = 0
  BY SoundZero, ZeroTyped DEF IInv, Begin, At, Up
<1>1. /\ r \in ReqType /\ r.pc = "want" /\ r.s = s /\ r.cur = Zero /\ r.fresh = Zero
      /\ r.rec = NoRecord
  BY WantMade
<1>2. /\ req' = [req EXCEPT ![q] = r]
      /\ UNCHANGED <<issued, live, expired, others, host, ring, mem, tok, mu, checked,
                     spent, owed, acts>>
  BY DEF Begin, vendor, keys, saved, hist
<1> HIDE DEF r
<1>3. req' \in [Reqs -> ReqType] /\ req'[q] = r /\ \A p \in Reqs \ {q} : req'[p] = req[p]
  BY <1>0, <1>1, <1>2 DEF TypeOK
<1>4. Types(q, s)
  BY <1>0, <1>1, <1>2, <1>3 DEF Types, TypeOK
<1>5. Pairs(q, s)
  BY <1>0, <1>1, <1>2, <1>3 DEF Pairs, IInv, PairsSound, Up
<1>6. Mutex(q, s)
  BY <1>1, <1>2, <1>3 DEF Mutex, Exchanging
<1>7. Unspent(q, s)
  BY <1>0, <1>1, <1>2, <1>3 DEF Unspent, At
<1>8. Captures(q, s)
  BY <1>0, <1>1, <1>2, <1>3 DEF Captures, Captured, Known
<1>9. Owing(q, s)
  BY <1>0, <1>2 DEF Owing, Brings
<1>10. ~Exchanging(req'[q])
  BY <1>1, <1>3 DEF Exchanging
<1> QED BY <1>4, <1>5, <1>6, <1>7, <1>8, <1>9, <1>10, LocalStep

(* A keyring that is left alone. *)
LEMMA SameRing ==
  ASSUME IInv, UNCHANGED ring
  PROVE  ring' \in Records \cup {NoRecord} /\ (ring' # NoRecord => Sound(ring'.tok))
BY DEF IInv, TypeOK, PairsSound

(* What is known when a request has taken the mutex. *)
LEMMA WantedFacts ==
  ASSUME IInv, NEW q \in Reqs, NEW via, Wants(q, via)
  PROVE  /\ req[q].pc = "want" /\ mu[req[q].s] = Free /\ req[q].s \in Sups
         /\ ~Brings(req[q], req[q].s) /\ mem[req[q].s] # NoRecord /\ TypeOK
         /\ Current(req[q].s) \in Tokens /\ Sound(Current(req[q].s))
BY Standing DEF Wants, At, Brings, IInv

(* refresh: an expired pair of its own is exchanged. *)
LEMMA RefreshKeeps ==
  ASSUME IInv, NEW q \in Reqs, NEW via, Wants(q, via), Refresh(q, req[q].s, Current(req[q].s)),
         Elsewhere, UNCHANGED ring, Current(req[q].s).a <= expired
  PROVE  IInv'
<1> DEFINE s == req[q].s
           c == Current(s)
<1>0. /\ req[q].pc = "want" /\ mu[s] = Free /\ s \in Sups
      /\ ~Brings(req[q], s) /\ mem[s] # NoRecord /\ TypeOK
      /\ c \in Tokens /\ Sound(c) /\ c.a <= expired
  BY WantedFacts
<1>1. tok' = [tok EXCEPT ![s] = c] /\ UNCHANGED <<mem, owed>>
  BY DEF Refresh, saved
<1>2. NewTok(q, s) /\ tok'[s] = c /\ c.r \notin spent[s] /\ Known(q, s, c.r)
  BY <1>0, <1>1, OwnPair
<1>3. ring' \in Records \cup {NoRecord} /\ (ring' # NoRecord => Sound(ring'.tok))
  BY DEF IInv, TypeOK, PairsSound
<1>4. CASE c.r = 0
  <2>1. Done(q)
    BY <1>4 DEF Refresh
  <2> QED BY <1>0, <1>1, <1>2, <1>3, <2>1, DoneStep DEF TypeOK
<1>5. CASE c.r # 0
  <2>1. AskVendor(q, s, "current", c)
    BY <1>5 DEF Refresh
  <2> HIDE DEF c
  <2> QED BY <1>0, <1>1, <1>2, <1>5, <2>1, AskStep
<1> QED BY <1>4, <1>5

(* The host's pair is adopted, exchanged, or there is none to recover      *)
(* with.                                                                   *)
LEMMA RecoverKeeps ==
  ASSUME IInv, NEW q \in Reqs, NEW via, Wants(q, via), RecoverFromHost(q, req[q].s),
         UNCHANGED <<issued, live, expired, others, host, ring, spent, acts>>
  PROVE  IInv'
<1> DEFINE s == req[q].s
<1>0. /\ req[q].pc = "want" /\ mu[s] = Free /\ s \in Sups
      /\ ~Brings(req[q], s) /\ mem[s] # NoRecord /\ TypeOK
  BY WantedFacts
<1>1. /\ host \in Tokens /\ Sound(host) /\ Known(q, s, host.r)
      /\ ~Expired(host) => host.r \notin spent[s]
  BY <1>0, HostPair
<1>2. Elsewhere
  BY <1>0 DEF Elsewhere, RecoverFromHost, TypeOK
<1>3. CASE ~checked[s] /\ FromHost(s, Zero) /\ ~Expired(host)
  <2>1. Adopt(q, s, host)
    BY <1>3 DEF RecoverFromHost
  <2> QED BY <1>0, <1>1, <1>2, <1>3, <2>1, AdoptStep
<1>4. CASE ~(~checked[s] /\ FromHost(s, Zero) /\ ~Expired(host))
  <2>1. tok' = [tok EXCEPT ![s] = Zero] /\ UNCHANGED <<mem, owed>>
    BY <1>4 DEF RecoverFromHost, saved
  <2>2. NewTok(q, s)
    BY <1>0, <2>1, ZeroPair
  <2>3. CASE ~checked[s] /\ FromHost(s, Zero) /\ host.r # 0
    <3>1. AskVendor(q, s, "recover", host)
      BY <1>4, <2>3 DEF RecoverFromHost
    <3>2. host.a <= expired /\ mem[s].follow
      BY <1>4, <2>3 DEF Expired, FromHost
    <3> QED BY <1>0, <1>1, <1>2, <2>1, <2>2, <2>3, <3>1, <3>2, AskStep
  <2>4. CASE ~(~checked[s] /\ FromHost(s, Zero) /\ host.r # 0)
    <3>1. Done(q)
      BY <1>4, <2>4 DEF RecoverFromHost
    <3>2. ring' \in Records \cup {NoRecord} /\ (ring' # NoRecord => Sound(ring'.tok))
      BY DEF IInv, TypeOK, PairsSound
    <3> QED BY <1>0, <1>2, <2>1, <2>2, <3>1, <3>2, DoneStep DEF TypeOK
  <2> QED BY <2>3, <2>4
<1> QED BY <1>3, <1>4

(* AccessToken, up to the exchange. *)
LEMMA AccessTokenKeeps ==
  ASSUME IInv, NEW q \in Reqs, AccessToken(q)
  PROVE  IInv'
<1> DEFINE s == req[q].s
           c == Current(s)
<1>0. /\ req[q].pc = "want" /\ mu[s] = Free /\ s \in Sups
      /\ ~Brings(req[q], s) /\ mem[s] # NoRecord /\ TypeOK /\ Wants(q, "resource")
  BY WantedFacts DEF AccessToken
<1>1. UNCHANGED <<issued, live, expired, others, host, ring, spent, acts>>
  BY DEF AccessToken, vendor, keys, hist
<1>2. CASE IsZero(c)
  BY <1>0, <1>1, <1>2, RecoverKeeps DEF AccessToken
<1>3. CASE ~IsZero(c) /\ ~Expired(c)
  <2>1. Done(q) /\ tok' = [tok EXCEPT ![s] = c] /\ UNCHANGED <<mem, owed, checked>>
    BY <1>3 DEF AccessToken, saved
  <2>2. NewTok(q, s)
    BY <1>0, <2>1, OwnPair
  <2>3. ring' \in Records \cup {NoRecord} /\ (ring' # NoRecord => Sound(ring'.tok))
    BY <1>1 DEF IInv, TypeOK, PairsSound
  <2>4. Elsewhere
    BY <1>0, <1>1, <2>1 DEF Elsewhere, TypeOK
  <2> QED BY <1>0, <2>1, <2>2, <2>3, <2>4, DoneStep DEF TypeOK
<1>4. CASE ~IsZero(c) /\ Expired(c)
  <2>1. checked' = [checked EXCEPT ![s] = TRUE]
    BY <1>4 DEF AccessToken
  <2>2. Elsewhere
    BY <1>0, <1>1, <2>1 DEF Elsewhere, TypeOK
  <2>3. CASE FromHost(s, c) /\ ~Expired(host)
    <3>1. Adopt(q, s, host)
      BY <1>4, <2>3 DEF AccessToken
    <3>2. /\ host \in Tokens /\ Sound(host) /\ Known(q, s, host.r)
          /\ host.r \notin spent[s]
      BY <1>0, <2>3, HostPair
    <3> QED BY <1>0, <1>1, <2>2, <3>1, <3>2, AdoptStep
  <2>4. CASE ~(FromHost(s, c) /\ ~Expired(host))
    <3>1. Refresh(q, s, c)
      BY <1>4, <2>4 DEF AccessToken
    <3> QED BY <1>0, <1>1, <1>4, <2>2, <3>1, RefreshKeeps DEF Expired
  <2> QED BY <2>3, <2>4
<1> QED BY <1>2, <1>3, <1>4

(* ExchangeToken, up to the exchange. *)
LEMMA ExchangeTokenKeeps ==
  ASSUME IInv, NEW q \in Reqs, ExchangeToken(q)
  PROVE  IInv'
<1> DEFINE s == req[q].s
           c == Current(s)
<1>0. /\ req[q].pc = "want" /\ mu[s] = Free /\ s \in Sups
      /\ ~Brings(req[q], s) /\ mem[s] # NoRecord /\ TypeOK /\ Wants(q, "answer")
      /\ c \in Tokens
  BY WantedFacts DEF ExchangeToken
<1>1. UNCHANGED <<issued, live, expired, others, host, ring, spent, acts, checked>>
  BY DEF ExchangeToken, vendor, keys, hist
<1>2. Elsewhere
  BY <1>0, <1>1 DEF Elsewhere, TypeOK
<1>3. CASE (IsZero(c) \/ Expired(c)) /\ c.r # 0
  <2>1. Refresh(q, s, c)
    BY <1>3 DEF ExchangeToken
  <2>2. c.a <= expired
    BY <1>0, <1>3 DEF Expired, IsZero, TypeOK
  <2> QED BY <1>0, <1>1, <1>2, <2>1, <2>2, RefreshKeeps
<1>4. CASE ~((IsZero(c) \/ Expired(c)) /\ c.r # 0)
  <2>1. Done(q) /\ tok' = [tok EXCEPT ![s] = c] /\ UNCHANGED <<mem, owed>>
    BY <1>4 DEF ExchangeToken, saved
  <2>2. NewTok(q, s)
    BY <1>0, <2>1, OwnPair
  <2>3. ring' \in Records \cup {NoRecord} /\ (ring' # NoRecord => Sound(ring'.tok))
    BY <1>1 DEF IInv, TypeOK, PairsSound
  <2> QED BY <1>0, <1>2, <2>1, <2>2, <2>3, DoneStep DEF TypeOK
<1> QED BY <1>3, <1>4

(* A request that goes on to a step that exchanges nothing. *)
LEMMA MoveStep ==
  ASSUME IInv, NEW q \in Reqs, req[q].pc # "idle", NEW r \in ReqType,
         req' = [req EXCEPT ![q] = r], r.pc \notin {"idle", "xchg", "got"}, r.s = req[q].s,
         r.cur = req[q].cur, r.fresh = req[q].fresh, r.rec # NoRecord => Sound(r.rec.tok),
         Elsewhere, UNCHANGED mu, ring' \in Records \cup {NoRecord},
         ring' # NoRecord => Sound(ring'.tok), NewTok(q, req[q].s),
         Captured(r) => Captured(req[q]) /\ tok'[req[q].s] = tok[req[q].s],
         mem' \in [Sups -> Records \cup {NoRecord}],
         \A o \in Sups \ {req[q].s} : mem'[o] = mem[o] /\ owed'[o] = owed[o],
         mem'[req[q].s] # NoRecord, mem'[req[q].s].follow = mem[req[q].s].follow,
         Sound(mem'[req[q].s].tok), owed' \in [Sups -> BOOLEAN], Owing(q, req[q].s)
  PROVE  IInv'
<1> DEFINE s == req[q].s
<1>0. TypeOK /\ s \in Sups /\ mem[s] # NoRecord
  BY Standing DEF IInv
<1>1. req' \in [Reqs -> ReqType] /\ req'[q] = r /\ \A p \in Reqs \ {q} : req'[p] = req[p]
  BY <1>0 DEF TypeOK
<1>2. Types(q, s)
  BY <1>0, <1>1 DEF Types, Elsewhere, NewTok, TypeOK
<1>3. Pairs(q, s)
  BY <1>0, <1>1, TokFacts DEF Pairs, IInv, PairsSound
<1>4. Mutex(q, s)
  BY <1>0, <1>1, TokFacts DEF Mutex, Exchanging
<1>5. Unspent(q, s)
  BY <1>0, TokFacts DEF Unspent, NewTok
<1>6. Captures(q, s)
  BY <1>0, <1>1, TokFacts DEF Captures, Known
<1>7. ~Exchanging(req'[q])
  BY <1>1 DEF Exchanging
<1> QED BY <1>0, <1>2, <1>3, <1>4, <1>5, <1>6, <1>7, LocalStep

(* NeedsAcquisition looks at the pair. *)
LEMMA NeedsAcquisitionKeeps ==
  ASSUME IInv, NEW q \in Reqs, NeedsAcquisition(q)
  PROVE  IInv'
<1> DEFINE s == req[q].s
           w == req[q]
           r == IF IsZero(Current(s)) THEN [w EXCEPT !.pc = "relay"]
                                      ELSE [w EXCEPT !.via = "answer"]
<1>0. /\ w.pc = "want" /\ mu[s] = Free /\ s \in Sups /\ w \in ReqType
      /\ ~Brings(w, s) /\ mem[s] # NoRecord /\ TypeOK
  BY WantedFacts DEF NeedsAcquisition, TypeOK
<1>1. /\ UNCHANGED <<issued, live, expired, others, host, ring, spent, acts, checked, mem,
                     owed, mu>>
      /\ tok' = [tok EXCEPT ![s] = Current(s)] /\ req' = [req EXCEPT ![q] = r]
  BY DEF NeedsAcquisition, vendor, keys, hist, saved
<1>2. NewTok(q, s)
  BY <1>0, <1>1, OwnPair
<1>3. Elsewhere
  BY <1>0, <1>1 DEF Elsewhere, TypeOK
<1>4. w.rec # NoRecord => Sound(w.rec.tok)
  BY DEF IInv, PairsSound
<1>5. Sound(mem'[s].tok)
  BY <1>0, <1>1 DEF IInv, PairsSound, Up
<1>6. Owing(q, s)
  BY <1>0, <1>1 DEF Owing
<1>7. /\ r \in ReqType /\ r.pc \in {"relay", "want"} /\ r.s = s /\ r.cur = w.cur
      /\ r.fresh = w.fresh /\ r.rec = w.rec
  <2>1. w.s = s
    OBVIOUS
  <2> HIDE DEF s, w
  <2> QED BY <1>0, <2>1 DEF ReqType
<1> HIDE DEF r
<1>8. ~Captured(r)
  BY <1>7 DEF Captured
<1> QED BY <1>0, <1>1, <1>2, <1>3, <1>4, <1>5, <1>6, <1>7, <1>8, MoveStep, SameRing DEF TypeOK

(* AcquireToken takes what a response to the guest carried. *)
LEMMA AcquireTokenKeeps ==
  ASSUME IInv, NEW q \in Reqs, AcquireToken(q)
  PROVE  IInv'
<1> DEFINE s == req[q].s
           w == req[q]
           r == [w EXCEPT !.pc = "notify", !.via = "acquire"]
<1>0. /\ w.pc = "relayed" /\ s \in Sups /\ w \in ReqType /\ mem[s] \in Records
      /\ mem[s] # NoRecord /\ TypeOK
  BY Standing DEF AcquireToken, IInv, At
<1>1. UNCHANGED <<issued, live, expired, others, host, ring, spent, acts, checked, tok>>
  BY DEF AcquireToken, vendor, keys, hist
<1>2. NewTok(q, s) /\ Elsewhere
  BY <1>0, <1>1, SamePair DEF Elsewhere, TypeOK
<1>3. CASE w.got = "fresh"
  <2>1. /\ mem' = [mem EXCEPT ![s].tok = w.fresh] /\ owed' = [owed EXCEPT ![s] = TRUE]
        /\ UNCHANGED mu /\ req' = [req EXCEPT ![q] = r]
    BY <1>3 DEF AcquireToken, SaveOAuth
  <2>2. w.fresh \in Tokens /\ Sound(w.fresh) /\ (w.rec # NoRecord => Sound(w.rec.tok))
    BY <1>0 DEF IInv, PairsSound, ReqType
  <2>3. /\ r \in ReqType /\ r.pc = "notify" /\ r.s = s /\ r.cur = w.cur
        /\ r.fresh = w.fresh /\ r.rec = w.rec
    <3>1. w.s = s
      OBVIOUS
    <3> HIDE DEF s, w
    <3> QED BY <1>0, <3>1 DEF ReqType
  <2>4. /\ mem' \in [Sups -> Records \cup {NoRecord}] /\ mem'[s] \in Records
        /\ mem'[s].tok = w.fresh /\ mem'[s].follow = mem[s].follow
        /\ \A o \in Sups \ {s} : mem'[o] = mem[o]
    <3> DEFINE f == w.fresh
    <3> HIDE DEF f
    <3>1. /\ [mem[s] EXCEPT !.tok = f] \in Records /\ [mem[s] EXCEPT !.tok = f].tok = f
          /\ [mem[s] EXCEPT !.tok = f].follow = mem[s].follow
      BY <1>0, <2>2 DEF Records, f
    <3>2. mem' = [mem EXCEPT ![s] = [mem[s] EXCEPT !.tok = f]]
      BY <2>1 DEF f
    <3>3. /\ mem' \in [Sups -> Records \cup {NoRecord}] /\ mem'[s] \in Records
          /\ mem'[s].tok = f /\ mem'[s].follow = mem[s].follow
          /\ \A o \in Sups \ {s} : mem'[o] = mem[o]
      BY <1>0, <3>1, <3>2 DEF TypeOK
    <3> QED BY <3>3 DEF f
  <2> HIDE DEF r
  <2>5. owed' \in [Sups -> BOOLEAN] /\ \A o \in Sups \ {s} : owed'[o] = owed[o]
    BY <1>0, <2>1 DEF TypeOK
  <2>6. req'[q] = r
    BY <1>0, <2>1 DEF TypeOK
  <2>7. Owing(q, s)
    BY <2>3, <2>6 DEF Owing, Brings
  <2>8. Captured(r) => Captured(w)
    BY <1>0, <1>3, <2>3 DEF Captured
  <2>9. mem'[s] # NoRecord
    BY <2>4, OAuthAssumption
  <2> QED BY <1>0, <1>1, <1>2, <2>1, <2>2, <2>3, <2>4, <2>5, <2>7, <2>8, <2>9, MoveStep,
            SameRing
<1>4. CASE w.got # "fresh"
  <2>1. Done(q) /\ UNCHANGED <<mem, owed>>
    BY <1>4 DEF AcquireToken, saved
  <2>2. ring' \in Records \cup {NoRecord} /\ (ring' # NoRecord => Sound(ring'.tok))
    BY <1>1 DEF IInv, TypeOK, PairsSound
  <2>3. ~Brings(w, s)
    BY <1>0 DEF Brings
  <2> QED BY <1>0, <1>2, <2>1, <2>2, <2>3, DoneStep DEF TypeOK
<1> QED BY <1>3, <1>4

(* What follows the write-back. *)
LEMMA StoredStep ==
  ASSUME IInv, NEW q \in Reqs, req[q].pc \in {"notify", "ringset"}, Stored(q), Elsewhere,
         UNCHANGED <<mem, tok>>, ring' \in Records \cup {NoRecord},
         ring' # NoRecord => Sound(ring'.tok), owed' \in [Sups -> BOOLEAN],
         \A o \in Sups \ {req[q].s} : owed'[o] = owed[o],
         owed'[req[q].s] => Ported \/ (owed[req[q].s] /\ ~Brings(req[q], req[q].s))
  PROVE  IInv'
<1> DEFINE s == req[q].s
           w == req[q]
           r == [w EXCEPT !.pc = "settok"]
<1>0. s \in Sups /\ w \in ReqType /\ mem[s] # NoRecord /\ TypeOK /\ w.pc # "idle"
  BY Standing DEF IInv
<1>1. NewTok(q, s)
  BY SamePair
<1>2. CASE w.via # "acquire"
  <2>1. Done(q)
    BY <1>2 DEF Stored
  <2> QED BY <1>0, <1>1, <2>1, DoneStep
<1>3. CASE w.via = "acquire"
  <2>1. req' = [req EXCEPT ![q].pc = "settok"] /\ UNCHANGED mu
    BY <1>3 DEF Stored
  <2>2. req' = [req EXCEPT ![q] = r] /\ mu' = mu
    BY <2>1
  <2>3. /\ r \in ReqType /\ r.pc = "settok" /\ r.s = s /\ r.cur = w.cur
        /\ r.fresh = w.fresh /\ r.rec = w.rec
    <3>1. w.s = s
      OBVIOUS
    <3> HIDE DEF s, w
    <3> QED BY <1>0, <3>1 DEF ReqType
  <2>4. (w.rec # NoRecord => Sound(w.rec.tok)) /\ Sound(mem'[s].tok)
    BY <1>0 DEF IInv, PairsSound, Up
  <2> HIDE DEF r
  <2>5. Captured(r) => Captured(w)
    BY <1>3, <2>3 DEF Captured
  <2>6. Owing(q, s) /\ r.pc \notin {"idle", "xchg", "got"}
    BY <2>3 DEF Owing
  <2>7. /\ mem' \in [Sups -> Records \cup {NoRecord}] /\ mem'[s] # NoRecord
        /\ mem'[s].follow = mem[s].follow /\ tok'[s] = tok[s]
        /\ \A o \in Sups \ {s} : mem'[o] = mem[o] /\ owed'[o] = owed[o]
    BY <1>0 DEF TypeOK
  <2> QED BY <1>0, <1>1, <2>2, <2>3, <2>4, <2>5, <2>6, <2>7, MoveStep
<1> QED BY <1>2, <1>3

(* The keyring is read, to be told of the new pair. *)
LEMMA NotifyKeeps ==
  ASSUME IInv, NEW q \in Reqs, Notify(q)
  PROVE  IInv'
<1> DEFINE s == req[q].s
           w == req[q]
<1>0. /\ w.pc = "notify" /\ s \in Sups /\ w \in ReqType /\ mem[s] # NoRecord /\ TypeOK
      /\ mem[s] \in Records
  BY Standing DEF IInv, Notify, At
<1>1. UNCHANGED <<issued, live, expired, others, host, ring, spent, acts, checked, tok, mem>>
  BY DEF Notify, vendor, keys, hist
<1>2. Elsewhere /\ NewTok(q, s)
  BY <1>0, <1>1, SamePair DEF Elsewhere, TypeOK
<1>3. CASE Kept(s, mem[s].tok) /\ Stored(q)
  <2>1. /\ owed' \in [Sups -> BOOLEAN] /\ \A o \in Sups \ {s} : owed'[o] = owed[o]
        /\ owed'[s] = FALSE
    BY <1>0, <1>3 DEF Kept, TypeOK
  <2> QED BY <1>0, <1>1, <1>2, <1>3, <2>1, StoredStep, SameRing
<1>4. CASE /\ ring # NoRecord /\ UNCHANGED <<mu, owed>>
           /\ req' = [req EXCEPT ![q] = [@ EXCEPT !.pc = "ringset",
                                         !.rec = [ring EXCEPT !.tok = mem[s].tok]]]
  <2> DEFINE m == mem[s].tok
             v == [ring EXCEPT !.tok = m]
             r == [w EXCEPT !.pc = "ringset", !.rec = v]
  <2>1. req' = [req EXCEPT ![q] = r]
    BY <1>4
  <2>2. ring \in Records /\ m \in Tokens /\ Sound(m)
    BY <1>0, <1>4 DEF TypeOK, Records, IInv, PairsSound, Up
  <2>3. v \in Records /\ v.tok = m
    <3> HIDE DEF m
    <3> QED BY <2>2 DEF Records
  <2>4. /\ r \in ReqType /\ r.pc = "ringset" /\ r.s = s /\ r.cur = w.cur
        /\ r.fresh = w.fresh /\ r.rec = v /\ r.via = w.via
    <3>1. w.s = s /\ w \in ReqType /\ v \in Records
      BY <1>0, <2>3
    <3> HIDE DEF s, w, v
    <3> QED BY <3>1 DEF ReqType
  <2> HIDE DEF r
  <2>5. Captured(r) => Captured(w)
    BY <1>0, <2>4 DEF Captured
  <2>6. req'[q] = r
    BY <1>0, <2>1 DEF TypeOK
  <2>7. r.rec # NoRecord => Sound(r.rec.tok)
    BY <2>2, <2>3, <2>4
  <2>8. Owing(q, s)
    BY <1>1, <2>3, <2>4, <2>6 DEF Owing, Brings
  <2>9. /\ mem' \in [Sups -> Records \cup {NoRecord}] /\ mem'[s] # NoRecord
        /\ mem'[s].follow = mem[s].follow /\ tok'[s] = tok[s] /\ Sound(mem'[s].tok)
        /\ owed' \in [Sups -> BOOLEAN]
        /\ \A o \in Sups \ {s} : mem'[o] = mem[o] /\ owed'[o] = owed[o]
    BY <1>0, <1>1, <1>4, <2>2 DEF TypeOK
  <2> QED BY <1>0, <1>1, <1>2, <1>4, <2>1, <2>4, <2>5, <2>7, <2>8, <2>9, MoveStep, SameRing
<1>5. CASE Ported /\ Stored(q) /\ UNCHANGED owed
  BY <1>0, <1>1, <1>2, <1>5, StoredStep, SameRing DEF TypeOK
<1> QED BY <1>3, <1>4, <1>5 DEF Notify

(* The keyring is told. *)
LEMMA RingSetKeeps ==
  ASSUME IInv, NEW q \in Reqs, RingSet(q)
  PROVE  IInv'
<1> DEFINE s == req[q].s
           w == req[q]
<1>0. /\ w.pc = "ringset" /\ s \in Sups /\ w \in ReqType /\ TypeOK
  BY Standing DEF IInv, RingSet, At
<1>1. /\ UNCHANGED <<issued, live, expired, others, host, spent, acts, checked, tok, mem>>
      /\ ring' = w.rec /\ Stored(q)
      /\ owed' = [owed EXCEPT ![s] = @ /\ w.rec.tok # mem[s].tok]
  BY DEF RingSet, vendor, hist, Kept
<1>2. Elsewhere
  BY <1>0, <1>1 DEF Elsewhere, TypeOK
<1>3. w.rec \in Records \cup {NoRecord} /\ (w.rec # NoRecord => Sound(w.rec.tok))
  BY <1>0 DEF ReqType, IInv, PairsSound
<1>4. /\ owed' \in [Sups -> BOOLEAN] /\ \A o \in Sups \ {s} : owed'[o] = owed[o]
      /\ owed'[s] => owed[s] /\ w.rec.tok # mem[s].tok
  BY <1>0, <1>1 DEF TypeOK
<1>5. owed'[s] => owed[s] /\ ~Brings(w, s)
  BY <1>0, <1>4 DEF Brings
<1> QED BY <1>0, <1>1, <1>2, <1>3, <1>4, <1>5, StoredStep

(* A pair captured on the way to the guest becomes the injector's. *)
LEMMA SetTokKeeps ==
  ASSUME IInv, NEW q \in Reqs, SetTok(q)
  PROVE  IInv'
<1> DEFINE s == req[q].s
           f == req[q].fresh
<1>0. /\ req[q].pc = "settok" /\ s \in Sups /\ req[q] \in ReqType /\ TypeOK /\ mu[s] = Free
      /\ Sound(f) /\ f \in Tokens /\ f # Unread
  BY Standing, OAuthAssumption DEF IInv, SetTok, At, PairsSound, ReqType
<1>1. /\ UNCHANGED <<issued, live, expired, others, host, ring, spent, acts, checked, mem, owed>>
      /\ Done(q) /\ tok' = [tok EXCEPT ![s] = f]
  BY DEF SetTok, vendor, keys, hist, saved
<1>2. f.r \notin spent[s]
  <2>1. CASE f.r = 0
    BY <1>0, <2>1 DEF TypeOK, Ids
  <2>2. CASE f.r # 0
    BY <1>0, <2>2 DEF IInv, CapturesOwn, CaptureOwn, Captured
  <2> QED BY <2>1, <2>2
<1>3. Known(q, s, f.r)
  BY DEF Known
<1>4. /\ tok' \in [Sups -> Tokens \cup {Unread}] /\ tok'[s] = f
      /\ \A o \in Sups \ {s} : tok'[o] = tok[o]
  <2> HIDE DEF f
  <2> QED BY <1>0, <1>1 DEF TypeOK
<1>5. NewTok(q, s)
  BY <1>0, <1>2, <1>3, <1>4 DEF NewTok
<1>6. Elsewhere /\ ~Brings(req[q], s)
  BY <1>0, <1>1 DEF Elsewhere, TypeOK, Brings
<1> QED BY <1>0, <1>1, <1>5, <1>6, DoneStep, SameRing DEF TypeOK

(* The exchange is over: what it brought is adopted, or the next source is *)
(* tried.                                                                  *)
LEMMA AnsweredKeeps ==
  ASSUME IInv, NEW q \in Reqs, Answered(q)
  PROVE  IInv'
<1> DEFINE s == req[q].s
           w == req[q]
           fresh == [w.fresh EXCEPT !.r = IF @ = 0 THEN w.cur.r ELSE @]
           Drop == Done(q) /\ tok' = [tok EXCEPT ![s] = Zero] /\ UNCHANGED saved
<1>0. /\ w.pc = "got" /\ s \in Sups /\ w \in ReqType /\ TypeOK /\ ~Brings(w, s)
      /\ w.fresh \in Tokens /\ w.cur \in Tokens
  BY Standing DEF IInv, Answered, At, Brings, ReqType
<1>1. mu[s] = q /\ ExchangeSound(w)
  BY <1>0 DEF IInv, MutexHeld, ExchangesSound, Exchanging
<1>2. UNCHANGED <<issued, live, expired, others, host, ring, spent, acts>>
  BY DEF Answered, vendor, keys, hist
<1>3. checked' \in [Sups -> BOOLEAN]
  BY <1>0 DEF Answered, TypeOK
<1>4. Elsewhere
  BY <1>2, <1>3 DEF Elsewhere
<1>5. ring' \in Records \cup {NoRecord} /\ (ring' # NoRecord => Sound(ring'.tok))
  BY <1>2, SameRing
<1>6. ASSUME Drop PROVE IInv'
  <2>1. NewTok(q, s)
    BY <1>0, <1>1, <1>6, ZeroPair
  <2> QED BY <1>0, <1>4, <1>5, <1>6, <2>1, DoneStep DEF saved, TypeOK
<1>7. CASE w.got = "fresh"
  <2>1. Adopt(q, s, fresh)
    BY <1>7 DEF Answered
  <2>2. Sound(w.fresh) /\ Sound(w.cur) /\ w.cur.r < w.fresh.a
        /\ (w.fresh.a \in others <=> w.cur.r \in others)
        /\ (IF w.fresh.r = 0 THEN w.cur.r ELSE w.fresh.r) \notin spent[s]
    BY <1>0, <1>1, <1>7 DEF IInv, PairsSound, ExchangeSound
  <2>3. /\ fresh \in Tokens /\ fresh.a = w.fresh.a
        /\ fresh.r = IF w.fresh.r = 0 THEN w.cur.r ELSE w.fresh.r
    <3> DEFINE f == w.fresh
               c == w.cur
    <3>1. f \in Tokens /\ c \in Tokens
      BY <1>0
    <3> HIDE DEF f, c
    <3>2. LET g == [f EXCEPT !.r = IF @ = 0 THEN c.r ELSE @]
          IN  g \in Tokens /\ g.a = f.a /\ g.r = IF f.r = 0 THEN c.r ELSE f.r
      BY <3>1 DEF Tokens
    <3> QED BY <3>2 DEF f, c
  <2> HIDE DEF fresh
  <2>4. Sound(fresh)
    BY <1>0, <2>2, <2>3 DEF Sound, Tokens
  <2>5. fresh.r \notin spent[s] /\ Known(q, s, fresh.r)
    BY <2>2, <2>3 DEF Known
  <2> QED BY <1>0, <1>1, <1>2, <1>4, <2>1, <2>3, <2>4, <2>5, AdoptStep
<1>8. CASE w.got # "fresh"
  <2>1. CASE w.stage = "recover" \/ (w.stage = "current" /\ w.got = "lost")
    <3>1. Done(q) /\ UNCHANGED <<mem, owed, tok>>
      BY <1>8, <2>1 DEF Answered, saved
    <3>2. NewTok(q, s)
      BY <1>0, <1>8, <3>1, SamePair
    <3> QED BY <1>0, <1>4, <1>5, <3>1, <3>2, DoneStep DEF TypeOK
  <2>2. CASE ~(w.stage = "recover" \/ (w.stage = "current" /\ w.got = "lost"))
             /\ w.stage = "host"
    BY <1>6, <1>8, <2>2 DEF Answered
  <2>3. CASE ~(w.stage = "recover" \/ (w.stage = "current" /\ w.got = "lost"))
             /\ w.stage # "host"
    <3>0. \/ Drop \/ (FromHost(s, w.cur) /\ ~Expired(host) /\ Adopt(q, s, host))
          \/ /\ FromHost(s, w.cur) /\ Expired(host) /\ host.r \notin {0, w.cur.r}
             /\ AskVendor(q, s, "host", host) /\ UNCHANGED <<mem, owed, tok>>
      BY <1>8, <2>3 DEF Answered, saved
    <3>1. /\ host \in Tokens /\ Sound(host) /\ Known(q, s, host.r)
          /\ ~Expired(host) => host.r \notin spent[s]
      BY <1>0, HostPair
    <3>2. CASE Drop
      BY <1>6, <3>2
    <3>3. CASE ~Expired(host) /\ Adopt(q, s, host)
      BY <1>0, <1>1, <1>2, <1>4, <3>1, <3>3, AdoptStep
    <3>4. CASE /\ FromHost(s, w.cur) /\ Expired(host) /\ host.r \notin {0, w.cur.r}
               /\ AskVendor(q, s, "host", host) /\ UNCHANGED <<mem, owed, tok>>
      <4>1. NewTok(q, s)
        BY <1>0, <1>8, <3>4, SamePair
      <4>2. host.a <= expired /\ mem[s].follow /\ host.r # 0
        BY <3>4 DEF Expired, FromHost
      <4> QED BY <1>0, <1>1, <1>2, <1>4, <3>1, <3>4, <4>1, <4>2, AskStep
    <3> QED BY <3>0, <3>2, <3>3, <3>4
  <2> QED BY <2>1, <2>2, <2>3
<1> QED BY <1>7, <1>8
----------------------------------------------------------------------------
(* Steps of the vendor that issue a pair, and steps of the rest of the     *)
(* host, which leave the supervisors alone.                                *)

(* What was issued earlier keeps its account.                              *)
Later == /\ issued <= issued' /\ expired <= expired'
         /\ \A x \in 1 .. issued : x \in others' <=> x \in others
         /\ others' \subseteq 1 .. issued'

(* A pair that was issued stays one that was issued, to the account it was *)
(* issued to.                                                              *)
LEMMA OldSound ==
  ASSUME IInv, issued' \in Ids, Later, NEW p \in Tokens, Sound(p)
  PROVE  Sound(p)' /\ p.r <= issued
BY OAuthAssumption DEF Sound, Later, Tokens, IInv, TypeOK, PairsSound, Ids

(* What happens outside every supervisor: time, the host's own agent,      *)
(* users.                                                                  *)
LEMMA OutsideStep ==
  ASSUME IInv, UNCHANGED <<mem, tok, mu, req, spent, owed>>, Later,
         issued' \in Ids, live' \subseteq Ids, others' \subseteq Ids,
         expired' \in 0 .. issued', acts' \in 0 .. MaxUser, host' \in Tokens,
         ring' \in Records \cup {NoRecord}, checked' \in [Sups -> BOOLEAN],
         \A s \in Sups : spent[s] \cap live' = {},
         Sound(host)', host'.a = host'.r, ring' # NoRecord => Sound(ring.tok)',
         host'.r \in {0, host.r} \/ host'.r > issued
  PROVE  IInv'
<1>0. /\ TypeOK /\ PairsSound /\ MutexHeld /\ SpentIsGone /\ ExchangesSound
      /\ TokUnspent /\ CapturesOwn /\ OwedIsBrought
  BY DEF IInv
<1>1. TypeOK'
  BY <1>0 DEF TypeOK, At, Up
<1>2. \A s \in Sups : /\ mem[s] # NoRecord => Sound(mem[s].tok)'
                      /\ tok[s] # Unread => Sound(tok[s])'
  <2>1. ASSUME NEW s \in Sups, mem[s] # NoRecord PROVE Sound(mem[s].tok)'
    <3>1. mem[s].tok \in Tokens /\ Sound(mem[s].tok)
      BY <1>0, <2>1 DEF TypeOK, PairsSound, Up, Records
    <3> QED BY <3>1, OldSound
  <2>2. ASSUME NEW s \in Sups, tok[s] # Unread PROVE Sound(tok[s])'
    BY <1>0, <2>2, OldSound DEF TypeOK, PairsSound
  <2> QED BY <2>1, <2>2
<1>3. ASSUME NEW q \in Reqs
      PROVE  /\ Sound(req[q].cur)' /\ Sound(req[q].fresh)' /\ req[q].fresh.r <= issued
             /\ req[q].cur.r <= issued
             /\ req[q].rec # NoRecord => Sound(req[q].rec.tok)'
  <2>1. /\ req[q].cur \in Tokens /\ req[q].fresh \in Tokens
        /\ req[q].rec # NoRecord => req[q].rec.tok \in Tokens
    BY <1>0 DEF TypeOK, ReqType, Records
  <2>2. /\ Sound(req[q].cur) /\ Sound(req[q].fresh)
        /\ req[q].rec # NoRecord => Sound(req[q].rec.tok)
    BY <1>0 DEF PairsSound
  <2> QED BY <2>1, <2>2, OldSound
<1>4. PairsSound'
  <2>1. \A s \in Sups : /\ Up(s)' => Sound(mem[s].tok)'
                        /\ (tok[s] # Unread => Sound(tok[s]))'
    BY <1>2 DEF Up, Sound
  <2>2. \A q \in Reqs : /\ Sound(req[q].cur)' /\ Sound(req[q].fresh)'
                        /\ (req[q].rec # NoRecord => Sound(req[q].rec.tok))'
    BY <1>3 DEF Sound
  <2>3. (others \subseteq 1 .. issued)' /\ (ring # NoRecord => Sound(ring.tok))'
    BY DEF Later, Sound
  <2> QED BY <2>1, <2>2, <2>3 DEF PairsSound
<1>5. MutexHeld' /\ OwedIsBrought' /\ TokUnspent'
  BY <1>0 DEF MutexHeld, OwedIsBrought, Brings, TokUnspent, Replaced, At
<1>6. SpentIsGone'
  <2>1. expired \in Nat /\ expired' \in Nat /\ expired <= expired'
    BY <1>0, <1>1 DEF TypeOK, Ids, Later
  <2>2. 1 .. expired \subseteq 1 .. expired'
    BY <2>1
  <2> QED BY <1>0, <2>2 DEF SpentIsGone
<1>7. ExchangesSound'
  <2>1. ASSUME NEW q \in Reqs, Exchanging(req[q]) PROVE ExchangeSound(req[q])'
    <3>1. ExchangeSound(req[q]) /\ req[q].cur \in Tokens /\ req[q].fresh \in Tokens
          /\ Sound(req[q].fresh) /\ req[q].cur.r <= issued /\ expired' \in Nat /\ expired \in Nat
      BY <1>0, <1>1, <1>3, <2>1 DEF ExchangesSound, TypeOK, ReqType, PairsSound, Ids
    <3>2. req[q].pc = "got" /\ req[q].got = "fresh" =>
            (req[q].fresh.a \in others' <=> req[q].cur.r \in others')
      <4>1. req[q].cur.r \in 1 .. issued
        BY <1>0, <3>1 DEF ExchangeSound, TypeOK, Ids, Tokens
      <4>2. req[q].pc = "got" /\ req[q].got = "fresh" => req[q].fresh.a \in 1 .. issued
        BY <1>0, <3>1, <4>1 DEF ExchangeSound, TypeOK, Ids, Tokens, Sound
      <4> QED BY <3>1, <4>1, <4>2 DEF ExchangeSound, Later
    <3>3. req[q].cur.a <= expired'
      BY <3>1 DEF ExchangeSound, Later, Tokens
    <3> QED BY <3>1, <3>2, <3>3 DEF ExchangeSound
  <2> QED BY <2>1 DEF ExchangesSound, Exchanging
<1>8. CapturesOwn'
  <2>1. ASSUME NEW q \in Reqs, Captured(req[q]) PROVE CaptureOwn(q)'
    <3>1. CaptureOwn(q) /\ req[q].fresh.r # 0 /\ req[q].fresh.r <= issued
      BY <1>0, <1>3, <2>1 DEF CapturesOwn, Captured
    <3>2. req[q].fresh.r \in Nat /\ issued \in Nat /\ host'.r \in Nat
      BY <1>0 DEF TypeOK, ReqType, Tokens, Ids
    <3>3. req[q].fresh.r # host'.r
      BY <3>1, <3>2 DEF CaptureOwn
    <3> QED BY <3>1, <3>3 DEF CaptureOwn
  <2> QED BY <2>1 DEF CapturesOwn, Captured
<1> QED BY <1>1, <1>4, <1>5, <1>6, <1>7, <1>8 DEF IInv

(* What the invariant says of the vendor and of the host's login. *)
LEMMA VendorFacts ==
  ASSUME IInv
  PROVE  /\ issued \in Nat /\ issued \in 1 .. MaxPairs /\ expired \in Nat /\ expired <= issued
         /\ live \subseteq Ids /\ others \subseteq Ids /\ others \subseteq 1 .. issued
         /\ acts \in 0 .. MaxUser
         /\ host \in Tokens /\ Sound(host) /\ host.a = host.r /\ host.r <= issued
         /\ ring \in Records \cup {NoRecord} /\ (ring # NoRecord => Sound(ring.tok))
         /\ checked \in [Sups -> BOOLEAN]
         /\ \A s \in Sups : spent[s] \cap live = {} /\ spent[s] \subseteq 1 .. expired
BY OAuthAssumption DEF IInv, TypeOK, PairsSound, SpentIsGone, Ids, Sound, Tokens

(* Tokens expire, the host's agent refreshes or logs in again, a user      *)
(* stores a record.                                                        *)
LEMMA OutsideKeeps ==
  ASSUME IInv, \/ Expire \/ (\E s \in Sups : Recheck(s)) \/ HostAgent \/ User
  PROVE  IInv'
<1>0. /\ issued \in Nat /\ issued \in 1 .. MaxPairs /\ expired \in Nat /\ expired <= issued
      /\ live \subseteq Ids /\ others \subseteq Ids /\ others \subseteq 1 .. issued
      /\ acts \in 0 .. MaxUser
      /\ host \in Tokens /\ Sound(host) /\ host.a = host.r /\ host.r <= issued
      /\ ring \in Records \cup {NoRecord} /\ (ring # NoRecord => Sound(ring.tok))
      /\ checked \in [Sups -> BOOLEAN] /\ MaxPairs \in Nat /\ MaxUser \in Nat
      /\ \A s \in Sups : spent[s] \cap live = {} /\ spent[s] \subseteq 1 .. expired
  BY VendorFacts, OAuthAssumption
<1>1. UNCHANGED <<mem, tok, mu, req, spent, owed>>
  BY DEF Expire, Recheck, HostAgent, User, SecretAdopt, SecretAdoptFrom, SecretLogin, SecretRm,
         Command, saved, hist
<1> DEFINE n == issued + 1
           new == [a |-> n, r |-> n]
<1>2. n \in Ids => new \in Tokens /\ new.a = n /\ new.r = n
  BY <1>0 DEF Ids, Tokens
<1>3. \A s \in Sups : n \notin spent[s]
  BY <1>0
<1>4. ASSUME issued' = issued, live' = live, others' = others, expired <= expired',
             expired' \in 0 .. issued, acts' \in 0 .. MaxUser, host' \in Tokens,
             ring' \in Records \cup {NoRecord}, checked' \in [Sups -> BOOLEAN],
             Sound(host'), host'.a = host'.r, host'.r \in {0, host.r},
             ring' # NoRecord => Sound(ring'.tok)
      PROVE  IInv'
  <2>1. Later /\ issued' \in Ids
    BY <1>0, <1>4 DEF Later, Ids
  <2>2. Sound(host)' /\ (ring' # NoRecord => Sound(ring.tok)')
    BY <1>4 DEF Sound
  <2> QED BY <1>0, <1>1, <1>4, <2>1, <2>2, OutsideStep
<1>5. CASE Expire
  BY <1>0, <1>4, <1>5 DEF Expire, keys, hist
<1>6. CASE \E s \in Sups : Recheck(s)
  BY <1>0, <1>4, <1>6 DEF Recheck, vendor, keys, hist
<1>7. CASE HostAgent
  <2>1. CASE host' = Zero /\ acts < MaxUser /\ acts' = acts + 1 /\ UNCHANGED <<issued, live>>
    <3>1. /\ UNCHANGED <<others, expired, ring, checked>>
          /\ Sound(Zero) /\ Zero \in Tokens /\ Zero.a = 0 /\ Zero.r = 0
      BY <1>7, ZeroTyped, SoundZero DEF HostAgent
    <3>2. acts' \in 0 .. MaxUser
      BY <1>0, <2>1
    <3> QED BY <1>0, <1>4, <2>1, <3>1, <3>2
  <2>2. CASE /\ n \in Ids /\ issued' = n /\ host' = new /\ UNCHANGED acts
             /\ \E old \in {{}, {host.r} \cap live} : live' = (live \ old) \cup {n}
    <3>1. UNCHANGED <<others, expired, ring, checked>>
      BY <1>7 DEF HostAgent
    <3>2. live' \subseteq live \cup {n}
      BY <2>2
    <3>3. live' \subseteq Ids /\ \A s \in Sups : spent[s] \cap live' = {}
      BY <1>0, <1>3, <2>2, <3>2
    <3>4. Later /\ issued' \in Ids /\ expired' \in 0 .. issued' /\ others' \subseteq Ids
      BY <1>0, <2>2, <3>1 DEF Later
    <3>5. ring' # NoRecord => Sound(ring.tok)'
      <4>1. ring # NoRecord => ring.tok \in Tokens
        BY <1>0 DEF Records
      <4> QED BY <1>0, <3>1, <3>4, <4>1, OldSound DEF Sound
    <3>6. host' \in Tokens /\ host'.a = n /\ host'.r = n
      BY <1>2, <2>2
    <3>7. Sound(host)'
      BY <1>0, <2>2, <3>6 DEF Sound
    <3>8. n > issued
      BY <1>0
    <3> QED BY <1>0, <1>1, <2>2, <3>1, <3>3, <3>4, <3>5, <3>6, <3>7, <3>8, OutsideStep
  <2> QED BY <1>7, <2>1, <2>2 DEF HostAgent
<1>8. CASE SecretAdopt \/ SecretLogin \/ SecretRm
  <2>1. /\ UNCHANGED <<issued, live, others, expired, host, checked>> /\ acts' \in 0 .. MaxUser
    BY <1>0, <1>8 DEF SecretAdopt, SecretLogin, SecretRm, Command
  <2>2. ring' \in Records \cup {NoRecord} /\ (ring' # NoRecord => Sound(ring'.tok))
    <3>1. ASSUME NEW p \in Tokens, Sound(p), ring' = [tok |-> p, follow |-> TRUE]
          PROVE  ring' \in Records /\ Sound(ring'.tok)
      BY <3>1 DEF Records
    <3>2. Zero \in Tokens /\ Sound(Zero)
      BY ZeroTyped, SoundZero
    <3> QED BY <1>0, <1>8, <3>1, <3>2 DEF SecretAdopt, SecretLogin, SecretRm, Command
  <2> QED BY <1>0, <1>4, <2>1, <2>2
<1>9. CASE SecretAdoptFrom
  <2>1. /\ n \in Ids /\ issued' = n /\ live' = live \cup {n} /\ others' = others \cup {n}
        /\ acts' \in 0 .. MaxUser /\ UNCHANGED <<expired, host, checked>>
        /\ ring' = [tok |-> new, follow |-> FALSE]
    BY <1>0, <1>9 DEF SecretAdoptFrom, Command
  <2>2. live' \subseteq Ids /\ \A s \in Sups : spent[s] \cap live' = {}
    BY <1>0, <1>3, <2>1
  <2>3. Later /\ issued' \in Ids /\ expired' \in 0 .. issued' /\ others' \subseteq Ids
    BY <1>0, <2>1 DEF Later
  <2>4. Sound(host)'
    BY <1>0, <2>1, <2>3, OldSound DEF Sound
  <2> HIDE DEF new
  <2>5. ring' \in Records /\ ring'.tok = new
    BY <1>2, <2>1 DEF Records
  <2>6. Sound(ring.tok)'
    BY <1>0, <1>2, <2>1, <2>5 DEF Sound
  <2> QED BY <1>0, <1>1, <2>1, <2>2, <2>3, <2>4, <2>5, <2>6, OutsideStep
<1> QED BY <1>5, <1>6, <1>7, <1>8, <1>9 DEF User

(* A sandbox starts, and its supervisor reads the record. *)
LEMMA StartKeeps ==
  ASSUME IInv, NEW s \in Sups, Start(s)
  PROVE  IInv'
<1>0. /\ TypeOK /\ PairsSound /\ MutexHeld /\ SpentIsGone /\ ExchangesSound
      /\ TokUnspent /\ CapturesOwn /\ OwedIsBrought
  BY DEF IInv
<1>1. /\ mem[s] = NoRecord /\ ring # NoRecord /\ mem' = [mem EXCEPT ![s] = ring]
      /\ UNCHANGED <<issued, live, expired, others, host, ring, tok, mu, checked, req,
                     spent, owed, acts>>
  BY DEF Start, Up, vendor, keys, hist
<1>2. /\ mem' \in [Sups -> Records \cup {NoRecord}] /\ mem'[s] = ring
      /\ \A o \in Sups \ {s} : mem'[o] = mem[o]
  BY <1>0, <1>1 DEF TypeOK
<1>3. \A q \in Reqs : req[q].pc # "idle" => req[q].s \in Sups \ {s}
  BY <1>0, <1>1 DEF TypeOK, At, Up
<1>4. TypeOK'
  BY <1>0, <1>1, <1>2, <1>3 DEF TypeOK, At, Up
<1>5. PairsSound' /\ SpentIsGone'
  BY <1>0, <1>1, <1>2 DEF PairsSound, SpentIsGone, Sound, Up
<1>6. MutexHeld' /\ TokUnspent' /\ CapturesOwn'
  BY <1>0, <1>1 DEF MutexHeld, TokUnspent, Replaced, CapturesOwn, CaptureOwn, At
<1>7. ExchangesSound'
  <2>1. ASSUME NEW q \in Reqs, Exchanging(req[q]) PROVE ExchangeSound(req[q])'
    <3>1. ExchangeSound(req[q]) /\ mem'[req[q].s] = mem[req[q].s]
      BY <1>0, <1>2, <1>3, <2>1 DEF ExchangesSound, Exchanging
    <3> QED BY <1>1, <3>1 DEF ExchangeSound
  <2> QED BY <1>1, <2>1 DEF ExchangesSound, Exchanging
<1>8. OwedIsBrought'
  <2>1. ASSUME NEW o \in Sups, owed[o], ~Ported PROVE \E q \in Reqs : Brings(req[q], o)'
    <3>1. PICK q \in Reqs : Brings(req[q], o)
      BY <1>0, <2>1 DEF OwedIsBrought
    <3>2. o # s
      BY <1>3, <3>1 DEF Brings
    <3> QED BY <1>1, <1>2, <3>1, <3>2 DEF Brings
  <2> QED BY <1>1, <2>1 DEF OwedIsBrought
<1> QED BY <1>4, <1>5, <1>6, <1>7, <1>8 DEF IInv

(* A sandbox stops, in the middle of anything. *)
LEMMA HaltKeeps ==
  ASSUME IInv, NEW s \in Sups, Halt(s)
  PROVE  IInv'
<1>0. /\ TypeOK /\ PairsSound /\ MutexHeld /\ SpentIsGone /\ ExchangesSound
      /\ TokUnspent /\ CapturesOwn /\ OwedIsBrought
  BY DEF IInv
<1>1. UNCHANGED <<issued, live, expired, others, host, ring, acts>>
  BY DEF Halt, vendor, keys
<1>2. /\ mem' \in [Sups -> Records \cup {NoRecord}] /\ mem'[s] = NoRecord
      /\ tok' \in [Sups -> Tokens \cup {Unread}] /\ tok'[s] = Unread
      /\ mu' \in [Sups -> Reqs \cup {Free}] /\ mu'[s] = Free
      /\ checked' \in [Sups -> BOOLEAN]
      /\ spent' \in [Sups -> SUBSET Ids] /\ spent'[s] = {}
      /\ owed' \in [Sups -> BOOLEAN] /\ owed'[s] = FALSE
      /\ \A o \in Sups \ {s} : /\ mem'[o] = mem[o] /\ tok'[o] = tok[o] /\ mu'[o] = mu[o]
                               /\ spent'[o] = spent[o] /\ owed'[o] = owed[o]
  BY <1>0 DEF Halt, TypeOK
<1>3. /\ req' \in [Reqs -> ReqType]
      /\ \A q \in Reqs : \/ req[q].s = s /\ req'[q] = NoReq
                         \/ req[q].s # s /\ req'[q] = req[q]
  BY <1>0, NoReqTyped DEF Halt, TypeOK
<1>4. \A q \in Reqs : req'[q].pc # "idle" => req'[q] = req[q] /\ req[q].s \in Sups \ {s}
  BY <1>0, <1>3, NoReqTyped DEF TypeOK, At
<1>5. TypeOK'
  <2>1. \A q \in Reqs : req'[q].pc # "idle" => req'[q].s \in Sups /\ mem'[req'[q].s] # NoRecord
    BY <1>0, <1>2, <1>4 DEF TypeOK, At, Up
  <2>2. \A o \in Sups : mu'[o] # Free => req'[mu'[o]].pc # "idle" /\ req'[mu'[o]].s = o
    BY <1>0, <1>2, <1>3 DEF TypeOK, At
  <2> QED BY <1>0, <1>1, <1>2, <1>3, <2>1, <2>2 DEF TypeOK, At, Up
<1>6. PairsSound'
  <2>1. Sound(Zero)
    BY SoundZero
  <2>2. \A q \in Reqs : /\ Sound(req'[q].cur) /\ Sound(req'[q].fresh)
                        /\ req'[q].rec # NoRecord => Sound(req'[q].rec.tok)
    BY <1>0, <1>3, <2>1, NoReqTyped DEF PairsSound
  <2>3. \A o \in Sups : /\ mem'[o] # NoRecord => Sound(mem'[o].tok)
                        /\ tok'[o] # Unread => Sound(tok'[o])
    BY <1>0, <1>2 DEF PairsSound, Up
  <2> QED BY <1>0, <1>1, <2>2, <2>3 DEF PairsSound, Sound, Up
<1>7. MutexHeld' /\ SpentIsGone'
  BY <1>0, <1>1, <1>2, <1>4 DEF MutexHeld, SpentIsGone, Exchanging
<1>8. ExchangesSound'
  <2>1. ASSUME NEW q \in Reqs, Exchanging(req'[q]) PROVE ExchangeSound(req[q])'
    <3>1. /\ req'[q] = req[q] /\ ExchangeSound(req[q]) /\ req[q].s \in Sups \ {s}
      BY <1>0, <1>4, <2>1 DEF ExchangesSound, Exchanging
    <3>2. /\ mem'[req[q].s] = mem[req[q].s] /\ tok'[req[q].s] = tok[req[q].s]
          /\ spent'[req[q].s] = spent[req[q].s]
      BY <1>2, <3>1
    <3> QED BY <1>1, <3>1, <3>2 DEF ExchangeSound
  <2> QED BY <2>1 DEF ExchangesSound, Exchanging
<1>9. TokUnspent'
  <2>1. ASSUME NEW o \in Sups
        PROVE  /\ tok'[o] = Unread =>
                    /\ spent'[o] = {}
                    /\ \A q \in Reqs : req'[q].s = o => req'[q].pc \in {"idle", "want"}
               /\ tok'[o] # Unread => tok'[o].r \notin spent'[o] \/ Replaced(o)'
    <3>1. CASE o = s
      BY <1>2, <1>4, <3>1
    <3>2. CASE o # s
      <4>1. Replaced(o) => Replaced(o)'
        BY <1>3, <3>2 DEF Replaced, At
      <4> QED BY <1>0, <1>2, <1>4, <3>2, <4>1 DEF TokUnspent
    <3> QED BY <3>1, <3>2
  <2> QED BY <2>1 DEF TokUnspent
<1>10. CapturesOwn'
  <2>1. ASSUME NEW q \in Reqs, Captured(req'[q]) PROVE CaptureOwn(q)'
    <3>1. /\ req'[q] = req[q] /\ CaptureOwn(q) /\ req[q].s \in Sups \ {s}
      BY <1>0, <1>4, <2>1 DEF CapturesOwn, Captured
    <3>2. \A o \in Reqs : req'[o].s = req[q].s => req'[o] = req[o]
      BY <1>3, <3>1, NoReqTyped, OAuthAssumption
    <3>3. tok'[req[q].s] = tok[req[q].s] /\ spent'[req[q].s] = spent[req[q].s]
      BY <1>2, <3>1
    <3> QED BY <1>1, <3>1, <3>2, <3>3 DEF CaptureOwn
  <2> QED BY <2>1 DEF CapturesOwn
<1>11. OwedIsBrought'
  <2>1. ASSUME NEW o \in Sups, owed'[o], ~Ported PROVE \E q \in Reqs : Brings(req[q], o)'
    <3>1. o # s /\ owed[o] /\ mem'[o] = mem[o]
      BY <1>2, <2>1
    <3>2. PICK q \in Reqs : Brings(req[q], o)
      BY <1>0, <2>1, <3>1 DEF OwedIsBrought
    <3>3. req'[q] = req[q]
      BY <1>3, <3>1, <3>2 DEF Brings
    <3> QED BY <3>1, <3>2, <3>3 DEF Brings
  <2> QED BY <2>1 DEF OwedIsBrought
<1> QED BY <1>5, <1>6, <1>7, <1>8, <1>9, <1>10, <1>11 DEF IInv

(* The pair is sound once the step is taken. *)
SoundNext(p) == /\ p.r <= p.a /\ p.a <= issued'
                /\ p.r # 0 => (p.a \in others' <=> p.r \in others')

(* The vendor issues a pair to the request q: in an exchange the refresh   *)
(* token presented may be spent with it.                                   *)
LEMMA IssueStep ==
  ASSUME IInv, NEW q \in Reqs, NEW r \in ReqType, req' = [req EXCEPT ![q] = r],
         \/ req[q].pc = "xchg" /\ r.pc = "got" /\ ExchangeSound(req[q])'
         \/ req[q].pc = "relay" /\ r.pc = "relayed",
         r.s = req[q].s, r.cur = req[q].cur, r.rec = req[q].rec,
         SoundNext(r.fresh), r.fresh.r \in {0, issued + 1},
         Later, issued' = issued + 1, issued' \in Ids, live' \subseteq Ids, others' \subseteq Ids,
         UNCHANGED <<expired, host, ring, mem, tok, mu, checked, owed, acts>>,
         spent' \in [Sups -> SUBSET Ids],
         \A o \in Sups \ {req[q].s} : spent'[o] = spent[o],
         \/ spent'[req[q].s] = spent[req[q].s]
         \/ /\ spent'[req[q].s] = spent[req[q].s] \cup {req[q].cur.r}
            /\ r.pc = "got" /\ r.got = "fresh",
         \A o \in Sups : spent'[o] \cap live' = {} /\ spent'[o] \subseteq 1 .. expired
  PROVE  IInv'
<1> DEFINE s == req[q].s
           n == issued + 1
<1>0. /\ TypeOK /\ PairsSound /\ MutexHeld /\ SpentIsGone /\ ExchangesSound
      /\ TokUnspent /\ CapturesOwn /\ OwedIsBrought
      /\ s \in Sups /\ issued \in Nat /\ expired <= issued /\ expired \in Nat
  BY Standing, VendorFacts DEF IInv
<1>1. req' \in [Reqs -> ReqType] /\ req'[q] = r /\ \A p \in Reqs \ {q} : req'[p] = req[p]
  BY <1>0 DEF TypeOK
<1>2. TypeOK'
  <2>1. \A p \in Reqs : req'[p].pc # "idle" => req'[p].s \in Sups /\ mem[req'[p].s] # NoRecord
    BY <1>0, <1>1 DEF TypeOK, At, Up
  <2>2. \A o \in Sups : mu[o] # Free => req'[mu[o]].pc # "idle" /\ req'[mu[o]].s = o
    BY <1>0, <1>1 DEF TypeOK, At
  <2>3. expired' \in 0 .. issued'
    BY <1>0
  <2> QED BY <1>0, <1>1, <2>1, <2>2, <2>3 DEF TypeOK, At, Up
<1>3. ASSUME NEW p \in Reqs
      PROVE  /\ req[p].fresh.r <= issued /\ req[p].cur.r <= issued
             /\ SoundNext(req'[p].cur) /\ SoundNext(req'[p].fresh)
             /\ req'[p].rec # NoRecord => SoundNext(req'[p].rec.tok)
  <2>1. /\ req[p].cur \in Tokens /\ req[p].fresh \in Tokens
        /\ req[p].rec # NoRecord => req[p].rec.tok \in Tokens
    BY <1>0 DEF TypeOK, ReqType, Records
  <2>2. /\ Sound(req[p].cur) /\ Sound(req[p].fresh)
        /\ req[p].rec # NoRecord => Sound(req[p].rec.tok)
    BY <1>0 DEF PairsSound
  <2>3. ASSUME NEW v \in Tokens, Sound(v) PROVE SoundNext(v) /\ v.r <= issued
    BY <2>3, OldSound DEF Sound, SoundNext
  <2>4. /\ SoundNext(req[p].cur) /\ SoundNext(req[p].fresh) /\ req[p].fresh.r <= issued
        /\ req[p].cur.r <= issued
        /\ req[p].rec # NoRecord => SoundNext(req[p].rec.tok)
    BY <2>1, <2>2, <2>3
  <2> QED BY <1>1, <2>4
<1>4. PairsSound'
  <2>1. \A v \in Tokens : Sound(v) => SoundNext(v)
    BY OldSound DEF Sound, SoundNext
  <2>2. \A o \in Sups : /\ mem[o] # NoRecord => mem[o].tok \in Tokens /\ Sound(mem[o].tok)
                        /\ tok[o] # Unread => tok[o] \in Tokens /\ Sound(tok[o])
    BY <1>0 DEF TypeOK, PairsSound, Up, Records
  <2>3. /\ host \in Tokens /\ Sound(host) /\ host.a = host.r
        /\ ring # NoRecord => ring.tok \in Tokens /\ Sound(ring.tok)
    BY <1>0 DEF TypeOK, PairsSound, Records
  <2>4. \A o \in Sups : /\ mem[o] # NoRecord => SoundNext(mem[o].tok)
                        /\ tok[o] # Unread => SoundNext(tok[o])
    BY <2>1, <2>2
  <2>5. SoundNext(host) /\ (ring # NoRecord => SoundNext(ring.tok))
    BY <2>1, <2>3
  <2>6. others' \subseteq 1 .. issued'
    BY DEF Later
  <2>7. /\ \A p \in Reqs : /\ Sound(req[p].cur)' /\ Sound(req[p].fresh)'
                           /\ req'[p].rec # NoRecord => Sound(req[p].rec.tok)'
        /\ \A o \in Sups : /\ mem'[o] # NoRecord => Sound(mem[o].tok)'
                           /\ tok'[o] # Unread => Sound(tok[o])'
        /\ Sound(host)' /\ (ring' # NoRecord => Sound(ring.tok)')
    BY <1>3, <2>4, <2>5 DEF Sound, SoundNext
  <2> QED BY <2>3, <2>6, <2>7 DEF PairsSound, Up
<1>5. MutexHeld' /\ SpentIsGone'
  BY <1>0, <1>1 DEF MutexHeld, SpentIsGone, Exchanging
<1>6. r.pc = "got" => mu[s] = q
  BY <1>0 DEF MutexHeld, Exchanging
<1>7. ExchangesSound'
  <2>1. ASSUME NEW p \in Reqs \ {q}, Exchanging(req'[p]) PROVE ExchangeSound(req[p])'
    <3>1. /\ req'[p] = req[p] /\ ExchangeSound(req[p]) /\ mu[req[p].s] = p
          /\ req[p].s \in Sups
      BY <1>0, <1>1, <2>1 DEF ExchangesSound, MutexHeld, TypeOK, At, Exchanging
    <3>2. spent'[req[p].s] = spent[req[p].s]
      BY <1>6, <3>1
    <3>3. /\ req[p].cur \in Tokens /\ req[p].fresh \in Tokens /\ Sound(req[p].fresh)
          /\ req[p].cur.r <= issued
      BY <1>0, <1>3 DEF TypeOK, ReqType, PairsSound
    <3>4. req[p].cur.r \in 1 .. issued
      BY <1>0, <3>1, <3>3 DEF ExchangeSound, Tokens
    <3>5. req[p].pc = "got" /\ req[p].got = "fresh" => req[p].fresh.a \in 1 .. issued
      BY <1>0, <3>1, <3>3, <3>4 DEF ExchangeSound, Tokens, Sound
    <3>6. req[p].pc = "got" /\ req[p].got = "fresh" =>
            (req[p].fresh.a \in others' <=> req[p].cur.r \in others')
      BY <3>1, <3>4, <3>5 DEF ExchangeSound, Later
    <3> QED BY <3>1, <3>2, <3>6 DEF ExchangeSound
  <2>2. Exchanging(req'[q]) => ExchangeSound(req[q])'
    BY <1>1 DEF Exchanging
  <2>3. \A p \in Reqs : Exchanging(req'[p]) => ExchangeSound(req[p])'
    BY <2>1, <2>2
  <2> QED BY <2>3 DEF ExchangesSound, Exchanging
<1>8. TokUnspent'
  <2>1. tok[s] # Unread
    BY <1>0 DEF TokUnspent
  <2>2. ASSUME NEW o \in Sups, tok[o] = Unread
        PROVE  /\ spent'[o] = {}
               /\ \A p \in Reqs : req'[p].s = o => req'[p].pc \in {"idle", "want"}
    BY <1>0, <1>1, <2>1, <2>2 DEF TokUnspent
  <2>3. ASSUME NEW o \in Sups, tok[o] # Unread
        PROVE  tok[o].r \notin spent'[o] \/ Replaced(o)'
    <3>1. Replaced(o) => Replaced(o)'
      <4>1. ASSUME NEW p \in Reqs, req[p].pc = "got", req[p].s = o, req[p].got = "fresh"
            PROVE  Replaced(o)'
        <5>1. req'[p] = req[p]
          BY <1>1, <4>1
        <5> QED BY <4>1, <5>1 DEF Replaced, At
      <4> QED BY <4>1 DEF Replaced, At
    <3>2. CASE spent'[o] = spent[o]
      BY <1>0, <2>3, <3>1, <3>2 DEF TokUnspent
    <3>3. CASE spent'[o] # spent[o]
      BY <1>1, <3>3 DEF Replaced, At
    <3> QED BY <3>2, <3>3
  <2> QED BY <2>2, <2>3 DEF TokUnspent
<1>9. CapturesOwn'
  <2>1. ASSUME NEW p \in Reqs \ {q}, Captured(req'[p]) PROVE CaptureOwn(p)'
    <3> DEFINE f == req[p].fresh.r
    <3>1. /\ req'[p] = req[p] /\ CaptureOwn(p) /\ f # 0 /\ req[p].s \in Sups
          /\ f <= issued /\ f \in Nat
      BY <1>0, <1>1, <1>3, <2>1 DEF CapturesOwn, Captured, TypeOK, At, ReqType, Tokens
    <3>2. f \notin spent'[req[p].s]
      BY <3>1 DEF CaptureOwn
    <3>3. \A o \in Reqs \ {p} : req'[o].s = req[p].s => req'[o].cur.r # f /\ req'[o].fresh.r # f
      BY <1>0, <1>1, <3>1 DEF CaptureOwn
    <3> QED BY <3>1, <3>2, <3>3 DEF CaptureOwn
  <2>2. ASSUME Captured(req'[q]) PROVE CaptureOwn(q)'
    <3>1. r.fresh.r = n /\ r.pc = "relayed"
      BY <1>1, <2>2 DEF Captured
    <3>2. n \notin spent'[s]
      BY <1>0
    <3>3. /\ host.r \in Nat /\ host.r <= issued
          /\ tok[s] # Unread => tok[s].r \in Nat /\ tok[s].r <= issued
      BY <1>0 DEF TypeOK, PairsSound, Sound, Tokens
    <3>4. \A o \in Reqs \ {q} : /\ req[o].cur.r \in Nat /\ req[o].cur.r <= issued
                                /\ req[o].fresh.r \in Nat /\ req[o].fresh.r <= issued
      BY <1>0, <1>3 DEF TypeOK, ReqType, Tokens
    <3> QED BY <1>0, <1>1, <3>1, <3>2, <3>3, <3>4 DEF CaptureOwn
  <2> QED BY <2>1, <2>2 DEF CapturesOwn
<1>10. OwedIsBrought'
  <2>1. ASSUME NEW o \in Sups, owed[o], ~Ported PROVE \E p \in Reqs : Brings(req[p], o)'
    <3>1. PICK p \in Reqs : Brings(req[p], o)
      BY <1>0, <2>1 DEF OwedIsBrought
    <3>2. req'[p] = req[p]
      BY <1>1, <3>1 DEF Brings
    <3> QED BY <3>1, <3>2 DEF Brings
  <2> QED BY <2>1 DEF OwedIsBrought
<1> QED BY <1>2, <1>4, <1>5, <1>7, <1>8, <1>9, <1>10 DEF IInv

(* The vendor, or the way to it, gives no pair. *)
LEMMA FailStep ==
  ASSUME IInv, NEW q \in Reqs, NEW r \in ReqType, req' = [req EXCEPT ![q] = r],
         \/ req[q].pc = "xchg" /\ r.pc = "got"
         \/ req[q].pc = "relay" /\ r.pc = "relayed",
         r.got # "fresh", r.stage = req[q].stage,
         r.s = req[q].s, r.cur = req[q].cur, r.rec = req[q].rec, r.fresh = req[q].fresh,
         UNCHANGED <<issued, live, expired, others, host, ring, mem, tok, mu, checked,
                     spent, owed, acts>>
  PROVE  IInv'
<1> DEFINE s == req[q].s
<1>0. TypeOK /\ s \in Sups /\ mem[s] # NoRecord /\ tok[s] # Unread
  BY Standing DEF IInv, TokUnspent
<1>1. req' \in [Reqs -> ReqType] /\ req'[q] = r /\ \A p \in Reqs \ {q} : req'[p] = req[p]
  BY <1>0 DEF TypeOK
<1>2. Types(q, s)
  BY <1>0, <1>1 DEF Types, TypeOK
<1>3. Pairs(q, s)
  BY <1>0, <1>1 DEF Pairs, IInv, PairsSound, Up
<1>4. Mutex(q, s)
  BY <1>0, <1>1 DEF Mutex, Exchanging, IInv, MutexHeld
<1>5. Unspent(q, s)
  BY <1>0 DEF Unspent, At
<1>6. Captures(q, s)
  BY <1>0, <1>1 DEF Captures, Captured, Known
<1>7. Owing(q, s)
  BY DEF Owing, Brings
<1>8. Exchanging(req'[q]) => ExchangeSound(req[q])'
  <2>1. req[q].pc = "xchg" => ExchangeSound(req[q])
    BY DEF IInv, ExchangesSound, Exchanging
  <2> QED BY <1>1, <2>1 DEF ExchangeSound, Exchanging
<1> QED BY <1>0, <1>2, <1>3, <1>4, <1>5, <1>6, <1>7, <1>8, LocalStep

(* The vendor answers: with a new pair, with the access token alone, or    *)
(* with a refusal.                                                         *)
LEMMA ExchangeKeeps ==
  ASSUME IInv, NEW q \in Reqs, Exchange(q)
  PROVE  IInv'
<1> DEFINE s == req[q].s
           w == req[q]
           t == w.cur
           n == issued + 1
<1>0. /\ w.pc = "xchg" /\ s \in Sups /\ w \in ReqType /\ TypeOK /\ w.s = s
      /\ t \in Tokens /\ mu[s] = q /\ ExchangeSound(w) /\ Sound(t)
      /\ issued \in Nat /\ expired \in Nat /\ expired <= issued
      /\ live \subseteq Ids /\ others \subseteq Ids /\ others \subseteq 1 .. issued
      /\ \A o \in Sups : spent[o] \cap live = {} /\ spent[o] \subseteq 1 .. expired
  BY Standing, VendorFacts
     DEF IInv, Exchange, At, ReqType, MutexHeld, ExchangesSound, Exchanging, PairsSound
<1>1. UNCHANGED <<expired, host, ring, mem, owed, tok, mu, checked, acts>>
  BY DEF Exchange, keys, saved
<1>2. CASE /\ req' = [req EXCEPT ![q] = [@ EXCEPT !.pc = "got",
                       !.got = IF t.r \in live THEN "lost" ELSE "rejected"]]
           /\ UNCHANGED <<issued, others, live, spent>>
  <2> DEFINE g == IF t.r \in live THEN "lost" ELSE "rejected"
             r == [w EXCEPT !.pc = "got", !.got = g]
  <2>1. req' = [req EXCEPT ![q] = r]
    BY <1>2
  <2>2. g \in {"lost", "rejected"}
    OBVIOUS
  <2>3. /\ r \in ReqType /\ r.pc = "got" /\ r.got = g /\ r.stage = w.stage /\ r.s = w.s
        /\ r.cur = w.cur /\ r.rec = w.rec /\ r.fresh = w.fresh
    <3>1. w \in ReqType
      BY <1>0
    <3> HIDE DEF w, g
    <3> QED BY <2>2, <3>1 DEF ReqType, Outcomes
  <2> HIDE DEF r, g
  <2> QED BY <1>0, <1>1, <1>2, <2>1, <2>2, <2>3, FailStep
<1>3. ASSUME t.r \in live, n \in Ids, issued' = n,
             others' = IF t.r \in others THEN others \cup {n} ELSE others,
             NEW rotates \in BOOLEAN, NEW got \in {"fresh", "lost"},
             live' = IF rotates THEN (live \ {t.r}) \cup {n} ELSE live,
             spent' = IF rotates /\ got = "fresh"
                        THEN [spent EXCEPT ![s] = @ \cup {t.r}] ELSE spent,
             req' = [req EXCEPT ![q] = [@ EXCEPT !.pc = "got", !.got = got,
                       !.fresh = IF got = "lost" THEN Zero
                                 ELSE [a |-> n, r |-> IF rotates THEN n ELSE 0]]]
      PROVE  IInv'
  <2> DEFINE f == IF got = "lost" THEN Zero ELSE [a |-> n, r |-> IF rotates THEN n ELSE 0]
             r == [w EXCEPT !.pc = "got", !.got = got, !.fresh = f]
  <2>1. req' = [req EXCEPT ![q] = r]
    BY <1>3
  <2>2. t.r \in 1 .. expired /\ t.r <= issued /\ n \notin others /\ MaxPairs \in Nat
        /\ t.r \in Nat /\ t.a \in Nat /\ t.r \in Ids
    BY <1>0, <1>3, OAuthAssumption DEF ExchangeSound, Tokens, Sound
  <2>3. /\ f \in Tokens
        /\ got = "lost" => f.a = 0 /\ f.r = 0
        /\ got = "fresh" => f.a = n /\ f.r = IF rotates THEN n ELSE 0
    <3>1. CASE got = "lost"
      BY <3>1, ZeroTyped
    <3>2. CASE got = "fresh"
      <4>1. [a |-> n, r |-> n] \in Tokens /\ [a |-> n, r |-> 0] \in Tokens
        BY <1>0, <1>3, <2>2 DEF Tokens, Ids
      <4> QED BY <3>2, <4>1
    <3> QED BY <1>3, <3>1, <3>2
  <2>4. /\ r \in ReqType /\ r.pc = "got" /\ r.got = got /\ r.stage = w.stage /\ r.s = w.s
        /\ r.cur = w.cur /\ r.rec = w.rec /\ r.fresh = f
    <3>1. w \in ReqType /\ f \in Tokens
      BY <1>0, <2>3
    <3> HIDE DEF w, f
    <3> QED BY <1>3, <3>1 DEF ReqType, Outcomes
  <2> HIDE DEF r, f
  <2>5. Later /\ issued' \in Ids /\ others' \subseteq Ids /\ live' \subseteq Ids
    BY <1>0, <1>1, <1>3, <2>2 DEF Later
  <2>6. SoundNext(f) /\ f.r \in {0, n}
    BY <1>0, <1>3, <2>2, <2>3 DEF SoundNext
  <2>7. /\ spent' \in [Sups -> SUBSET Ids] /\ \A o \in Sups \ {s} : spent'[o] = spent[o]
        /\ ~(rotates /\ got = "fresh") => spent'[s] = spent[s]
        /\ rotates /\ got = "fresh" => spent'[s] = spent[s] \cup {t.r}
    <3> DEFINE x == t.r
    <3>1. x \in Ids
      BY <2>2
    <3>2. spent' = IF rotates /\ got = "fresh"
                     THEN [spent EXCEPT ![s] = @ \cup {x}] ELSE spent
      BY <1>3
    <3> HIDE DEF x
    <3>3. /\ spent' \in [Sups -> SUBSET Ids] /\ \A o \in Sups \ {s} : spent'[o] = spent[o]
          /\ ~(rotates /\ got = "fresh") => spent'[s] = spent[s]
          /\ rotates /\ got = "fresh" => spent'[s] = spent[s] \cup {x}
      BY <1>0, <3>1, <3>2 DEF TypeOK
    <3> QED BY <3>3 DEF x
  <2>8. \A o \in Sups : spent'[o] \cap live' = {} /\ spent'[o] \subseteq 1 .. expired
    <3>1. \A o \in Sups : n \notin spent[o] /\ n # t.r
      BY <1>0, <2>2
    <3>2. \A o \in Sups : spent'[o] \subseteq 1 .. expired
      BY <1>0, <2>2, <2>7
    <3>3. CASE rotates
      BY <1>0, <1>3, <2>7, <3>1, <3>2, <3>3
    <3>4. CASE ~rotates
      BY <1>0, <1>3, <2>7, <3>2, <3>4
    <3> QED BY <3>3, <3>4
  <2>9. req'[q] = r
    BY <1>0, <2>1 DEF TypeOK
  <2>10. ExchangeSound(req[q])'
    <3>1. /\ r.cur.r # 0 /\ r.cur.a <= expired
          /\ r.stage = "current" => r.cur = tok[s]
          /\ r.stage # "current" => mem[s].follow
      BY <1>0, <2>4 DEF ExchangeSound
    <3>2. got = "fresh" => (IF f.r = 0 THEN t.r ELSE f.r) \notin spent'[s]
      <4>1. t.r \notin spent[s] /\ n \notin spent[s] /\ n # 0 /\ n # t.r
        BY <1>0, <1>3, <2>2
      <4> QED BY <1>3, <2>3, <2>7, <4>1
    <3>3. got = "fresh" => t.r < f.a /\ (f.a \in others' <=> t.r \in others')
      BY <1>0, <1>3, <2>2, <2>3
    <3> QED BY <1>0, <1>1, <2>4, <2>9, <3>1, <3>2, <3>3 DEF ExchangeSound
  <2> QED BY <1>0, <1>1, <1>3, <2>1, <2>4, <2>5, <2>6, <2>7, <2>8, <2>10, IssueStep
<1> QED BY <1>2, <1>3 DEF Exchange

(* The vendor answers the guest, and the response goes through the proxy. *)
LEMMA RelayKeeps ==
  ASSUME IInv, NEW q \in Reqs, Relay(q)
  PROVE  IInv'
<1> DEFINE s == req[q].s
           w == req[q]
           n == issued + 1
<1>0. /\ w.pc = "relay" /\ s \in Sups /\ w \in ReqType /\ TypeOK /\ w.s = s
      /\ issued \in Nat /\ expired \in Nat /\ expired <= issued /\ MaxPairs \in Nat
      /\ live \subseteq Ids /\ others \subseteq Ids /\ others \subseteq 1 .. issued
      /\ \A o \in Sups : spent[o] \cap live = {} /\ spent[o] \subseteq 1 .. expired
  BY Standing, VendorFacts, OAuthAssumption DEF IInv, Relay, At
<1>1. UNCHANGED <<expired, host, ring, mem, owed, tok, mu, checked, acts, spent>>
  BY DEF Relay, keys, saved, hist
<1>2. ASSUME NEW got \in {"refused", "unreadable", "lost"},
             req' = [req EXCEPT ![q] = [@ EXCEPT !.pc = "relayed", !.got = got]],
             UNCHANGED <<issued, others, live>>
      PROVE  IInv'
  <2> DEFINE r == [w EXCEPT !.pc = "relayed", !.got = got]
  <2>1. req' = [req EXCEPT ![q] = r]
    BY <1>2
  <2>2. /\ r \in ReqType /\ r.pc = "relayed" /\ r.got = got /\ r.stage = w.stage /\ r.s = w.s
        /\ r.cur = w.cur /\ r.rec = w.rec /\ r.fresh = w.fresh
    <3>1. w \in ReqType
      BY <1>0
    <3> HIDE DEF w
    <3> QED BY <1>2, <3>1 DEF ReqType, Outcomes
  <2> HIDE DEF r
  <2> QED BY <1>0, <1>1, <1>2, <2>1, <2>2, FailStep
<1>3. ASSUME n \in Ids, issued' = n, NEW own \in BOOLEAN, NEW m \in {0, n},
             others' = IF own THEN others ELSE others \cup {n},
             live' = live \cup ({m} \ {0}),
             req' = [req EXCEPT ![q] = [@ EXCEPT !.pc = "relayed", !.got = "fresh",
                                                 !.fresh = [a |-> n, r |-> m]]]
      PROVE  IInv'
  <2> DEFINE f == [a |-> n, r |-> m]
             r == [w EXCEPT !.pc = "relayed", !.got = "fresh", !.fresh = f]
  <2>1. req' = [req EXCEPT ![q] = r]
    BY <1>3
  <2>2. f \in Tokens /\ f.a = n /\ f.r = m
    BY <1>0, <1>3 DEF Tokens, Ids
  <2>3. /\ r \in ReqType /\ r.pc = "relayed" /\ r.s = w.s
        /\ r.cur = w.cur /\ r.rec = w.rec /\ r.fresh = f
    <3>1. w \in ReqType /\ f \in Tokens
      BY <1>0, <2>2
    <3> HIDE DEF w, f
    <3> QED BY <3>1 DEF ReqType, Outcomes
  <2> HIDE DEF r, f
  <2>4. Later /\ issued' \in Ids /\ others' \subseteq Ids /\ live' \subseteq Ids
    BY <1>0, <1>1, <1>3 DEF Later
  <2>5. SoundNext(f) /\ f.r \in {0, n}
    BY <1>0, <1>3, <2>2 DEF SoundNext
  <2>6. \A o \in Sups : spent'[o] \cap live' = {} /\ spent'[o] \subseteq 1 .. expired
    <3>1. \A o \in Sups : n \notin spent[o]
      BY <1>0
    <3> QED BY <1>0, <1>1, <1>3, <3>1
  <2>7. spent' \in [Sups -> SUBSET Ids] /\ \A o \in Sups : spent'[o] = spent[o]
    BY <1>0, <1>1 DEF TypeOK
  <2> QED BY <1>0, <1>1, <1>3, <2>1, <2>3, <2>4, <2>5, <2>6, <2>7, IssueStep
<1> QED BY <1>2, <1>3 DEF Relay

----------------------------------------------------------------------------
(* Initially nothing is shared and nothing spent. *)
LEMMA InitInv == Init => IInv
<1> SUFFICES ASSUME Init PROVE IInv
  OBVIOUS
<1>0. /\ NoReq \in ReqType /\ NoReq.pc = "idle" /\ NoReq.s = Free /\ NoReq.cur = Zero
      /\ NoReq.fresh = Zero /\ NoReq.rec = NoRecord
      /\ Zero \in Tokens /\ Zero.a = 0 /\ Zero.r = 0
  BY NoReqTyped, ZeroTyped
<1>1. MaxPairs \in Nat /\ MaxPairs >= 2 /\ MaxUser \in Nat
  BY OAuthAssumption
<1>2. /\ live = 1 .. issued /\ expired = 0 /\ acts = 0
      /\ mem = [s \in Sups |-> NoRecord] /\ tok = [s \in Sups |-> Unread]
      /\ mu = [s \in Sups |-> Free] /\ checked = [s \in Sups |-> FALSE]
      /\ req = [q \in Reqs |-> NoReq] /\ spent = [s \in Sups |-> {}]
      /\ owed = [s \in Sups |-> FALSE]
  BY DEF Init
<1>3. /\ issued \in {1, 2} /\ others \subseteq {1} /\ (issued = 1 => others = {})
      /\ host \in Tokens /\ host.a = issued /\ host.r = issued
      /\ ring \in Records /\ Sound(host) /\ Sound(ring.tok)
  <2>1. CASE /\ issued = 1 /\ others = {} /\ host = [a |-> 1, r |-> 1]
             /\ ring \in [tok : {host, Zero}, follow : {TRUE}]
    <3>1. host \in Tokens /\ host.a = 1 /\ host.r = 1
      BY <1>1, <2>1 DEF Tokens
    <3>2. ring \in Records /\ ring.tok \in {host, Zero}
      BY <1>0, <2>1, <3>1 DEF Records
    <3>3. Sound(host) /\ Sound(Zero)
      BY <1>0, <2>1, <3>1 DEF Sound
    <3> QED BY <2>1, <3>1, <3>2, <3>3
  <2>2. CASE /\ issued = 2 /\ others = {1} /\ host = [a |-> 2, r |-> 2]
             /\ ring = [tok |-> [a |-> 1, r |-> 1], follow |-> FALSE]
    <3>1. /\ host \in Tokens /\ host.a = 2 /\ host.r = 2
          /\ [a |-> 1, r |-> 1] \in Tokens
      BY <1>1, <2>2 DEF Tokens
    <3>2. ring \in Records /\ ring.tok = [a |-> 1, r |-> 1]
      BY <2>2, <3>1 DEF Records
    <3>3. Sound(host)
      BY <2>2, <3>1 DEF Sound
    <3>4. Sound(ring.tok)
      BY <2>2, <3>2 DEF Sound
    <3> QED BY <2>2, <3>1, <3>2, <3>3, <3>4
  <2> QED BY <2>1, <2>2 DEF Init
<1>4. TypeOK
  <2>1. /\ issued \in Ids /\ live \subseteq Ids /\ others \subseteq Ids
        /\ expired \in 0 .. issued /\ acts \in 0 .. MaxUser
    BY <1>1, <1>2, <1>3 DEF Ids
  <2> QED BY <1>0, <1>2, <1>3, <2>1 DEF TypeOK, At
<1>5. PairsSound
  <2>1. Sound(Zero) /\ others \subseteq 1 .. issued
    BY <1>0, <1>3 DEF Sound
  <2> QED BY <1>0, <1>2, <1>3, <2>1 DEF PairsSound, Up
<1>6. /\ MutexHeld /\ SpentIsGone /\ ExchangesSound /\ TokUnspent /\ CapturesOwn
      /\ OwedIsBrought
  BY <1>0, <1>2 DEF MutexHeld, SpentIsGone, ExchangesSound, TokUnspent, CapturesOwn,
                    OwedIsBrought, Exchanging, Captured
<1> QED BY <1>4, <1>5, <1>6 DEF IInv

(* Every step keeps the invariant. *)
LEMMA InvStep == IInv /\ [Next]_vars => IInv'
<1> SUFFICES ASSUME IInv, [Next]_vars PROVE IInv'
  OBVIOUS
<1>1. ASSUME NEW q \in Reqs, Step(q) PROVE IInv'
  BY <1>1, AccessTokenKeeps, NeedsAcquisitionKeeps, ExchangeTokenKeeps, ExchangeKeeps,
     AnsweredKeeps, NotifyKeeps, RingSetKeeps, RelayKeeps, AcquireTokenKeeps, SetTokKeeps
     DEF Step
<1>2. ASSUME NEW s \in Sups, Start(s) \/ Halt(s) PROVE IInv'
  BY <1>2, StartKeeps, HaltKeeps
<1>3. CASE UNCHANGED vars
  BY <1>3 DEF vars, IInv, TypeOK, PairsSound, Sound, Up, At, MutexHeld, SpentIsGone,
              ExchangesSound, ExchangeSound, TokUnspent, Replaced, CapturesOwn, Captured,
              CaptureOwn, OwedIsBrought, Brings, Exchanging
<1> QED BY <1>1, <1>2, <1>3, BeginKeeps, OutsideKeeps DEF Next

(* However many requests of a sandbox find the pair expired at once: the   *)
(* mutex of Injector.refresh (internal/secret/secret.go) is held across    *)
(* the exchange, a spent refresh token is gone and expired, and what the   *)
(* injector, the host's agent and a captured login hold has been spent by  *)
(* nobody here.                                                            *)
THEOREM LoginsSound == Spec => []IInv
BY InitInv, InvStep, PTL DEF Spec

(* Every variable has its type; only a supervisor that is up has requests, *)
(* and only a request under way holds its mutex.                           *)
THEOREM LoginTypes == Spec => []TypeOK
<1>1. IInv => TypeOK
  BY DEF IInv
<1> QED BY <1>1, LoginsSound, PTL

(* A supervisor never presents a refresh token of its own that it has      *)
(* exchanged for another already.                                          *)
THEOREM NeverSpentTwice == Spec => []SpendsOnce
<1>1. IInv => SpendsOnce
  BY DEF IInv, ExchangesSound, ExchangeSound, Exchanging, SpendsOnce, At
<1> QED BY <1>1, LoginsSound, PTL

(* A supervisor at rest has written its pair back to the keyring or noted  *)
(* that it could not (rotationHandler, internal/enforce/rotation.go), if   *)
(* its token endpoint's URL names no port.                                 *)
THEOREM RotationsKept ==
  ASSUME ~Ported
  PROVE  Spec => []KeptOnHost
<1>1. IInv => KeptOnHost
  BY DEF IInv, OwedIsBrought, Brings, KeptOnHost
<1> QED BY <1>1, LoginsSound, PTL

----------------------------------------------------------------------------
(* The account of a sandbox whose record follows no login of the host. *)

Logged(s) == \E q \in Reqs : At(q, "settok") /\ req[q].s = s /\ tok'[s] = req[q].fresh

SameOwner(s) == Current(s) # Zero /\ ((tok'[s].a \in others') <=> (Current(s).a \in others))

(* A step of q makes of its supervisor's pair, if it changes it at all,    *)
(* what it was, nothing, the host's, or the answer to an exchange.         *)
LEMMA AccountStep ==
  ASSUME IInv, NEW q \in Reqs, Step(q), NEW s \in Sups, Up(s), ~mem[s].follow,
         tok'[s] # tok[s], tok'[s] \notin {Unread, Zero}
  PROVE  Logged(s) \/ SameOwner(s)
<1>0. TypeOK /\ tok \in [Sups -> Tokens \cup {Unread}]
  BY DEF IInv, TypeOK
<1>1. ASSUME NEW t, tok' = [tok EXCEPT ![req[q].s] = t]
      PROVE  s = req[q].s /\ tok'[s] = t
  <2>1. s = req[q].s
    BY <1>0, <1>1
  <2>2. tok'[s] = t
    BY <1>0, <1>1, <2>1
  <2> QED BY <2>1, <2>2
<1>2. ASSUME tok' = [tok EXCEPT ![req[q].s] = Current(req[q].s)], UNCHANGED others
      PROVE  SameOwner(s)
  BY <1>1, <1>2 DEF SameOwner
<1>3. ASSUME tok' = [tok EXCEPT ![req[q].s] = host], mem[req[q].s].follow
      PROVE  FALSE
  BY <1>1, <1>3
<1>4. ASSUME tok' = [tok EXCEPT ![req[q].s] = Zero]
      PROVE  FALSE
  BY <1>1, <1>4
<1>5. CASE AccessToken(q)
  <2>1. UNCHANGED others
    BY <1>5 DEF AccessToken, vendor
  <2>2. \/ tok' = [tok EXCEPT ![req[q].s] = Current(req[q].s)]
        \/ tok' = [tok EXCEPT ![req[q].s] = Zero]
        \/ tok' = [tok EXCEPT ![req[q].s] = host] /\ mem[req[q].s].follow
    BY <1>5 DEF AccessToken, RecoverFromHost, Refresh, Adopt, FromHost
  <2> QED BY <1>2, <1>3, <1>4, <2>1, <2>2
<1>6. CASE NeedsAcquisition(q)
  BY <1>2, <1>6 DEF NeedsAcquisition, vendor
<1>7. CASE ExchangeToken(q)
  <2>1. UNCHANGED others /\ tok' = [tok EXCEPT ![req[q].s] = Current(req[q].s)]
    BY <1>7 DEF ExchangeToken, Refresh, vendor
  <2> QED BY <1>2, <2>1
<1>8. CASE Exchange(q) \/ Notify(q) \/ RingSet(q) \/ Relay(q) \/ AcquireToken(q)
  BY <1>8 DEF Exchange, Notify, RingSet, Relay, AcquireToken
<1>9. CASE SetTok(q)
  <2>1. At(q, "settok") /\ tok' = [tok EXCEPT ![req[q].s] = req[q].fresh]
    BY <1>9 DEF SetTok
  <2> QED BY <1>1, <2>1 DEF Logged
<1>10. CASE Answered(q)
  <2> DEFINE w == req[q]
             fresh == [w.fresh EXCEPT !.r = IF @ = 0 THEN w.cur.r ELSE @]
  <2>1. UNCHANGED others /\ w.pc = "got"
    BY <1>10 DEF Answered, vendor, At
  <2>2. \/ w.got = "fresh" /\ tok' = [tok EXCEPT ![w.s] = fresh]
        \/ tok' = tok
        \/ tok' = [tok EXCEPT ![w.s] = Zero]
        \/ tok' = [tok EXCEPT ![w.s] = host] /\ mem[w.s].follow
    BY <1>10 DEF Answered, Adopt, FromHost
  <2>3. CASE w.got = "fresh" /\ tok' = [tok EXCEPT ![w.s] = fresh]
    <3>1. s = w.s /\ tok'[s] = fresh
      BY <1>1, <2>3
    <3>2. w \in ReqType /\ ExchangeSound(w) /\ Sound(w.cur)
      BY <2>1 DEF IInv, TypeOK, ExchangesSound, Exchanging, PairsSound
    <3>3. w.cur = tok[s] /\ w.cur \in Tokens /\ w.fresh \in Tokens /\ w.cur.r # 0
      BY <3>1, <3>2 DEF ReqType, ExchangeSound
    <3>4. Current(s) = w.cur /\ w.cur # Zero
      BY <3>3, ZeroTyped, OAuthAssumption DEF Current
    <3>5. fresh.a = w.fresh.a
      <4> DEFINE f == w.fresh
                 c == w.cur.r
      <4>1. f \in Tokens
        BY <3>3
      <4> HIDE DEF f, c
      <4>2. [f EXCEPT !.r = IF @ = 0 THEN c ELSE @].a = f.a
        BY <4>1 DEF Tokens
      <4> QED BY <4>2 DEF f, c
    <3>6. (w.fresh.a \in others) <=> (w.cur.a \in others)
      BY <2>1, <2>3, <3>2, <3>3 DEF ExchangeSound, Sound
    <3> HIDE DEF fresh
    <3> QED BY <2>1, <3>1, <3>4, <3>5, <3>6 DEF SameOwner
  <2> QED BY <1>3, <1>4, <2>2, <2>3
<1> QED BY <1>5, <1>6, <1>7, <1>8, <1>9, <1>10 DEF Step

(* No step changes the account that a supervisor's record is for. *)
LEMMA AccountKept == IInv /\ [Next]_vars => [SameAccount]_vars
<1> SUFFICES ASSUME IInv, Next PROVE SameAccount
  BY DEF vars
<1>1. ASSUME NEW s \in Sups, Up(s), ~mem[s].follow, tok'[s] # tok[s],
             tok'[s] \notin {Unread, Zero}
      PROVE  Logged(s) \/ SameOwner(s)
  <2>1. ASSUME NEW q \in Reqs, Step(q) PROVE Logged(s) \/ SameOwner(s)
    BY <1>1, <2>1, AccountStep
  <2>2. ASSUME NEW o \in Sups, Halt(o) PROVE FALSE
    BY <1>1, <2>2 DEF Halt, IInv, TypeOK
  <2>3. ASSUME NEW o \in Sups, Recheck(o) \/ Start(o) PROVE FALSE
    BY <1>1, <2>3 DEF Recheck, Start
  <2>4. ASSUME NEW q \in Reqs, NEW o \in Sups, NEW via, Begin(q, o, via) PROVE FALSE
    BY <1>1, <2>4 DEF Begin
  <2>5. ASSUME Expire \/ HostAgent \/ User PROVE FALSE
    BY <1>1, <2>5 DEF Expire, HostAgent, User, SecretAdopt, SecretAdoptFrom, SecretLogin,
                      SecretRm, Command
  <2> QED BY <2>1, <2>2, <2>3, <2>4, <2>5 DEF Next
<1> QED BY <1>1 DEF SameAccount, Logged, SameOwner

(* A sandbox whose record follows no login of the host changes its account *)
(* only by a login inside the sandbox (fromHost and adopt in               *)
(* internal/secret/secret.go).                                             *)
THEOREM AccountsAreOwn == Spec => OwnAccount
BY InitInv, InvStep, AccountKept, PTL DEF Spec, OwnAccount
=============================================================================
