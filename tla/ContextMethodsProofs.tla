------------------------ MODULE ContextMethodsProofs ------------------------
(***************************************************************************)
(* Proofs about ContextMethods, for any keys and for results of any size.  *)
(*                                                                         *)
(* What the properties need is said of pairs of statements: what has to    *)
(* come before what, and what is owed once something has been done.  Such  *)
(* a condition on the statements still to run holds of what is left of     *)
(* them as well, so that a step that goes on to the next one keeps it, and *)
(* it has to be proved of the scripts and of the undo lists only.          *)
(***************************************************************************)
EXTENDS ContextMethods, SequenceTheorems, TLAPS

Acquiring == {"open", "parse", "fast", "fast_or_none", "borrow"}
Making    == {"items", "fill", "look", "store"}
Discards  == {"discard", "discard_if_gpgme"}
Results   == {"newsigs", "sigs", "imports", "genkey", "engines", "key"}

Statements ==
    {Open(f) : f \in Files} \cup {Parse, Fast, FastOrNone, Borrow, Warn}
    \cup {Begin, Operate, OperateKey, End, Check, Discard, DiscardIfGpgme}
    \cup {Convert(b) : b \in Results} \cup {Items(b) : b \in Results}
    \cup {Annotate(b) : b \in {"pairs", "values", "newsigs", "sigs"}}
    \cup {Free(r) : r \in Resources \ {"result"}}
    \cup {Fill, Look, Store}

-----------------------------------------------------------------------------
(* Orderly scripts.                                                        *)

Phase(op) == CASE op \in Acquiring \cup {"warn"} -> 0
               [] op = "begin"   -> 1
               [] op = "operate" -> 2
               [] op = "end"     -> 3
               [] OTHER          -> 4

\* Statement a may come before statement b.
Before(a, b) ==
    /\ Phase(a.op) <= Phase(b.op)
    /\ a.op = b.op => a.op \notin {"begin", "operate", "end", "check", "convert"}
    /\ a.op \in Acquiring /\ b.op \in Acquiring => a.what # b.what
    /\ a.op = "free" /\ b.op = "free" => a.what # b.what
    /\ a.op = "borrow" => b.op \notin {"fast", "fast_or_none"}
    /\ a.op \in Discards => b.op # "check"
    /\ b.op \in Making => a.op \in Making \ {"items"}

\* What comes immediately after a statement.
Follows(s, i, ops) == i + 1 \in DOMAIN s /\ s[i + 1].op \in ops

\* What comes at some time after a statement.
Later(s, i, ops, what) ==
    \E j \in DOMAIN s : j > i /\ s[j].op \in ops /\ s[j].what \in what

Orderly(s) ==
    /\ \A i, j \in DOMAIN s : i < j => Before(s[i], s[j])
    /\ \A i \in DOMAIN s :
        /\ Phase(s[i].op) < 2 => Later(s, i, {"operate"}, {"none", "key"})
        /\ s[i].op = "begin"   => Follows(s, i, {"operate"})
        /\ s[i].op = "operate" => Follows(s, i, {"end"})
        /\ s[i].op = "fill"    => Follows(s, i, {"look", "store"})
        /\ s[i].op = "look"    => Follows(s, i, {"store"})
        /\ s[i].op = "store"   => Follows(s, i, {"items"})
        /\ s[i].op \in Acquiring \/ s[i] = OperateKey =>
               Later(s, i, {"free"}, {s[i].what})
        /\ s[i].op = "operate" => Later(s, i, {"check"}, {"none"})
        /\ s[i].op = "convert" /\ Later(s, i, {"check"}, {"none"}) =>
               Later(s, i, Discards, {"result"})

\* Only some methods have some statements.
Allowed(s, m) ==
    \A i \in DOMAIN s :
        /\ s[i].op = "discard_if_gpgme" => m = "genkey"
        /\ s[i].op = "convert" /\ s[i].what = "imports" =>
               m \in {"import_", "import_keys"}
        /\ m # "get_engine_info" =>
               /\ s[i].op \in {"convert", "items"} => s[i].what # "engines"
               /\ s[i].op = "fill" => Follows(s, i, {"look"})

Sound(s, m) == s \in Seq(Statements) /\ Orderly(s) /\ Allowed(s, m)

MayAcquire(op, m) ==
    /\ op = "warn"  => m \in {"edit", "card_edit"}
    /\ op = "parse" => m \in {"export", "keylist"}

\* What is acquired before statement n of the script s.
Acquired(s, n) ==
    {s[j].what : j \in {k \in DOMAIN s : k < n /\ s[k].op \in Acquiring}}

\* What the list u frees.
Frees(u) == {u[i].what : i \in DOMAIN u}

\* The list u undoes what has been acquired when statement n fails.
Undoes(u, m, n) ==
    LET s == Method[m].script IN
    /\ Sound(u, m)
    /\ \A i \in DOMAIN u : u[i].op = "free"
    /\ Acquired(s, n) \subseteq Frees(u)
    /\ s[n].op = "borrow" => "keys" \in Frees(u)
    /\ Frees(u) \subseteq Acquired(s, n) \cup Method[m].nulls

Sane(m) ==
    LET s == Method[m].script IN
    /\ Sound(s, m)
    /\ \A i \in DOMAIN s : s[i].op \notin Making
    /\ \A i \in DOMAIN s : MayAcquire(s[i].op, m)
    /\ \A i \in DOMAIN s :
        /\ s[i].op = "free" =>
               \/ s[i].what \in Acquired(s, i)
               \/ s[i].what = "key"
        /\ s[i].op = "free" => \E j \in DOMAIN s : j < i /\ s[j].op = "operate"
        /\ s[i] = Free("key") => \E j \in DOMAIN s : j < i /\ s[j] = OperateKey
        /\ s[i].op \in {"borrow", "fast_or_none"} => s[i].what \in Method[m].nulls
        /\ s[i].op \in Acquiring =>
               i \in DOMAIN Method[m].undo /\ Undoes(Method[m].undo[i], m, i)

-----------------------------------------------------------------------------
(* The invariant.                                                          *)

Active == at \in {"running", "returned"}
Pending(op) == \E i \in DOMAIN rest : rest[i].op = op
Owed(r) == \E i \in DOMAIN rest : rest[i].op = "free" /\ rest[i].what = r

Script == Method[method].script
Done   == Len(Script) - Len(rest)

RestInv ==
    /\ Sound(rest, method)
    /\ at # "running" => rest = <<>>

\* Where no call runs, the last one has left nothing.
IdleInv ==
    at = "idle" =>
        /\ kind = "none" /\ inseq = {} /\ borrowed = {}
        /\ failed = FALSE /\ null = FALSE /\ exc = "none"
        /\ item = "none" /\ holey = FALSE

DetachedInv ==
    detached =>
      at = "running" /\ rest # <<>> /\ Head(rest).op \in {"operate", "end"}

\* Up to the operation, the method is on its script.
OnScript ==
    /\ Done \in Nat
    /\ \A i \in DOMAIN rest : rest[i] = Script[Done + i]
    /\ null = FALSE /\ failed = FALSE

\* What the variables hold by then.
ReadyInv ==
    /\ var["result"] # "live"
    /\ \A r \in Resources : var[r] # "freed"
    /\ \A r \in Resources \cap Method[method].nulls : var[r] # "unset"
    /\ \A r \in Acquired(Script, Done + 1) : var[r] \in {"null", "live"}
    /\ \A r \in Resources :
           var[r] = "live" => r \in Acquired(Script, Done + 1)

\* The keys in the array are those of a sequence that does not change.
KeysInv ==
    /\ kind # "list" => borrowed \subseteq inseq
    /\ borrowed # {} => var["seq"] = "live"
    /\ Pending("fast") \/ Pending("fast_or_none") => borrowed = {}

BeforeInv == Pending("operate") => OnScript /\ ReadyInv /\ KeysInv

\* What is live is going to be freed, and what is going to be freed can be.
OwedInv ==
    /\ Active => \A r \in Resources \ {"result"} :
                     var[r] = "live" => Owed(r)
    /\ ~ Pending("operate") =>
           \A i \in DOMAIN rest :
               rest[i].op = "free" => var[rest[i].what] \in {"null", "live"}

\* A result is given up by a method that is going to return NULL.
ResultInv ==
    Active /\ var["result"] = "live" =>
        /\ ~ Pending("convert")
        /\ Pending("check") => Pending("discard") \/ Pending("discard_if_gpgme")
        /\ null => \/ Pending("discard")
                   \/ Pending("discard_if_gpgme") /\ exc = "gpgme"
                   \/ Interrupted

\* A method is going to return NULL if an exception is set, that of a broken
\* item or a warning excepted, and if its operation has failed.
ErrorInv ==
    /\ null => exc # "none"
    /\ Active /\ failed /\ ~ null => Pending("check")
    /\ method # "get_engine_info" /\ exc # "none" =>
           null \/ item = "broken" \/ Warned

\* A broken item is looked at next.
ItemInv ==
    /\ null => \A i \in DOMAIN rest : rest[i].op \notin Making
    /\ method # "get_engine_info" =>
        /\ holey = FALSE
        /\ item = "broken" =>
               /\ exc # "none" /\ at = "running"
               /\ rest # <<>> /\ Head(rest).op = "look"

IndInv ==
    /\ TypeOK
    /\ RestInv /\ IdleInv /\ DetachedInv /\ BeforeInv /\ OwedInv
    /\ ResultInv /\ ErrorInv /\ ItemInv

-----------------------------------------------------------------------------
(* Lists of statements.                                                    *)

\* A list that has the elements of two lists, in order, is their concatenation.
LEMMA ConcatIs ==
    ASSUME NEW S, NEW u \in Seq(S), NEW v \in Seq(S), NEW w \in Seq(S),
           Len(w) = Len(u) + Len(v),
           \A i \in 1 .. Len(u) : w[i] = u[i],
           \A i \in 1 .. Len(v) : w[Len(u) + i] = v[i]
    PROVE  u \o v = w
  <1>1. /\ u \o v \in Seq(S) /\ Len(u \o v) = Len(w)
    BY ConcatProperties
  <1>2. \A i \in 1 .. Len(w) : (u \o v)[i] = w[i]
    <2> TAKE i \in 1 .. Len(w)
    <2>1. CASE i <= Len(u)
      BY <2>1, ConcatProperties
    <2>2. CASE i > Len(u)
      <3>1. i - Len(u) \in 1 .. Len(v) /\ i = Len(u) + (i - Len(u))
        BY <2>2
      <3> QED BY <2>2, <3>1, ConcatProperties
    <2> QED BY <2>1, <2>2
  <1> QED BY <1>1, <1>2, SeqEqual

\* What the statements are about.
LEMMA StatementsOf ==
    ASSUME NEW s \in Statements
    PROVE  /\ s.op = "open" => s.what \in Files
           /\ s.op = "parse" => s.what = "patterns"
           /\ s.op \in {"fast", "fast_or_none"} => s.what = "seq"
           /\ s.op = "borrow" => s.what = "keys"
           /\ s.op = "operate" =>
                s.what \in {"none", "key"} /\ (s.what = "key" => s = OperateKey)
           /\ s.op = "check" => s.what = "none"
           /\ s.op \in {"convert", "items"} => s.what \in Results
           /\ s.op \in Discards => s.what = "result"
           /\ s.op = "free" => s.what \in Resources \ {"result"}
           /\ s.op \in Acquiring =>
                s.what \in Resources \ {"result", "key"}
           /\ s.op = "free" => s = Free(s.what)
  BY DEF Statements, Statement, Open, Parse, Fast, FastOrNone, Borrow, Warn, Begin,
         Operate, OperateKey, End, Check, Convert, Annotate, Discard,
         DiscardIfGpgme, Free, Items, Fill, Look, Store, Discards, Acquiring,
         Files, Resources, Results

\* A list that is not empty has a first element, and the rest in order.
LEMMA Elements ==
    ASSUME NEW S, NEW s \in Seq(S), s # <<>>
    PROVE  /\ Len(s) \in Nat \ {0} /\ DOMAIN s = 1 .. Len(s)
           /\ Head(s) = s[1] /\ s[1] \in S
           /\ Tail(s) \in Seq(S) /\ Len(Tail(s)) = Len(s) - 1
           /\ DOMAIN Tail(s) = 1 .. (Len(s) - 1)
           /\ \A i \in DOMAIN Tail(s) :
                i + 1 \in DOMAIN s /\ Tail(s)[i] = s[i + 1] /\ s[i + 1] \in S
  BY HeadTailProperties, EmptySeq, LenProperties

\* What is left of a list in order is in order.
LEMMA TailSound ==
    ASSUME NEW m, NEW s, Sound(s, m), s # <<>>
    PROVE  Sound(Tail(s), m)
  <1> DEFINE t == Tail(s)
  <1>0. s \in Seq(Statements)
    BY DEF Sound
  <1>1. /\ Len(s) \in Nat \ {0} /\ DOMAIN s = 1 .. Len(s)
        /\ t \in Seq(Statements)
        /\ DOMAIN t = 1 .. (Len(s) - 1)
        /\ \A i \in DOMAIN t : i + 1 \in DOMAIN s /\ t[i] = s[i + 1]
    BY <1>0, Elements
  <1> HIDE DEF t
  <1>2. ASSUME NEW i \in DOMAIN t, NEW ops, Follows(s, i + 1, ops)
        PROVE  Follows(t, i, ops)
    BY <1>1, <1>2 DEF Follows
  <1>3. ASSUME NEW i \in DOMAIN t, NEW ops, NEW what
        PROVE  Later(s, i + 1, ops, what) <=> Later(t, i, ops, what)
    <2>1. ASSUME Later(s, i + 1, ops, what) PROVE Later(t, i, ops, what)
      <3> PICK j \in DOMAIN s : j > i + 1 /\ s[j].op \in ops /\ s[j].what \in what
        BY <2>1 DEF Later
      <3>1. j - 1 \in DOMAIN t /\ j - 1 > i /\ t[j - 1] = s[j]
        BY <1>1
      <3> QED BY <3>1 DEF Later
    <2>2. ASSUME Later(t, i, ops, what) PROVE Later(s, i + 1, ops, what)
      <3> PICK j \in DOMAIN t : j > i /\ t[j].op \in ops /\ t[j].what \in what
        BY <2>2 DEF Later
      <3>1. j + 1 \in DOMAIN s /\ j + 1 > i + 1 /\ t[j] = s[j + 1]
        BY <1>1
      <3> QED BY <3>1 DEF Later
    <2> QED BY <2>1, <2>2
  <1>4. \A i, j \in DOMAIN t : i < j => Before(t[i], t[j])
    BY <1>1 DEF Sound, Orderly
  <1>5. ASSUME NEW i \in DOMAIN t
        PROVE  /\ Phase(t[i].op) < 2 => Later(t, i, {"operate"}, {"none", "key"})
               /\ t[i].op = "begin"   => Follows(t, i, {"operate"})
               /\ t[i].op = "operate" => Follows(t, i, {"end"})
               /\ t[i].op = "fill"    => Follows(t, i, {"look", "store"})
               /\ t[i].op = "look"    => Follows(t, i, {"store"})
               /\ t[i].op = "store"   => Follows(t, i, {"items"})
    <2>1. i + 1 \in DOMAIN s /\ t[i] = s[i + 1]
      BY <1>1
    <2> QED BY <1>2, <1>3, <2>1 DEF Sound, Orderly
  <1>6. ASSUME NEW i \in DOMAIN t
        PROVE  /\ t[i].op \in Acquiring \/ t[i] = OperateKey =>
                     Later(t, i, {"free"}, {t[i].what})
               /\ t[i].op = "operate" => Later(t, i, {"check"}, {"none"})
               /\ t[i].op = "convert" /\ Later(t, i, {"check"}, {"none"}) =>
                     Later(t, i, Discards, {"result"})
    BY <1>1, <1>3 DEF Sound, Orderly
  <1>7. Orderly(t)
    BY <1>4, <1>5, <1>6 DEF Orderly
  <1>8. Allowed(t, m)
    BY <1>1, <1>2 DEF Sound, Allowed
  <1> QED BY <1>1, <1>7, <1>8 DEF Sound, t

\* A statement put before a list comes first.
LEMMA Cons ==
    ASSUME NEW S, NEW s \in Seq(S), NEW a \in S
    PROVE  LET t == <<a>> \o s IN
           /\ Len(s) \in Nat /\ DOMAIN s = 1 .. Len(s)
           /\ t \in Seq(S) /\ t # <<>>
           /\ DOMAIN t = 1 .. (Len(s) + 1) /\ Len(t) = Len(s) + 1
           /\ t[1] = a /\ Head(t) = a
           /\ \A i \in DOMAIN s : i + 1 \in DOMAIN t /\ t[i + 1] = s[i]
  <1> DEFINE h == <<a>>  t == h \o s
  <1>1. h \in Seq(S) /\ Len(h) = 1 /\ h[1] = a
    OBVIOUS
  <1> HIDE DEF h
  <1>2. Len(s) \in Nat /\ DOMAIN s = 1 .. Len(s)
    BY LenProperties
  <1>3. /\ t \in Seq(S) /\ Len(t) = Len(s) + 1
        /\ \A i \in 1 .. (Len(s) + 1) : t[i] = IF i <= 1 THEN h[i] ELSE s[i - 1]
    BY <1>1, <1>2, ConcatProperties
  <1> HIDE DEF t
  <1>4. DOMAIN t = 1 .. (Len(s) + 1) /\ t # <<>>
    BY <1>2, <1>3, LenProperties, EmptySeq
  <1>5. t[1] = a /\ \A i \in DOMAIN s : i + 1 \in DOMAIN t /\ t[i + 1] = s[i]
    BY <1>1, <1>2, <1>3, <1>4
  <1>6. Head(t) = a
    BY <1>3, <1>4, <1>5, Elements
  <1> QED BY <1>2, <1>3, <1>4, <1>5, <1>6 DEF t, h

\* A short list put before another one, one statement after the other.
LEMMA ConsTwo ==
    ASSUME NEW S, NEW s \in Seq(S), NEW a \in S, NEW b \in S
    PROVE  <<a, b>> \o s = <<a>> \o (<<b>> \o s)
  <1> DEFINE p == <<a>>  q == <<b>>  pq == <<a, b>>
  <1>1. p \in Seq(S) /\ q \in Seq(S)
    OBVIOUS
  <1>2. /\ pq \in Seq(S) /\ Len(pq) = Len(p) + Len(q)
        /\ \A i \in 1 .. Len(p) : pq[i] = p[i]
        /\ \A i \in 1 .. Len(q) : pq[Len(p) + i] = q[i]
    <2>1. pq \in Seq(S) /\ Len(pq) = Len(p) + Len(q)
      OBVIOUS
    <2>2. \A i \in 1 .. Len(p) : pq[i] = p[i]
      OBVIOUS
    <2>3. \A i \in 1 .. Len(q) : pq[Len(p) + i] = q[i]
      OBVIOUS
    <2> QED BY <2>1, <2>2, <2>3
  <1> HIDE DEF p, q, pq
  <1>3. p \o q = pq
    BY <1>1, <1>2, ConcatIs
  <1>4. (p \o q) \o s = p \o (q \o s)
    BY <1>1, ConcatAssociative
  <1> QED BY <1>3, <1>4 DEF p, q, pq

\* The same for three statements.
LEMMA ConsThree ==
    ASSUME NEW S, NEW s \in Seq(S), NEW a \in S, NEW b \in S, NEW c \in S
    PROVE  <<a, b, c>> \o s = <<a>> \o (<<b>> \o (<<c>> \o s))
  <1> DEFINE p == <<a>>  q == <<b, c>>  pq == <<a, b, c>>
  <1>1. p \in Seq(S) /\ q \in Seq(S)
    OBVIOUS
  <1>2. /\ pq \in Seq(S) /\ Len(pq) = Len(p) + Len(q)
        /\ \A i \in 1 .. Len(p) : pq[i] = p[i]
        /\ \A i \in 1 .. Len(q) : pq[Len(p) + i] = q[i]
    OBVIOUS
  <1>3. q \o s = <<b>> \o (<<c>> \o s)
    BY ConsTwo
  <1> HIDE DEF p, q, pq
  <1>4. p \o q = pq
    BY <1>1, <1>2, ConcatIs
  <1>5. (p \o q) \o s = p \o (q \o s)
    BY <1>1, ConcatAssociative
  <1> QED BY <1>3, <1>4, <1>5 DEF p, q, pq

\* The loop and the making of an item are in order before what follows them.
LEMMA ConsSound ==
    ASSUME NEW m, NEW s, Sound(s, m),
           NEW a \in Statements, a.op \in Making,
           \A i \in DOMAIN s : Before(a, s[i]),
           a.op # "items" => s # <<>>,
           a.op = "fill"  => s[1].op \in {"look", "store"},
           a.op = "look"  => s[1].op = "store",
           a.op = "store" => s[1].op = "items",
           m # "get_engine_info" =>
               /\ a.op = "items" => a.what # "engines"
               /\ a.op = "fill" => s[1].op = "look"
    PROVE  Sound(<<a>> \o s, m)
  <1> DEFINE t == <<a>> \o s
  <1>0. s \in Seq(Statements)
    BY DEF Sound
  <1>1. /\ Len(s) \in Nat /\ DOMAIN s = 1 .. Len(s)
        /\ t \in Seq(Statements)
        /\ DOMAIN t = 1 .. (Len(s) + 1) /\ t[1] = a
        /\ \A i \in DOMAIN s : i + 1 \in DOMAIN t /\ t[i + 1] = s[i]
        /\ s # <<>> => 1 \in DOMAIN s
    BY <1>0, Cons, Elements
  <1> HIDE DEF t
  <1>2. \A i \in DOMAIN t : i = 1 \/ (i - 1 \in DOMAIN s /\ t[i] = s[i - 1])
    BY <1>1
  <1>3. ASSUME NEW i \in DOMAIN s, NEW ops, Follows(s, i, ops)
        PROVE  Follows(t, i + 1, ops)
    BY <1>1, <1>3 DEF Follows
  <1>4. ASSUME NEW i \in DOMAIN s, NEW ops, NEW what
        PROVE  Later(s, i, ops, what) <=> Later(t, i + 1, ops, what)
    <2>1. ASSUME Later(s, i, ops, what) PROVE Later(t, i + 1, ops, what)
      BY <1>1, <2>1 DEF Later
    <2>2. ASSUME Later(t, i + 1, ops, what) PROVE Later(s, i, ops, what)
      <3> PICK j \in DOMAIN t : j > i + 1 /\ t[j].op \in ops /\ t[j].what \in what
        BY <2>2 DEF Later
      <3>1. j - 1 \in DOMAIN s /\ j - 1 > i /\ t[j] = s[j - 1]
        BY <1>1, <1>2
      <3> QED BY <3>1 DEF Later
    <2> QED BY <2>1, <2>2
  <1>5. \A i, j \in DOMAIN t : i < j => Before(t[i], t[j])
    <2> TAKE i, j \in DOMAIN t
    <2> HAVE i < j
    <2>1. j - 1 \in DOMAIN s /\ t[j] = s[j - 1]
      BY <1>1, <1>2
    <2>2. CASE i = 1
      BY <1>1, <2>1, <2>2
    <2>3. CASE i - 1 \in DOMAIN s /\ t[i] = s[i - 1]
      BY <1>1, <2>1, <2>3 DEF Sound, Orderly
    <2> QED BY <1>2, <2>2, <2>3
  <1>6. ASSUME NEW i \in DOMAIN t
        PROVE  /\ Phase(t[i].op) < 2 => Later(t, i, {"operate"}, {"none", "key"})
               /\ t[i].op = "begin"   => Follows(t, i, {"operate"})
               /\ t[i].op = "operate" => Follows(t, i, {"end"})
               /\ t[i].op = "fill"    => Follows(t, i, {"look", "store"})
               /\ t[i].op = "look"    => Follows(t, i, {"store"})
               /\ t[i].op = "store"   => Follows(t, i, {"items"})
               /\ t[i].op \in Acquiring \/ t[i] = OperateKey =>
                     Later(t, i, {"free"}, {t[i].what})
               /\ t[i].op = "operate" => Later(t, i, {"check"}, {"none"})
               /\ t[i].op = "convert" /\ Later(t, i, {"check"}, {"none"}) =>
                     Later(t, i, Discards, {"result"})
    <2>1. CASE i = 1
      <3>1. OperateKey.op = "operate"
        BY DEF OperateKey, Statement
      <3>2. a.op \in {"items", "fill", "look", "store"}
        BY DEF Making
      <3>3. Phase(a.op) = 4 /\ a.op \notin Acquiring /\ a # OperateKey
              /\ a.op # "operate" /\ a.op # "begin" /\ a.op # "convert"
        BY <3>1, <3>2 DEF Phase, Acquiring
      <3>4. s # <<>> => 2 \in DOMAIN t /\ t[2] = s[1]
        BY <1>1
      <3> QED BY <1>1, <2>1, <3>2, <3>3, <3>4 DEF Follows
    <2>2. CASE i - 1 \in DOMAIN s /\ t[i] = s[i - 1]
      <3> DEFINE k == i - 1
      <3>1. k \in DOMAIN s /\ t[i] = s[k] /\ i = k + 1
        BY <1>1, <2>2
      <3> HIDE DEF k
      <3> QED BY <1>3, <1>4, <3>1 DEF Sound, Orderly
    <2> QED BY <1>2, <2>1, <2>2
  <1>7. Allowed(t, m)
    <2> SUFFICES ASSUME NEW i \in DOMAIN t
                 PROVE  /\ t[i].op = "discard_if_gpgme" => m = "genkey"
                        /\ t[i].op = "convert" /\ t[i].what = "imports" =>
                             m \in {"import_", "import_keys"}
                        /\ m # "get_engine_info" =>
                             /\ t[i].op \in {"convert", "items"} =>
                                  t[i].what # "engines"
                             /\ t[i].op = "fill" => Follows(t, i, {"look"})
      BY DEF Allowed
    <2>1. CASE i = 1
      <3>2. a.op \in {"items", "fill", "look", "store"}
        BY DEF Making
      <3>4. s # <<>> => 2 \in DOMAIN t /\ t[2] = s[1]
        BY <1>1
      <3> QED BY <1>1, <2>1, <3>2, <3>4 DEF Follows
    <2>2. CASE i - 1 \in DOMAIN s /\ t[i] = s[i - 1]
      <3> DEFINE k == i - 1
      <3>1. k \in DOMAIN s /\ t[i] = s[k] /\ i = k + 1
        BY <1>1, <2>2
      <3> HIDE DEF k
      <3> QED BY <1>3, <3>1 DEF Sound, Allowed
    <2> QED BY <1>2, <2>1, <2>2
  <1> QED BY <1>1, <1>5, <1>6, <1>7 DEF Sound, Orderly, t

\* The loop over the items of a result, where its list has just been made.
LEMMA LoopSound ==
    ASSUME NEW m, NEW s, Sound(s, m), s # <<>>, s[1].op = "convert"
    PROVE  /\ Sound(<<Items(s[1].what)>> \o Tail(s), m)
           /\ Items(s[1].what) \in Statements
  <1> DEFINE t == Tail(s)  a == Items(s[1].what)
  <1>1. /\ s \in Seq(Statements) /\ 1 \in DOMAIN s /\ s[1] \in Statements
        /\ Len(s) \in Nat /\ DOMAIN s = 1 .. Len(s)
        /\ \A i \in DOMAIN t :
             i + 1 \in DOMAIN s /\ t[i] = s[i + 1] /\ i \in Nat \ {0}
    BY Elements DEF Sound
  <1>2. /\ a \in Statements
        /\ a.op = "items" /\ a.what = s[1].what
    BY <1>1, StatementsOf DEF Statements, Items, Statement
  <1>3. Sound(t, m)
    BY TailSound
  <1> HIDE DEF t, a
  <1>4. m # "get_engine_info" => a.what # "engines"
    BY <1>1, <1>2 DEF Sound, Allowed
  <1>5. ASSUME NEW i \in DOMAIN t
        PROVE  Before(a, t[i])
    <2>1. Before(s[1], t[i])
      BY <1>1 DEF Sound, Orderly
    <2> QED BY <1>2, <2>1 DEF Before, Phase, Acquiring, Making, Discards
  <1>6. Sound(<<a>> \o t, m)
    BY <1>2, <1>3, <1>4, <1>5, ConsSound, ZenonT(30) DEF Making
  <1> QED BY <1>2, <1>6 DEF t, a

\* An item is made before the loop goes on.
LEMMA MakingSound ==
    ASSUME NEW m, NEW s, Sound(s, m), s # <<>>, s[1].op = "items"
    PROVE  Sound(Builder[s[1].what] \o s, m)
  <1> DEFINE u == <<Store>> \o s  v == <<Look>> \o u
  <1>1. /\ s \in Seq(Statements) /\ s[1] \in Statements
        /\ \A i \in DOMAIN s : i = 1 \/ Before(s[1], s[i])
    <2>1. s \in Seq(Statements)
      BY DEF Sound
    <2>2. /\ s[1] \in Statements /\ 1 \in DOMAIN s
          /\ \A i \in DOMAIN s : i = 1 \/ (1 < i)
      BY <2>1, Elements
    <2> QED BY <2>1, <2>2 DEF Sound, Orderly
  <1>2. /\ Fill \in Statements /\ Look \in Statements /\ Store \in Statements
        /\ Fill.op = "fill" /\ Look.op = "look" /\ Store.op = "store"
    BY DEF Statements, Fill, Look, Store, Statement
  <1>3. ASSUME NEW a \in {Fill, Look, Store}, NEW i \in DOMAIN s
        PROVE  Before(a, s[i])
    <2>1. CASE i = 1
      BY <1>2, <2>1 DEF Before, Phase, Acquiring, Making, Discards
    <2>2. CASE Before(s[1], s[i])
      BY <1>2, <2>2 DEF Before, Phase, Acquiring, Making, Discards
    <2> QED BY <1>1, <2>1, <2>2
  <1>4. \A a, b \in {Fill, Look, Store} : a # b => Before(a, b)
    BY <1>2 DEF Before, Phase, Acquiring, Making, Discards
  <1>5. Sound(u, m)
    <2>1. \A i \in DOMAIN s : Before(Store, s[i])
      BY <1>3
    <2> HIDE DEF u
    <2>2. Sound(<<Store>> \o s, m)
      BY <1>2, <2>1, ConsSound DEF Making
    <2> QED BY <2>2 DEF u
  <1>6. /\ u[1] = Store /\ u # <<>> /\ u \in Seq(Statements)
        /\ \A i \in DOMAIN u : u[i] = Store \/ \E j \in DOMAIN s : u[i] = s[j]
    <2>1. /\ u[1] = Store /\ u # <<>> /\ u \in Seq(Statements)
          /\ DOMAIN s = 1 .. Len(s) /\ DOMAIN u = 1 .. (Len(s) + 1)
               /\ Len(s) \in Nat
          /\ \A i \in DOMAIN s : u[i + 1] = s[i]
      BY <1>1, <1>2, Cons
    <2> HIDE DEF u
    <2>2. \A i \in DOMAIN u : i = 1 \/ (i - 1 \in DOMAIN s /\ u[i] = s[i - 1])
      BY <2>1
    <2> QED BY <2>1, <2>2
  <1> HIDE DEF u
  <1>7. Sound(v, m)
    <2>1. \A i \in DOMAIN u : Before(Look, u[i])
      BY <1>2, <1>3, <1>4, <1>6
    <2>2. Sound(<<Look>> \o u, m)
      BY <1>2, <1>5, <1>6, <2>1, ConsSound DEF Making
    <2> QED BY <2>2 DEF v
  <1>8. /\ v[1] = Look /\ v # <<>>
        /\ \A i \in DOMAIN v : v[i] = Look \/ \E j \in DOMAIN u : v[i] = u[j]
    <2>1. /\ v[1] = Look /\ v # <<>>
          /\ DOMAIN u = 1 .. Len(u) /\ DOMAIN v = 1 .. (Len(u) + 1)
               /\ Len(u) \in Nat
          /\ \A i \in DOMAIN u : v[i + 1] = u[i]
      BY <1>2, <1>6, Cons
    <2> HIDE DEF v
    <2>2. \A i \in DOMAIN v : i = 1 \/ (i - 1 \in DOMAIN u /\ v[i] = u[i - 1])
      BY <2>1
    <2> QED BY <2>1, <2>2
  <1> HIDE DEF v
  <1>9. Sound(<<Fill>> \o v, m)
    <2>1. \A i \in DOMAIN v : Before(Fill, v[i])
      BY <1>2, <1>3, <1>4, <1>6, <1>8
    <2> QED BY <1>2, <1>7, <1>8, <2>1, ConsSound DEF Making
  <1>10. m = "get_engine_info" => Sound(<<Fill>> \o u, m)
    <2>1. \A i \in DOMAIN u : Before(Fill, u[i])
      BY <1>2, <1>3, <1>4, <1>6
    <2> QED BY <1>2, <1>5, <1>6, <2>1, ConsSound DEF Making
  <1>11. /\ <<Fill, Look, Store>> \o s = <<Fill>> \o v
         /\ <<Fill, Store>> \o s = <<Fill>> \o u
         /\ <<>> \o s = s
    <2>1. <<Fill, Look, Store>> \o s = <<Fill>> \o (<<Look>> \o (<<Store>> \o s))
      BY <1>1, <1>2, ConsThree
    <2>3. <<Fill, Store>> \o s = <<Fill>> \o (<<Store>> \o s)
      BY <1>1, <1>2, ConsTwo
    <2>2. <<>> \o s = s
      BY <1>1, ConcatEmptySeq
    <2> QED BY <2>1, <2>2, <2>3 DEF u, v
  <1>12. s[1].what \in Results /\ (m # "get_engine_info" => s[1].what # "engines")
    <2>1. 1 \in DOMAIN s
      BY <1>1, Elements
    <2> QED BY <1>1, <2>1, StatementsOf DEF Sound, Allowed
  <1>13. CASE s[1].what \in {"genkey", "key"}
    <2>1. Builder[s[1].what] = <<>>
      BY <1>13 DEF Builder
    <2> QED BY <1>11, <2>1
  <1>14. CASE s[1].what = "engines"
    <2>1. Builder[s[1].what] = <<Fill, Store>>
      BY <1>14 DEF Builder
    <2> QED BY <1>10, <1>11, <1>12, <1>14, <2>1, Zenon
  <1>15. CASE s[1].what \in {"newsigs", "sigs", "imports"}
    <2>1. Builder[s[1].what] = <<Fill, Look, Store>>
      BY <1>15 DEF Builder
    <2> QED BY <1>9, <1>11, <2>1, Zenon
  <1> QED BY <1>12, <1>13, <1>14, <1>15 DEF Results

-----------------------------------------------------------------------------
(* The methods.                                                            *)

\* The list u clears what the first i - 1 of the statements a acquire, and
\* the array of statement i; it frees nothing else, unless it is NULL at first.
Clears(u, a, i, nulls) ==
    /\ u \in Seq(Statements)
    /\ \A k \in DOMAIN u :
        /\ u[k].op = "free"
        /\ \A l \in DOMAIN u : k < l => u[k].what # u[l].what
        /\ \/ u[k].what \in nulls
           \/ \E j \in DOMAIN a : /\ j < i /\ a[j].op \in Acquiring
                                  /\ a[j].what = u[k].what
    /\ \A j \in DOMAIN a :
           j < i /\ a[j].op \in Acquiring =>
             \E k \in DOMAIN u : u[k].what = a[j].what
    /\ a[i].op = "borrow" => \E k \in DOMAIN u : u[k].what = "keys"

\* The statements a acquire what the statements c free, and undo[i] clears
\* what has been acquired where a[i] fails.
Acquires(a, undo, nulls, c) ==
    \A i \in DOMAIN a :
        /\ a[i].op \in Acquiring \cup {"warn"}
        /\ a[i].op \in {"borrow", "fast_or_none"} => a[i].what \in nulls
        /\ a[i].op \in Acquiring =>
            /\ \E k \in DOMAIN c : c[k].op = "free" /\ c[k].what = a[i].what
            /\ i \in DOMAIN undo /\ Clears(undo[i], a, i, nulls)

\* The statements c check the operation and free what a has acquired.
Completes(c, a) ==
    /\ \E k \in DOMAIN c : c[k] = Check
    /\ \A k \in DOMAIN c :
        /\ c[k].op \in Discards \cup {"check", "convert", "annotate", "free"}
        /\ c[k].op = "convert" /\ Later(c, k, {"check"}, {"none"}) =>
               Later(c, k, Discards, {"result"})
        /\ c[k].op = "free" =>
               \E i \in DOMAIN a : a[i].op \in Acquiring /\ a[i].what = c[k].what

InOrder(s) ==
    /\ s \in Seq(Statements)
    /\ \A i, j \in DOMAIN s : i < j => Before(s[i], s[j])

\* Method m acquires with the statements a, runs the operation, and does c.
Regular(m, a, c) ==
    /\ Method[m].script = a \o Operation \o c
    /\ InOrder(a) /\ InOrder(c)
    /\ Acquires(a, Method[m].undo, Method[m].nulls, c)
    /\ Completes(c, a)
    /\ Allowed(c, m)
    /\ \A i \in DOMAIN a : MayAcquire(a[i].op, m)

\* The operation is a list of three statements.
LEMMA Operating ==
    /\ Operation \in Seq(Statements) /\ Len(Operation) = 3
    /\ Operation[1] = Begin /\ Operation[2] = Operate /\ Operation[3] = End
    /\ Begin.op = "begin" /\ Operate.op = "operate" /\ End.op = "end"
    /\ Begin.what = "none" /\ Operate.what = "none" /\ End.what = "none"
    /\ Check.op = "check" /\ Check.what = "none"
    /\ OperateKey.op = "operate" /\ OperateKey.what = "key" /\ Operate # OperateKey
    /\ Free("key").op = "free" /\ Free("key").what = "key"
  BY DEF Operation, Statements, Begin, Operate, OperateKey, End, Check, Free,
     Statement

\* The phases there are.
LEMMA Phases ==
    ASSUME NEW op
    PROVE  /\ Phase(op) \in 0 .. 4
           /\ Phase(op) = 0 <=> op \in Acquiring \cup {"warn"}
           /\ op = "begin" => Phase(op) = 1
           /\ op = "operate" => Phase(op) = 2
           /\ op = "end" => Phase(op) = 3
           /\ op \in Making \cup Discards \cup {"check", "convert", "free", "annotate"} => Phase(op) = 4
  BY DEF Phase, Acquiring, Making, Discards

\* The statement of an earlier phase comes first.
LEMMA EarlierBefore ==
    ASSUME NEW a, NEW b, Phase(a.op) < Phase(b.op), b.op \notin Making
    PROVE  Before(a, b)
  <1>1. /\ Phase(a.op) \in 0 .. 4 /\ Phase(b.op) \in 0 .. 4
        /\ Phase(a.op) # 4 /\ Phase(b.op) # 0
    BY Phases
  <1>2. a.op # b.op
    BY <1>1
  <1>3. a.op \notin Discards \cup {"free"} /\ b.op \notin Acquiring
    BY <1>1, Phases
  <1>4. b.op \notin {"fast", "fast_or_none"}
    BY <1>3 DEF Acquiring
  <1> QED BY <1>1, <1>2, <1>3, <1>4 DEF Before

\* Where the statements of a regular method are.
LEMMA Places ==
    ASSUME NEW a \in Seq(Statements), NEW c \in Seq(Statements)
    PROVE  LET s == a \o Operation \o c
               p == Len(a)
           IN  /\ s \in Seq(Statements)
               /\ p \in Nat /\ DOMAIN a = 1 .. p
               /\ Len(c) \in Nat /\ DOMAIN c = 1 .. Len(c)
               /\ DOMAIN s = 1 .. (p + 3 + Len(c)) /\ Len(s) = p + 3 + Len(c)
               /\ \A i \in DOMAIN a : i \in DOMAIN s /\ s[i] = a[i]
               /\ s[p + 1] = Begin /\ s[p + 2] = Operate /\ s[p + 3] = End
               /\ \A k \in DOMAIN c : p + 3 + k \in DOMAIN s /\ s[p + 3 + k] = c[k]
  <1> DEFINE b == a \o Operation  s == b \o c  p == Len(a)
  <1>1. /\ p \in Nat /\ DOMAIN a = 1 .. p
        /\ Len(c) \in Nat /\ DOMAIN c = 1 .. Len(c)
    BY LenProperties
  <1>2. /\ b \in Seq(Statements) /\ Len(b) = p + 3
        /\ \A i \in 1 .. (p + 3) : b[i] = IF i <= p THEN a[i] ELSE Operation[i - p]
    <2>1. Operation \in Seq(Statements) /\ Len(Operation) = 3
      BY Operating
    <2>2. /\ b \in Seq(Statements) /\ Len(b) = p + Len(Operation)
          /\ \A i \in 1 .. p + Len(Operation) :
               b[i] = IF i <= p THEN a[i] ELSE Operation[i - p]
      BY <2>1, ConcatProperties
    <2> HIDE DEF b, p
    <2> QED BY <2>1, <2>2
  <1> HIDE DEF b, p
  <1>3. /\ s \in Seq(Statements) /\ Len(s) = p + 3 + Len(c)
        /\ \A i \in 1 .. (p + 3 + Len(c)) :
             s[i] = IF i <= p + 3 THEN b[i] ELSE c[i - (p + 3)]
    <2>1. /\ s \in Seq(Statements) /\ Len(s) = Len(b) + Len(c)
          /\ \A i \in 1 .. Len(b) + Len(c) :
               s[i] = IF i <= Len(b) THEN b[i] ELSE c[i - Len(b)]
      BY <1>2, ConcatProperties
    <2> HIDE DEF s
    <2> QED BY <1>2, <2>1
  <1>4. DOMAIN s = 1 .. (p + 3 + Len(c))
    BY <1>3, LenProperties
  <1> HIDE DEF s
  <1>5. \A i \in DOMAIN a : i \in DOMAIN s /\ s[i] = a[i]
    BY <1>1, <1>2, <1>3, <1>4
  <1>6. s[p + 1] = Begin /\ s[p + 2] = Operate /\ s[p + 3] = End
    <2>1. s[p + 1] = b[p + 1] /\ s[p + 2] = b[p + 2] /\ s[p + 3] = b[p + 3]
      BY <1>1, <1>3
    <2>2. b[p + 1] = Operation[1] /\ b[p + 2] = Operation[2]
            /\ b[p + 3] = Operation[3]
      BY <1>1, <1>2
    <2> QED BY <2>1, <2>2, Operating
  <1>7. \A k \in DOMAIN c : p + 3 + k \in DOMAIN s /\ s[p + 3 + k] = c[k]
    <2> TAKE k \in DOMAIN c
    <2>1. /\ p + 3 + k \in 1 .. (p + 3 + Len(c)) /\ ~ (p + 3 + k <= p + 3)
          /\ (p + 3 + k) - (p + 3) = k
      BY <1>1
    <2> QED BY <1>3, <1>4, <2>1
  <1> QED BY <1>1, <1>3, <1>4, <1>5, <1>6, <1>7 DEF b, s, p

\* A list that only frees is in order if it frees nothing twice.
LEMMA FreesSound ==
    ASSUME NEW m, NEW u \in Seq(Statements),
           \A k \in DOMAIN u : u[k].op = "free",
           \A k, l \in DOMAIN u : k < l => u[k].what # u[l].what
    PROVE  Sound(u, m)
  <1>1. \A i, j \in DOMAIN u : i < j => Before(u[i], u[j])
    BY Phases DEF Before, Acquiring, Making, Discards
  <1>2. \A i \in DOMAIN u :
          u[i] # OperateKey /\ u[i].op \notin Acquiring /\ Phase(u[i].op) = 4
    BY Operating, Phases DEF Acquiring
  <1> QED BY <1>1, <1>2 DEF Sound, Orderly, Allowed

\* What a regular method runs is in order, and it undoes what it has done.
LEMMA RegularSane ==
    ASSUME NEW m, NEW a, NEW c, Regular(m, a, c)
    PROVE  Sane(m)
  <1> DEFINE s == Method[m].script  p == Len(a)  nulls == Method[m].nulls
  <1>1. /\ s \in Seq(Statements)
        /\ p \in Nat /\ DOMAIN a = 1 .. p
        /\ Len(c) \in Nat /\ DOMAIN c = 1 .. Len(c)
        /\ DOMAIN s = 1 .. (p + 3 + Len(c)) /\ Len(s) = p + 3 + Len(c)
        /\ \A i \in DOMAIN a : i \in DOMAIN s /\ s[i] = a[i]
        /\ s[p + 1] = Begin /\ s[p + 2] = Operate /\ s[p + 3] = End
        /\ \A k \in DOMAIN c : p + 3 + k \in DOMAIN s /\ s[p + 3 + k] = c[k]
    <2>1. s = a \o Operation \o c /\ a \in Seq(Statements) /\ c \in Seq(Statements)
      BY DEF Regular, InOrder, Acquires, Completes
    <2> HIDE DEF s
    <2> QED BY <2>1, Places
  <1> HIDE DEF s, p
  <1>2. ASSUME NEW i \in DOMAIN s
        PROVE  \/ i \in DOMAIN a /\ s[i] = a[i] /\ i <= p
               \/ i = p + 1 /\ s[i] = Begin
               \/ i = p + 2 /\ s[i] = Operate
               \/ i = p + 3 /\ s[i] = End
               \/ \E k \in DOMAIN c : i = p + 3 + k /\ s[i] = c[k]
    <2>1. CASE i > p + 3
      <3>1. i - (p + 3) \in DOMAIN c /\ i = p + 3 + (i - (p + 3))
        BY <1>1, <2>1
      <3> QED BY <1>1, <3>1
    <2> QED BY <1>1, <2>1
  <1>3. \A i \in DOMAIN s : i > p + 3 =>
          \E k \in DOMAIN c : i = p + 3 + k /\ s[i] = c[k]
    <2> TAKE i \in DOMAIN s
    <2> HAVE i > p + 3
    <2>1. i - (p + 3) \in DOMAIN c /\ i = p + 3 + (i - (p + 3))
      BY <1>1
    <2> QED BY <1>1, <2>1
  <1>4. /\ p + 1 \in DOMAIN s /\ p + 2 \in DOMAIN s /\ p + 3 \in DOMAIN s
    BY <1>1
  <1>5. /\ \A i \in DOMAIN a : Phase(a[i].op) = 0 /\ a[i].op \notin Making
        /\ Phase(Begin.op) = 1 /\ Phase(Operate.op) = 2 /\ Phase(End.op) = 3
        /\ {Begin.op, Operate.op, End.op} \cap (Making \cup Acquiring) = {}
        /\ \A k \in DOMAIN c :
             Phase(c[k].op) = 4 /\ c[k].op \notin Making \cup Acquiring
    <2>1. \A i \in DOMAIN a : a[i].op \in Acquiring \cup {"warn"}
      BY DEF Regular, InOrder, Acquires, Completes
    <2>2. \A i \in DOMAIN a : Phase(a[i].op) = 0 /\ a[i].op \notin Making
      BY <2>1, Phases DEF Making, Acquiring
    <2>3. /\ Phase(Begin.op) = 1 /\ Phase(Operate.op) = 2 /\ Phase(End.op) = 3
          /\ {Begin.op, Operate.op, End.op} \cap (Making \cup Acquiring) = {}
      BY Phases, Operating DEF Making, Acquiring
    <2>4. \A k \in DOMAIN c : Phase(c[k].op) = 4 /\ c[k].op \notin Making
      BY Phases DEF Regular, Completes, Discards, Making
    <2>5. \A k \in DOMAIN c : c[k].op \notin Acquiring
      BY <2>4, Phases
    <2> QED BY <2>2, <2>3, <2>4, <2>5
  <1>6. \A i \in DOMAIN s : s[i].op \notin Making
    BY <1>2, <1>5
  <1>7. ASSUME NEW i \in DOMAIN s, NEW j \in DOMAIN s, i < j
        PROVE  Before(s[i], s[j])
    <2>1. CASE i \in DOMAIN a /\ j \in DOMAIN a
      BY <1>1, <1>7, <2>1 DEF Regular, InOrder, Acquires, Completes
    <2>2. CASE i > p + 3
      <3> PICK k \in DOMAIN c : i = p + 3 + k /\ s[i] = c[k]
        BY <1>3, <2>2
      <3>0. j > p + 3
        BY <1>1, <1>7, <2>2
      <3> PICK l \in DOMAIN c : j = p + 3 + l /\ s[j] = c[l]
        BY <1>3, <3>0
      <3>1. k < l
        BY <1>1, <1>7
      <3> QED BY <3>1 DEF Regular, InOrder, Acquires, Completes
    <2>3. CASE i <= p + 3 /\ ~ (i \in DOMAIN a /\ j \in DOMAIN a)
      <3>1. Phase(s[i].op) < Phase(s[j].op)
        <4>1. CASE i \in DOMAIN a
          <5>1. Phase(s[i].op) = 0
            BY <1>1, <1>5, <4>1
          <5>2. Phase(s[j].op) > 0
            BY <1>2, <1>5, <2>3, <4>1
          <5> QED BY <5>1, <5>2
        <4>2. CASE i \notin DOMAIN a
          <5>1. i \in {p + 1, p + 2, p + 3} /\ j > i
            BY <1>1, <1>7, <2>3, <4>2
          <5>2. j \in {p + 2, p + 3} \/ \E k \in DOMAIN c : s[j] = c[k]
            BY <1>1, <1>2, <1>7, <4>2
          <5>3. Phase(s[i].op) \in {1, 2, 3} /\ (i = p + 1 => Phase(s[i].op) = 1)
            BY <1>1, <1>5, <5>1
          <5>4. CASE \E k \in DOMAIN c : s[j] = c[k]
            BY <1>5, <5>3, <5>4
          <5>5. CASE j = p + 2
            BY <1>1, <1>5, <5>1, <5>3, <5>5
          <5>6. CASE j = p + 3
            BY <1>1, <1>5, <5>1, <5>6
          <5> QED BY <5>2, <5>4, <5>5, <5>6
        <4> QED BY <4>1, <4>2
      <3> QED BY <1>6, <3>1, EarlierBefore
    <2> QED BY <1>1, <2>1, <2>2, <2>3
  <1>8. Later(s, p + 2, {"check"}, {"none"})
    <2> PICK k \in DOMAIN c : c[k] = Check
      BY DEF Regular, InOrder, Acquires, Completes
    <2> QED BY <1>1, Operating DEF Later
  <1>9. \A i \in DOMAIN a : Later(s, i, {"operate"}, {"none", "key"})
    BY <1>1, <1>4, Operating DEF Later
  <1>10. ASSUME NEW i \in DOMAIN a, a[i].op \in Acquiring
        PROVE  Later(s, i, {"free"}, {s[i].what})
    <2> PICK k \in DOMAIN c : c[k].op = "free" /\ c[k].what = a[i].what
      BY <1>10 DEF Regular, InOrder, Acquires, Completes
    <2>1. p + 3 + k > i
      BY <1>1
    <2> QED BY <1>1, <2>1 DEF Later
  <1>11. ASSUME NEW k \in DOMAIN c, c[k].op = "convert",
                Later(s, p + 3 + k, {"check"}, {"none"})
         PROVE  Later(s, p + 3 + k, Discards, {"result"})
    <2>1. PICK j \in DOMAIN s :
                 j > p + 3 + k /\ s[j].op \in {"check"} /\ s[j].what \in {"none"}
      BY <1>11 DEF Later
    <2>2. PICK l \in DOMAIN c : j = p + 3 + l /\ s[j] = c[l]
      BY <1>1, <1>2, <2>1
    <2>3. Later(c, k, {"check"}, {"none"})
      BY <1>1, <2>1, <2>2 DEF Later
    <2>4. PICK n \in DOMAIN c :
                 n > k /\ c[n].op \in Discards /\ c[n].what \in {"result"}
      BY <1>11, <2>3 DEF Regular, InOrder, Acquires, Completes, Later
    <2>5. p + 3 + n > p + 3 + k
      BY <1>1, <2>4
    <2> QED BY <1>1, <2>4, <2>5 DEF Later
  <1>12. ASSUME NEW i \in DOMAIN s
         PROVE  /\ Phase(s[i].op) < 2 => Later(s, i, {"operate"}, {"none", "key"})
                /\ s[i].op = "begin"   => Follows(s, i, {"operate"})
                /\ s[i].op = "operate" => Follows(s, i, {"end"})
                /\ s[i].op \notin {"fill", "look", "store"}
                /\ s[i].op \in Acquiring \/ s[i] = OperateKey =>
                       Later(s, i, {"free"}, {s[i].what})
                /\ s[i].op = "operate" => Later(s, i, {"check"}, {"none"})
                /\ s[i].op = "convert" /\ Later(s, i, {"check"}, {"none"}) =>
                       Later(s, i, Discards, {"result"})
    <2>1. CASE i \in DOMAIN a /\ s[i] = a[i]
      <3>1. a[i].op \notin {"begin", "operate", "convert", "fill", "look", "store"}
        BY <1>5, <2>1, Phases DEF Making
      <3> QED BY <1>9, <1>10, <2>1, <3>1, Operating
    <2>2. CASE i = p + 1 /\ s[i] = Begin
      <3>1. Follows(s, i, {"operate"}) /\ Later(s, i, {"operate"}, {"none", "key"})
        BY <1>1, <1>4, <2>2, Operating DEF Follows, Later
      <3> QED BY <1>5, <2>2, <3>1, Operating
    <2>3. CASE i = p + 2 /\ s[i] = Operate
      <3>1. Follows(s, i, {"end"})
        BY <1>1, <1>4, <2>3, Operating DEF Follows
      <3> QED BY <1>5, <1>8, <2>3, <3>1, Operating
    <2>4. CASE i = p + 3 /\ s[i] = End
      BY <1>5, <2>4, Operating
    <2>5. CASE \E k \in DOMAIN c : i = p + 3 + k /\ s[i] = c[k]
      <3> PICK k \in DOMAIN c : i = p + 3 + k /\ s[i] = c[k]
        BY <2>5
      <3>1. c[k].op \notin {"begin", "operate", "fill", "look", "store"}
        BY <1>5, Phases DEF Making
      <3> QED BY <1>5, <1>11, <3>1, Operating
    <2> QED BY <1>2, <2>1, <2>2, <2>3, <2>4, <2>5
  <1>13. Allowed(s, m)
    <2>1. ASSUME NEW i \in DOMAIN s,
                 s[i].op \in {"discard_if_gpgme", "convert", "items"}
          PROVE  \E k \in DOMAIN c : s[i] = c[k]
      <3>1. Phase(s[i].op) = 4
        BY <2>1, Phases DEF Making, Discards
      <3> QED BY <1>2, <1>5, <3>1
    <2> QED BY <1>6, <2>1 DEF Regular, InOrder, Acquires, Completes, Allowed, Making
  <1>14. Sound(s, m)
    BY <1>1, <1>7, <1>12, <1>13 DEF Sound, Orderly
  <1>15. \A i \in DOMAIN s : s[i].op \in Acquiring => i \in DOMAIN a
    BY <1>2, <1>5
  <1>16. ASSUME NEW n, NEW x
         PROVE  x \in Acquired(s, n) <=>
                    \E j \in DOMAIN a :
                      j < n /\ a[j].op \in Acquiring /\ a[j].what = x
    BY <1>1, <1>15 DEF Acquired
  <1>17. ASSUME NEW i \in DOMAIN s, s[i].op \in Acquiring
         PROVE  i \in DOMAIN Method[m].undo /\ Undoes(Method[m].undo[i], m, i)
    <2> DEFINE u == Method[m].undo[i]
    <2>1. /\ i \in DOMAIN a /\ s[i] = a[i]
          /\ i \in DOMAIN Method[m].undo /\ Clears(u, a, i, nulls)
      BY <1>1, <1>15, <1>17 DEF Regular, InOrder, Acquires, Completes
    <2> HIDE DEF u
    <2>2. Sound(u, m) /\ \A k \in DOMAIN u : u[k].op = "free"
      BY <2>1, FreesSound DEF Clears
    <2>3. Acquired(s, i) \subseteq Frees(u)
      BY <1>16, <2>1 DEF Clears, Frees
    <2>4. Frees(u) \subseteq Acquired(s, i) \cup nulls
      BY <1>16, <2>1 DEF Clears, Frees
    <2>5. s[i].op = "borrow" => "keys" \in Frees(u)
      BY <2>1 DEF Clears, Frees
    <2> QED BY <2>1, <2>2, <2>3, <2>4, <2>5 DEF Undoes, s, u
  <1>18. ASSUME NEW i \in DOMAIN s, s[i].op = "free"
         PROVE  /\ s[i].what \in Acquired(s, i)
                /\ \E j \in DOMAIN s : j < i /\ s[j].op = "operate"
                /\ s[i].what # "key"
    <2>1. PICK k \in DOMAIN c : i = p + 3 + k /\ s[i] = c[k]
      <3>1. Phase(s[i].op) = 4
        BY <1>18, Phases
      <3> QED BY <1>2, <1>5, <3>1
    <2>2. PICK j \in DOMAIN a : a[j].op \in Acquiring /\ a[j].what = s[i].what
      BY <1>18, <2>1 DEF Regular, InOrder, Acquires, Completes
    <2>3. j < i /\ p + 2 < i
      BY <1>1, <2>1
    <2>4. s[j] \in Statements
      BY <1>1
    <2>5. s[i].what # "key"
      BY <1>1, <2>2, <2>4, StatementsOf
    <2> QED BY <1>1, <1>4, <1>16, <2>2, <2>3, <2>5, Operating
  <1>19. \A i \in DOMAIN s : s[i].op \in {"borrow", "fast_or_none"} =>
           s[i].what \in nulls
    <2> TAKE i \in DOMAIN s
    <2>1. s[i].op \in {"borrow", "fast_or_none"} => i \in DOMAIN a /\ s[i] = a[i]
      BY <1>1, <1>15 DEF Acquiring
    <2> QED BY <2>1 DEF Regular, Acquires
  <1>20. \A i \in DOMAIN s : s[i] = Free("key") =>
           s[i].op = "free" /\ s[i].what = "key"
    BY Operating
  <1>21. ASSUME NEW i \in DOMAIN s
         PROVE  MayAcquire(s[i].op, m)
    <2>1. CASE Phase(s[i].op) = 0
      <3>1. i \in DOMAIN a /\ s[i] = a[i]
        BY <1>2, <1>5, <2>1
      <3> QED BY <3>1 DEF Regular
    <2>2. CASE Phase(s[i].op) # 0
      BY <2>2, Phases DEF MayAcquire, Acquiring
    <2> QED BY <2>1, <2>2
  <1> QED BY <1>6, <1>14, <1>17, <1>18, <1>19, <1>20, <1>21 DEF Sane, s

\* The statements there are.
LEMMA StatementsAre ==
    /\ \A f \in Files : Open(f) \in Statements
    /\ Parse \in Statements /\ Fast \in Statements /\ FastOrNone \in Statements
    /\ Borrow \in Statements /\ Warn \in Statements /\ Check \in Statements
    /\ Discard \in Statements /\ DiscardIfGpgme \in Statements
    /\ \A b \in Results : Convert(b) \in Statements
    /\ \A b \in {"pairs", "values", "newsigs", "sigs"} : Annotate(b) \in Statements
    /\ \A r \in Resources \ {"result"} : Free(r) \in Statements
  BY DEF Statements

\* What the methods that sign do with their result.
LEMMA SignResults ==
    /\ SignResult(<<>>) =
           <<Check, Annotate("pairs"), Annotate("newsigs"), Convert("newsigs")>>
    /\ SignResult(<<Annotate("pairs")>>) =
           <<Check, Annotate("pairs"), Annotate("pairs"), Annotate("newsigs"),
             Convert("newsigs")>>
  <1> DEFINE h == <<Check>>  p == <<Annotate("pairs")>>
             r == <<Annotate("pairs"), Annotate("newsigs"), Convert("newsigs")>>
             v == <<Check, Annotate("pairs")>>
             w == <<Check, Annotate("pairs"), Annotate("newsigs"),
                    Convert("newsigs")>>
             x == <<Check, Annotate("pairs"), Annotate("pairs"),
                    Annotate("newsigs"), Convert("newsigs")>>
  <1>1. /\ h \in Seq(Statements) /\ p \in Seq(Statements) /\ r \in Seq(Statements)
        /\ v \in Seq(Statements) /\ w \in Seq(Statements) /\ x \in Seq(Statements)
    BY StatementsAre DEF Results
  <1>2. /\ Len(h) = 1 /\ Len(p) = 1 /\ Len(r) = 3 /\ Len(v) = 2
        /\ Len(w) = 4 /\ Len(x) = 5
    OBVIOUS
  <1>3. /\ w[1] = h[1] /\ \A i \in 1 .. 3 : w[1 + i] = r[i]
        /\ v[1] = h[1] /\ v[2] = p[1]
    OBVIOUS
  <1>4. /\ \A i \in 1 .. 2 : x[i] = v[i]
        /\ \A i \in 1 .. 3 : x[2 + i] = r[i]
    OBVIOUS
  <1>5. /\ SignResult(<<>>) = h \o <<>> \o r
        /\ SignResult(p) = h \o p \o r
    BY DEF SignResult
  <1> HIDE DEF h, p, r, v, w, x
  <1>6. h \o <<>> = h
    BY <1>1, ConcatEmptySeq
  <1>7. h \o r = w
    <2>1. h \in Seq(Statements) /\ r \in Seq(Statements) /\ w \in Seq(Statements)
      BY <1>1
    <2>2. /\ Len(w) = Len(h) + Len(r)
          /\ \A i \in 1 .. Len(h) : w[i] = h[i]
          /\ \A i \in 1 .. Len(r) : w[Len(h) + i] = r[i]
      BY <1>2, <1>3
    <2> QED BY <2>1, <2>2, ConcatIs
  <1>8. h \o p = v
    <2>1. h \in Seq(Statements) /\ p \in Seq(Statements) /\ v \in Seq(Statements)
      BY <1>1
    <2>2. /\ Len(v) = Len(h) + Len(p)
          /\ \A i \in 1 .. Len(h) : v[i] = h[i]
          /\ \A i \in 1 .. Len(p) : v[Len(h) + i] = p[i]
      BY <1>2, <1>3
    <2> QED BY <2>1, <2>2, ConcatIs
  <1>9. v \o r = x
    <2>1. v \in Seq(Statements) /\ r \in Seq(Statements) /\ x \in Seq(Statements)
      BY <1>1
    <2>2. /\ Len(x) = Len(v) + Len(r)
          /\ \A i \in 1 .. Len(v) : x[i] = v[i]
          /\ \A i \in 1 .. Len(r) : x[Len(v) + i] = r[i]
      BY <1>2, <1>4
    <2> QED BY <2>1, <2>2, ConcatIs
  <1> QED BY <1>5, <1>6, <1>7, <1>8, <1>9 DEF w, x, p

\* Context.encrypt: its statements are in order, its failures undo them.
LEMMA EncryptSane == Sane("encrypt")
  <1> DEFINE a == <<FastOrNone, Borrow, Open("plain"), Open("cipher")>>
             c == <<Check, Annotate("pairs"), Free("keys"), Free("seq"),
                    Free("plain"), Free("cipher")>>
             u == <<Free("keys"), Free("seq"), Free("plain"), Free("cipher")>>
             v == [n \in 1 .. 4 |-> u]
  <1>1. Method["encrypt"] = Encrypt
    BY DEF Method
  <1>2. Method["encrypt"].undo = v /\ Method["encrypt"].nulls = Resources
    BY <1>1 DEF Encrypt, WithCleanup
  <1>3. Method["encrypt"].script = a \o Operation \o c
    <2> DEFINE d == <<Check, Annotate("pairs")>>
    <2>2. /\ a \in Seq(Statements) /\ c \in Seq(Statements)
          /\ d \in Seq(Statements) /\ u \in Seq(Statements)
      BY StatementsAre DEF Files, Resources, Results
    <2>3. /\ Len(c) = Len(d) + Len(u)
          /\ \A i \in 1 .. Len(d) : c[i] = d[i]
          /\ \A i \in 1 .. Len(u) : c[Len(d) + i] = u[i]
      OBVIOUS
    <2>4. Method["encrypt"].script = a \o Operation \o d \o u
      BY <1>1 DEF Encrypt, WithCleanup
    <2> HIDE DEF a, c, d, u
    <2>5. d \o u = c
      BY <2>2, <2>3, ConcatIs
    <2> DEFINE e == a \o Operation
    <2>6. e \in Seq(Statements)
      BY <2>2, Operating, ConcatProperties
    <2> HIDE DEF e
    <2>7. (e \o d) \o u = e \o (d \o u)
      <3>1. d \in Seq(Statements) /\ u \in Seq(Statements)
        BY <2>2
      <3> QED BY <2>6, <3>1, ConcatAssociative
    <2> QED BY <2>4, <2>5, <2>7 DEF e
  <1>4. a \in Seq(Statements) /\ c \in Seq(Statements)
    BY StatementsAre DEF Files, Resources, Results
  <1>5. DOMAIN a = 1 .. 4 /\ DOMAIN c = 1 .. 6
    OBVIOUS
  <1> USE DEF Annotate, Borrow, Check, FastOrNone, Free, Open, Statement
  <1>6. InOrder(a)
    BY <1>4, <1>5 DEF InOrder, Before, Phase, Acquiring, Making, Discards
  <1>7. InOrder(c)
    BY <1>4, <1>5, SMTT(30) DEF InOrder, Before, Phase, Acquiring, Making, Discards
  <1>8. Completes(c, a)
    BY <1>5, SMTT(30) DEF Completes, Later, Acquiring, Discards
  <1>9. Allowed(c, "encrypt")
    BY <1>5 DEF Allowed
  <1>10. ASSUME NEW i \in DOMAIN a
         PROVE  Clears(u, a, i, Resources)
    <2>1. u \in Seq(Statements) /\ DOMAIN u = 1 .. 4
      BY StatementsAre DEF Files, Resources, Results
    <2>2. \A k \in DOMAIN u : u[k].what \in Resources
      BY <2>1 DEF Files, Resources
    <2> QED BY <1>5, <2>1, <2>2 DEF Clears, Acquiring
  <1>11. Acquires(a, v, Resources, c)
    <2>1. \A i \in DOMAIN a : i \in DOMAIN v /\ v[i] = u
      BY <1>5
    <2>2. ASSUME NEW i \in DOMAIN a
          PROVE  /\ a[i].op \in Acquiring
                 /\ a[i].what \in Resources
                 /\ \E k \in DOMAIN c : c[k].op = "free" /\ c[k].what = a[i].what
      BY <1>5 DEF Acquiring, Files, Resources
    <2> HIDE DEF u, v
    <2> QED BY <1>10, <2>1, <2>2 DEF Acquires
  <1>12. \A i \in DOMAIN a : MayAcquire(a[i].op, "encrypt")
    BY <1>5 DEF MayAcquire
  <1> HIDE DEF a, c, v
  <1> QED BY <1>2, <1>3, <1>6, <1>7, <1>8, <1>9, <1>11, <1>12, RegularSane
      DEF Regular

\* Context.encrypt_sign: its statements are in order, its failures undo them.
LEMMA EncryptSignSane == Sane("encrypt_sign")
  <1> DEFINE a == <<Fast, Borrow, Open("plain"), Open("cipher")>>
             c == <<Check, Annotate("pairs"), Annotate("pairs"),
                    Annotate("newsigs"), Convert("newsigs"), Free("keys"),
                    Free("seq"), Free("plain"), Free("cipher")>>
             u == <<Free("keys"), Free("seq"), Free("plain"), Free("cipher")>>
             v == [n \in 1 .. 4 |-> u]
  <1>1. Method["encrypt_sign"] = EncryptSign
    BY DEF Method
  <1>2. Method["encrypt_sign"].undo = v /\ Method["encrypt_sign"].nulls = Resources
    BY <1>1 DEF EncryptSign, WithCleanup
  <1>3. Method["encrypt_sign"].script = a \o Operation \o c
    <2> DEFINE d == <<Check, Annotate("pairs"), Annotate("pairs"),
                      Annotate("newsigs"), Convert("newsigs")>>
    <2>1. SignResult(<<Annotate("pairs")>>) = d
      BY SignResults
    <2>2. /\ a \in Seq(Statements) /\ c \in Seq(Statements)
          /\ d \in Seq(Statements) /\ u \in Seq(Statements)
      BY StatementsAre DEF Files, Resources, Results
    <2>3. /\ Len(c) = Len(d) + Len(u)
          /\ \A i \in 1 .. Len(d) : c[i] = d[i]
          /\ \A i \in 1 .. Len(u) : c[Len(d) + i] = u[i]
      OBVIOUS
    <2>4. Method["encrypt_sign"].script = a \o Operation \o SignResult(<<Annotate("pairs")>>) \o u
      BY <1>1 DEF EncryptSign, WithCleanup
    <2> HIDE DEF a, c, d, u
    <2>5. d \o u = c
      BY <2>2, <2>3, ConcatIs
    <2> DEFINE e == a \o Operation
    <2>6. e \in Seq(Statements)
      BY <2>2, Operating, ConcatProperties
    <2> HIDE DEF e
    <2>7. (e \o d) \o u = e \o (d \o u)
      <3>1. d \in Seq(Statements) /\ u \in Seq(Statements)
        BY <2>2
      <3> QED BY <2>6, <3>1, ConcatAssociative
    <2> QED BY <2>1, <2>4, <2>5, <2>7 DEF e
  <1>4. a \in Seq(Statements) /\ c \in Seq(Statements)
    BY StatementsAre DEF Files, Resources, Results
  <1>5. DOMAIN a = 1 .. 4 /\ DOMAIN c = 1 .. 9
    OBVIOUS
  <1> USE DEF Annotate, Borrow, Check, Convert, Fast, Free, Open, Statement
  <1>6. InOrder(a)
    BY <1>4, <1>5 DEF InOrder, Before, Phase, Acquiring, Making, Discards
  <1>7. InOrder(c)
    BY <1>4, <1>5, SMTT(30) DEF InOrder, Before, Phase, Acquiring, Making, Discards
  <1>8. Completes(c, a)
    BY <1>5, SMTT(30) DEF Completes, Later, Acquiring, Discards
  <1>9. Allowed(c, "encrypt_sign")
    BY <1>5 DEF Allowed
  <1>10. ASSUME NEW i \in DOMAIN a
         PROVE  Clears(u, a, i, Resources)
    <2>1. u \in Seq(Statements) /\ DOMAIN u = 1 .. 4
      BY StatementsAre DEF Files, Resources, Results
    <2>2. \A k \in DOMAIN u : u[k].what \in Resources
      BY <2>1 DEF Files, Resources
    <2> QED BY <1>5, <2>1, <2>2 DEF Clears, Acquiring
  <1>11. Acquires(a, v, Resources, c)
    <2>1. \A i \in DOMAIN a : i \in DOMAIN v /\ v[i] = u
      BY <1>5
    <2>2. ASSUME NEW i \in DOMAIN a
          PROVE  /\ a[i].op \in Acquiring
                 /\ a[i].what \in Resources
                 /\ \E k \in DOMAIN c : c[k].op = "free" /\ c[k].what = a[i].what
      BY <1>5 DEF Acquiring, Files, Resources
    <2> HIDE DEF u, v
    <2> QED BY <1>10, <2>1, <2>2 DEF Acquires
  <1>12. \A i \in DOMAIN a : MayAcquire(a[i].op, "encrypt_sign")
    BY <1>5 DEF MayAcquire
  <1> HIDE DEF a, c, v
  <1> QED BY <1>2, <1>3, <1>6, <1>7, <1>8, <1>9, <1>11, <1>12, RegularSane
      DEF Regular

\* Context.decrypt: its statements are in order, its failures undo them.
LEMMA DecryptSane == Sane("decrypt")
  <1> DEFINE a == <<Open("cipher"), Open("plain")>>
             c == <<Free("cipher"), Free("plain"), Check, Annotate("values")>>
             v == << <<>>, <<Free("cipher")>> >>
  <1>1. Method["decrypt"] = Decrypt
    BY DEF Method
  <1>2. Method["decrypt"].undo = v /\ Method["decrypt"].nulls = {}
    BY <1>1 DEF Decrypt, Returning
  <1>3. Method["decrypt"].script = a \o Operation \o c
    BY <1>1 DEF Decrypt, Returning
  <1>4. a \in Seq(Statements) /\ c \in Seq(Statements)
    BY StatementsAre DEF Files, Resources, Results
  <1>5. DOMAIN a = 1 .. 2 /\ DOMAIN c = 1 .. 4
    OBVIOUS
  <1> USE DEF Annotate, Check, Free, Open, Statement
  <1>6. InOrder(a)
    BY <1>4, <1>5 DEF InOrder, Before, Phase, Acquiring, Making, Discards
  <1>7. InOrder(c)
    BY <1>4, <1>5, SMTT(30) DEF InOrder, Before, Phase, Acquiring, Making, Discards
  <1>8. Completes(c, a)
    BY <1>5, SMTT(30) DEF Completes, Later, Acquiring, Discards
  <1>9. Allowed(c, "decrypt")
    BY <1>5 DEF Allowed
  <1>10. ASSUME NEW i \in DOMAIN a, a[i].op \in Acquiring
         PROVE  i \in DOMAIN v /\ Clears(v[i], a, i, {})
    <2>1. CASE i = 1
      <3>1. v[1] = <<>> /\ v[1] \in Seq(Statements)
        BY StatementsAre DEF Files, Resources
      <3> QED BY <1>5, <2>1, <3>1 DEF Clears, Acquiring
    <2>2. CASE i = 2
      <3>1. v[2] = <<Free("cipher")>> /\ v[2] \in Seq(Statements)
        BY StatementsAre DEF Files, Resources
      <3> QED BY <1>5, <2>2, <3>1 DEF Clears, Acquiring
    <2> QED BY <1>5, <2>1, <2>2
  <1>11. Acquires(a, v, {}, c)
    <2>1. ASSUME NEW i \in DOMAIN a
          PROVE  /\ a[i].op \in Acquiring \cup {"warn"}
                 /\ a[i].op \notin {"borrow", "fast_or_none"}
                 /\ a[i].op \in Acquiring =>
                        \E k \in DOMAIN c :
                          c[k].op = "free" /\ c[k].what = a[i].what
      BY <1>5 DEF Acquiring
    <2> QED BY <1>10, <2>1 DEF Acquires
  <1>12. \A i \in DOMAIN a : MayAcquire(a[i].op, "decrypt")
    BY <1>5 DEF MayAcquire
  <1> HIDE DEF a, c, v
  <1> QED BY <1>2, <1>3, <1>6, <1>7, <1>8, <1>9, <1>11, <1>12, RegularSane
      DEF Regular

\* Context.decrypt_verify: its statements are in order, its failures undo them.
LEMMA DecryptVerifySane == Sane("decrypt_verify")
  <1> DEFINE a == <<Open("cipher"), Open("plain")>>
             c == <<Free("cipher"), Free("plain"), Check, Annotate("values"),
                    Convert("sigs")>>
             v == << <<>>, <<Free("cipher")>> >>
  <1>1. Method["decrypt_verify"] = DecryptVerify
    BY DEF Method
  <1>2. Method["decrypt_verify"].undo = v /\ Method["decrypt_verify"].nulls = {}
    BY <1>1 DEF DecryptVerify, Returning
  <1>3. Method["decrypt_verify"].script = a \o Operation \o c
    BY <1>1 DEF DecryptVerify, Returning
  <1>4. a \in Seq(Statements) /\ c \in Seq(Statements)
    BY StatementsAre DEF Files, Resources, Results
  <1>5. DOMAIN a = 1 .. 2 /\ DOMAIN c = 1 .. 5
    OBVIOUS
  <1> USE DEF Annotate, Check, Convert, Free, Open, Statement
  <1>6. InOrder(a)
    BY <1>4, <1>5 DEF InOrder, Before, Phase, Acquiring, Making, Discards
  <1>7. InOrder(c)
    BY <1>4, <1>5, SMTT(30) DEF InOrder, Before, Phase, Acquiring, Making, Discards
  <1>8. Completes(c, a)
    BY <1>5, SMTT(30) DEF Completes, Later, Acquiring, Discards
  <1>9. Allowed(c, "decrypt_verify")
    BY <1>5 DEF Allowed
  <1>10. ASSUME NEW i \in DOMAIN a, a[i].op \in Acquiring
         PROVE  i \in DOMAIN v /\ Clears(v[i], a, i, {})
    <2>1. CASE i = 1
      <3>1. v[1] = <<>> /\ v[1] \in Seq(Statements)
        BY StatementsAre DEF Files, Resources
      <3> QED BY <1>5, <2>1, <3>1 DEF Clears, Acquiring
    <2>2. CASE i = 2
      <3>1. v[2] = <<Free("cipher")>> /\ v[2] \in Seq(Statements)
        BY StatementsAre DEF Files, Resources
      <3> QED BY <1>5, <2>2, <3>1 DEF Clears, Acquiring
    <2> QED BY <1>5, <2>1, <2>2
  <1>11. Acquires(a, v, {}, c)
    <2>1. ASSUME NEW i \in DOMAIN a
          PROVE  /\ a[i].op \in Acquiring \cup {"warn"}
                 /\ a[i].op \notin {"borrow", "fast_or_none"}
                 /\ a[i].op \in Acquiring =>
                        \E k \in DOMAIN c :
                          c[k].op = "free" /\ c[k].what = a[i].what
      BY <1>5 DEF Acquiring
    <2> QED BY <1>10, <2>1 DEF Acquires
  <1>12. \A i \in DOMAIN a : MayAcquire(a[i].op, "decrypt_verify")
    BY <1>5 DEF MayAcquire
  <1> HIDE DEF a, c, v
  <1> QED BY <1>2, <1>3, <1>6, <1>7, <1>8, <1>9, <1>11, <1>12, RegularSane
      DEF Regular

\* Context.sign: its statements are in order, its failures undo them.
LEMMA SignSane == Sane("sign")
  <1> DEFINE a == <<Open("plain"), Open("sig")>>
             c == <<Free("plain"), Free("sig"), Check, Annotate("pairs"),
                    Annotate("newsigs"), Convert("newsigs")>>
             v == << <<>>, <<Free("plain")>> >>
  <1>1. Method["sign"] = Sign
    BY DEF Method
  <1>2. Method["sign"].undo = v /\ Method["sign"].nulls = {}
    BY <1>1 DEF Sign, Returning
  <1>3. Method["sign"].script = a \o Operation \o c
    <2> DEFINE f == <<Free("plain"), Free("sig")>>
               r == <<Check, Annotate("pairs"), Annotate("newsigs"),
                      Convert("newsigs")>>
    <2>1. SignResult(<<>>) = r
      BY SignResults
    <2>2. f \o r = c
      <3>1. f \in Seq(Statements) /\ r \in Seq(Statements) /\ c \in Seq(Statements)
        BY StatementsAre DEF Files, Resources, Results
      <3>2. /\ Len(c) = Len(f) + Len(r)
            /\ \A i \in 1 .. Len(f) : c[i] = f[i]
            /\ \A i \in 1 .. Len(r) : c[Len(f) + i] = r[i]
        OBVIOUS
      <3> HIDE DEF f, r, c
      <3> QED BY <3>1, <3>2, ConcatIs
    <2>3. Method["sign"].script = a \o Operation \o (f \o SignResult(<<>>))
      BY <1>1 DEF Sign, Returning
    <2> HIDE DEF a, c, f, r
    <2> QED BY <2>1, <2>2, <2>3
  <1>4. a \in Seq(Statements) /\ c \in Seq(Statements)
    BY StatementsAre DEF Files, Resources, Results
  <1>5. DOMAIN a = 1 .. 2 /\ DOMAIN c = 1 .. 6
    OBVIOUS
  <1> USE DEF Annotate, Check, Convert, Free, Open, Statement
  <1>6. InOrder(a)
    BY <1>4, <1>5 DEF InOrder, Before, Phase, Acquiring, Making, Discards
  <1>7. InOrder(c)
    BY <1>4, <1>5, SMTT(30) DEF InOrder, Before, Phase, Acquiring, Making, Discards
  <1>8. Completes(c, a)
    BY <1>5, SMTT(30) DEF Completes, Later, Acquiring, Discards
  <1>9. Allowed(c, "sign")
    BY <1>5 DEF Allowed
  <1>10. ASSUME NEW i \in DOMAIN a, a[i].op \in Acquiring
         PROVE  i \in DOMAIN v /\ Clears(v[i], a, i, {})
    <2>1. CASE i = 1
      <3>1. v[1] = <<>> /\ v[1] \in Seq(Statements)
        BY StatementsAre DEF Files, Resources
      <3> QED BY <1>5, <2>1, <3>1 DEF Clears, Acquiring
    <2>2. CASE i = 2
      <3>1. v[2] = <<Free("plain")>> /\ v[2] \in Seq(Statements)
        BY StatementsAre DEF Files, Resources
      <3> QED BY <1>5, <2>2, <3>1 DEF Clears, Acquiring
    <2> QED BY <1>5, <2>1, <2>2
  <1>11. Acquires(a, v, {}, c)
    <2>1. ASSUME NEW i \in DOMAIN a
          PROVE  /\ a[i].op \in Acquiring \cup {"warn"}
                 /\ a[i].op \notin {"borrow", "fast_or_none"}
                 /\ a[i].op \in Acquiring =>
                        \E k \in DOMAIN c :
                          c[k].op = "free" /\ c[k].what = a[i].what
      BY <1>5 DEF Acquiring
    <2> QED BY <1>10, <2>1 DEF Acquires
  <1>12. \A i \in DOMAIN a : MayAcquire(a[i].op, "sign")
    BY <1>5 DEF MayAcquire
  <1> HIDE DEF a, c, v
  <1> QED BY <1>2, <1>3, <1>6, <1>7, <1>8, <1>9, <1>11, <1>12, RegularSane
      DEF Regular

\* Context.verify: its statements are in order, its failures undo them.
LEMMA VerifySane == Sane("verify")
  <1> DEFINE a == <<Open("sig"), Open("signed_text"), Open("plain")>>
             c == <<Free("sig"), Free("signed_text"), Free("plain"), Check,
                    Annotate("sigs"), Convert("sigs")>>
             v == << <<>>, <<Free("sig")>>, <<Free("sig"), Free("signed_text")>> >>
  <1>1. Method["verify"] = Verify
    BY DEF Method
  <1>2. Method["verify"].undo = v /\ Method["verify"].nulls = {}
    BY <1>1 DEF Verify, Returning
  <1>3. Method["verify"].script = a \o Operation \o c
    BY <1>1 DEF Verify, Returning
  <1>4. a \in Seq(Statements) /\ c \in Seq(Statements)
    BY StatementsAre DEF Files, Resources, Results
  <1>5. DOMAIN a = 1 .. 3 /\ DOMAIN c = 1 .. 6
    OBVIOUS
  <1> USE DEF Annotate, Check, Convert, Free, Open, Statement
  <1>6. InOrder(a)
    BY <1>4, <1>5 DEF InOrder, Before, Phase, Acquiring, Making, Discards
  <1>7. InOrder(c)
    BY <1>4, <1>5, SMTT(30) DEF InOrder, Before, Phase, Acquiring, Making, Discards
  <1>8. Completes(c, a)
    BY <1>5, SMTT(30) DEF Completes, Later, Acquiring, Discards
  <1>9. Allowed(c, "verify")
    BY <1>5 DEF Allowed
  <1>10. ASSUME NEW i \in DOMAIN a, a[i].op \in Acquiring
         PROVE  i \in DOMAIN v /\ Clears(v[i], a, i, {})
    <2>1. CASE i = 1
      <3>1. v[1] = <<>> /\ v[1] \in Seq(Statements)
        BY StatementsAre DEF Files, Resources
      <3> QED BY <1>5, <2>1, <3>1 DEF Clears, Acquiring
    <2>2. CASE i = 2
      <3>1. v[2] = <<Free("sig")>> /\ v[2] \in Seq(Statements)
        BY StatementsAre DEF Files, Resources
      <3> QED BY <1>5, <2>2, <3>1 DEF Clears, Acquiring
    <2>3. CASE i = 3
      <3>1. v[3] = <<Free("sig"), Free("signed_text")>> /\ v[3] \in Seq(Statements)
        BY StatementsAre DEF Files, Resources
      <3> QED BY <1>5, <2>3, <3>1 DEF Clears, Acquiring
    <2> QED BY <1>5, <2>1, <2>2, <2>3
  <1>11. Acquires(a, v, {}, c)
    <2>1. ASSUME NEW i \in DOMAIN a
          PROVE  /\ a[i].op \in Acquiring \cup {"warn"}
                 /\ a[i].op \notin {"borrow", "fast_or_none"}
                 /\ a[i].op \in Acquiring =>
                        \E k \in DOMAIN c :
                          c[k].op = "free" /\ c[k].what = a[i].what
      BY <1>5 DEF Acquiring
    <2> QED BY <1>10, <2>1 DEF Acquires
  <1>12. \A i \in DOMAIN a : MayAcquire(a[i].op, "verify")
    BY <1>5 DEF MayAcquire
  <1> HIDE DEF a, c, v
  <1> QED BY <1>2, <1>3, <1>6, <1>7, <1>8, <1>9, <1>11, <1>12, RegularSane
      DEF Regular

\* Context.import: its statements are in order, its failures undo them.
LEMMA ImportSane == Sane("import_")
  <1> DEFINE a == <<Open("keydata")>>
             c == <<Free("keydata"), Convert("imports"), Check, Discard>>
             v == << <<>> >>
  <1>1. Method["import_"] = Import
    BY DEF Method
  <1>2. Method["import_"].undo = v /\ Method["import_"].nulls = {}
    BY <1>1 DEF Import, Returning
  <1>3. Method["import_"].script = a \o Operation \o c
    BY <1>1 DEF Import, Returning
  <1>4. a \in Seq(Statements) /\ c \in Seq(Statements)
    BY StatementsAre DEF Files, Resources, Results
  <1>5. DOMAIN a = 1 .. 1 /\ DOMAIN c = 1 .. 4
    OBVIOUS
  <1> USE DEF Check, Convert, Discard, Free, Open, Statement
  <1>6. InOrder(a)
    BY <1>4, <1>5 DEF InOrder, Before, Phase, Acquiring, Making, Discards
  <1>7. InOrder(c)
    BY <1>4, <1>5, SMTT(30) DEF InOrder, Before, Phase, Acquiring, Making, Discards
  <1>8. Completes(c, a)
    BY <1>5, SMTT(30) DEF Completes, Later, Acquiring, Discards
  <1>9. Allowed(c, "import_")
    BY <1>5 DEF Allowed
  <1>10. ASSUME NEW i \in DOMAIN a, a[i].op \in Acquiring
         PROVE  i \in DOMAIN v /\ Clears(v[i], a, i, {})
    <2>1. CASE i = 1
      <3>1. v[1] = <<>> /\ v[1] \in Seq(Statements)
        BY StatementsAre DEF Files, Resources
      <3> QED BY <1>5, <2>1, <3>1 DEF Clears, Acquiring
    <2> QED BY <1>5, <2>1
  <1>11. Acquires(a, v, {}, c)
    <2>1. ASSUME NEW i \in DOMAIN a
          PROVE  /\ a[i].op \in Acquiring \cup {"warn"}
                 /\ a[i].op \notin {"borrow", "fast_or_none"}
                 /\ a[i].op \in Acquiring =>
                        \E k \in DOMAIN c :
                          c[k].op = "free" /\ c[k].what = a[i].what
      BY <1>5 DEF Acquiring
    <2> QED BY <1>10, <2>1 DEF Acquires
  <1>12. \A i \in DOMAIN a : MayAcquire(a[i].op, "import_")
    BY <1>5 DEF MayAcquire
  <1> HIDE DEF a, c, v
  <1> QED BY <1>2, <1>3, <1>6, <1>7, <1>8, <1>9, <1>11, <1>12, RegularSane
      DEF Regular

\* Context.import_keys: its statements are in order, its failures undo them.
LEMMA ImportKeysSane == Sane("import_keys")
  <1> DEFINE a == <<Fast, Borrow>>
             c == <<Convert("imports"), Check, Discard, Free("keys"),
                    Free("seq")>>
             u == <<Free("keys"), Free("seq")>>
             v == [n \in 1 .. 2 |-> u]
  <1>1. Method["import_keys"] = ImportKeys
    BY DEF Method
  <1>2. Method["import_keys"].undo = v /\ Method["import_keys"].nulls = Resources
    BY <1>1 DEF ImportKeys, WithCleanup
  <1>3. Method["import_keys"].script = a \o Operation \o c
    <2> DEFINE d == <<Convert("imports"), Check, Discard>>
    <2>2. /\ a \in Seq(Statements) /\ c \in Seq(Statements)
          /\ d \in Seq(Statements) /\ u \in Seq(Statements)
      BY StatementsAre DEF Files, Resources, Results
    <2>3. /\ Len(c) = Len(d) + Len(u)
          /\ \A i \in 1 .. Len(d) : c[i] = d[i]
          /\ \A i \in 1 .. Len(u) : c[Len(d) + i] = u[i]
      OBVIOUS
    <2>4. Method["import_keys"].script = a \o Operation \o d \o u
      BY <1>1 DEF ImportKeys, WithCleanup
    <2> HIDE DEF a, c, d, u
    <2>5. d \o u = c
      BY <2>2, <2>3, ConcatIs
    <2> DEFINE e == a \o Operation
    <2>6. e \in Seq(Statements)
      BY <2>2, Operating, ConcatProperties
    <2> HIDE DEF e
    <2>7. (e \o d) \o u = e \o (d \o u)
      <3>1. d \in Seq(Statements) /\ u \in Seq(Statements)
        BY <2>2
      <3> QED BY <2>6, <3>1, ConcatAssociative
    <2> QED BY <2>4, <2>5, <2>7 DEF e
  <1>4. a \in Seq(Statements) /\ c \in Seq(Statements)
    BY StatementsAre DEF Files, Resources, Results
  <1>5. DOMAIN a = 1 .. 2 /\ DOMAIN c = 1 .. 5
    OBVIOUS
  <1> USE DEF Borrow, Check, Convert, Discard, Fast, Free, Statement
  <1>6. InOrder(a)
    BY <1>4, <1>5 DEF InOrder, Before, Phase, Acquiring, Making, Discards
  <1>7. InOrder(c)
    BY <1>4, <1>5, SMTT(30) DEF InOrder, Before, Phase, Acquiring, Making, Discards
  <1>8. Completes(c, a)
    BY <1>5, SMTT(30) DEF Completes, Later, Acquiring, Discards
  <1>9. Allowed(c, "import_keys")
    BY <1>5 DEF Allowed
  <1>10. ASSUME NEW i \in DOMAIN a
         PROVE  Clears(u, a, i, Resources)
    <2>1. u \in Seq(Statements) /\ DOMAIN u = 1 .. 2
      BY StatementsAre DEF Files, Resources, Results
    <2>2. \A k \in DOMAIN u : u[k].what \in Resources
      BY <2>1 DEF Files, Resources
    <2> QED BY <1>5, <2>1, <2>2 DEF Clears, Acquiring
  <1>11. Acquires(a, v, Resources, c)
    <2>1. \A i \in DOMAIN a : i \in DOMAIN v /\ v[i] = u
      BY <1>5
    <2>2. ASSUME NEW i \in DOMAIN a
          PROVE  /\ a[i].op \in Acquiring
                 /\ a[i].what \in Resources
                 /\ \E k \in DOMAIN c : c[k].op = "free" /\ c[k].what = a[i].what
      BY <1>5 DEF Acquiring, Files, Resources
    <2> HIDE DEF u, v
    <2> QED BY <1>10, <2>1, <2>2 DEF Acquires
  <1>12. \A i \in DOMAIN a : MayAcquire(a[i].op, "import_keys")
    BY <1>5 DEF MayAcquire
  <1> HIDE DEF a, c, v
  <1> QED BY <1>2, <1>3, <1>6, <1>7, <1>8, <1>9, <1>11, <1>12, RegularSane
      DEF Regular

\* Context.export: its statements are in order, its failures undo them.
LEMMA ExportSane == Sane("export")
  <1> DEFINE a == <<Parse, Open("keydata")>>
             c == <<Free("patterns"), Free("keydata"), Check>>
             v == << <<>>, <<Free("patterns")>> >>
  <1>1. Method["export"] = Export
    BY DEF Method
  <1>2. Method["export"].undo = v /\ Method["export"].nulls = {}
    BY <1>1 DEF Export, Returning
  <1>3. Method["export"].script = a \o Operation \o c
    BY <1>1 DEF Export, Returning
  <1>4. a \in Seq(Statements) /\ c \in Seq(Statements)
    BY StatementsAre DEF Files, Resources, Results
  <1>5. DOMAIN a = 1 .. 2 /\ DOMAIN c = 1 .. 3
    OBVIOUS
  <1> USE DEF Check, Free, Open, Parse, Statement
  <1>6. InOrder(a)
    BY <1>4, <1>5 DEF InOrder, Before, Phase, Acquiring, Making, Discards
  <1>7. InOrder(c)
    BY <1>4, <1>5, SMTT(30) DEF InOrder, Before, Phase, Acquiring, Making, Discards
  <1>8. Completes(c, a)
    BY <1>5, SMTT(30) DEF Completes, Later, Acquiring, Discards
  <1>9. Allowed(c, "export")
    BY <1>5 DEF Allowed
  <1>10. ASSUME NEW i \in DOMAIN a, a[i].op \in Acquiring
         PROVE  i \in DOMAIN v /\ Clears(v[i], a, i, {})
    <2>1. CASE i = 1
      <3>1. v[1] = <<>> /\ v[1] \in Seq(Statements)
        BY StatementsAre DEF Files, Resources
      <3> QED BY <1>5, <2>1, <3>1 DEF Clears, Acquiring
    <2>2. CASE i = 2
      <3>1. v[2] = <<Free("patterns")>> /\ v[2] \in Seq(Statements)
        BY StatementsAre DEF Files, Resources
      <3> QED BY <1>5, <2>2, <3>1 DEF Clears, Acquiring
    <2> QED BY <1>5, <2>1, <2>2
  <1>11. Acquires(a, v, {}, c)
    <2>1. ASSUME NEW i \in DOMAIN a
          PROVE  /\ a[i].op \in Acquiring \cup {"warn"}
                 /\ a[i].op \notin {"borrow", "fast_or_none"}
                 /\ a[i].op \in Acquiring =>
                        \E k \in DOMAIN c :
                          c[k].op = "free" /\ c[k].what = a[i].what
      BY <1>5 DEF Acquiring
    <2> QED BY <1>10, <2>1 DEF Acquires
  <1>12. \A i \in DOMAIN a : MayAcquire(a[i].op, "export")
    BY <1>5 DEF MayAcquire
  <1> HIDE DEF a, c, v
  <1> QED BY <1>2, <1>3, <1>6, <1>7, <1>8, <1>9, <1>11, <1>12, RegularSane
      DEF Regular

\* Context.export_keys: its statements are in order, its failures undo them.
LEMMA ExportKeysSane == Sane("export_keys")
  <1> DEFINE a == <<Fast, Borrow, Open("keydata")>>
             c == <<Check, Free("keydata"), Free("keys"), Free("seq")>>
             u == <<Free("keydata"), Free("keys"), Free("seq")>>
             v == [n \in 1 .. 3 |-> u]
  <1>1. Method["export_keys"] = ExportKeys
    BY DEF Method
  <1>2. Method["export_keys"].undo = v /\ Method["export_keys"].nulls = Resources
    BY <1>1 DEF ExportKeys, WithCleanup
  <1>3. Method["export_keys"].script = a \o Operation \o c
    <2> DEFINE d == <<Check>>
    <2>2. /\ a \in Seq(Statements) /\ c \in Seq(Statements)
          /\ d \in Seq(Statements) /\ u \in Seq(Statements)
      BY StatementsAre DEF Files, Resources, Results
    <2>3. /\ Len(c) = Len(d) + Len(u)
          /\ \A i \in 1 .. Len(d) : c[i] = d[i]
          /\ \A i \in 1 .. Len(u) : c[Len(d) + i] = u[i]
      OBVIOUS
    <2>4. Method["export_keys"].script = a \o Operation \o d \o u
      BY <1>1 DEF ExportKeys, WithCleanup
    <2> HIDE DEF a, c, d, u
    <2>5. d \o u = c
      BY <2>2, <2>3, ConcatIs
    <2> DEFINE e == a \o Operation
    <2>6. e \in Seq(Statements)
      BY <2>2, Operating, ConcatProperties
    <2> HIDE DEF e
    <2>7. (e \o d) \o u = e \o (d \o u)
      <3>1. d \in Seq(Statements) /\ u \in Seq(Statements)
        BY <2>2
      <3> QED BY <2>6, <3>1, ConcatAssociative
    <2> QED BY <2>4, <2>5, <2>7 DEF e
  <1>4. a \in Seq(Statements) /\ c \in Seq(Statements)
    BY StatementsAre DEF Files, Resources, Results
  <1>5. DOMAIN a = 1 .. 3 /\ DOMAIN c = 1 .. 4
    OBVIOUS
  <1> USE DEF Borrow, Check, Fast, Free, Open, Statement
  <1>6. InOrder(a)
    BY <1>4, <1>5 DEF InOrder, Before, Phase, Acquiring, Making, Discards
  <1>7. InOrder(c)
    BY <1>4, <1>5, SMTT(30) DEF InOrder, Before, Phase, Acquiring, Making, Discards
  <1>8. Completes(c, a)
    BY <1>5, SMTT(30) DEF Completes, Later, Acquiring, Discards
  <1>9. Allowed(c, "export_keys")
    BY <1>5 DEF Allowed
  <1>10. ASSUME NEW i \in DOMAIN a
         PROVE  Clears(u, a, i, Resources)
    <2>1. u \in Seq(Statements) /\ DOMAIN u = 1 .. 3
      BY StatementsAre DEF Files, Resources, Results
    <2>2. \A k \in DOMAIN u : u[k].what \in Resources
      BY <2>1 DEF Files, Resources
    <2> QED BY <1>5, <2>1, <2>2 DEF Clears, Acquiring
  <1>11. Acquires(a, v, Resources, c)
    <2>1. \A i \in DOMAIN a : i \in DOMAIN v /\ v[i] = u
      BY <1>5
    <2>2. ASSUME NEW i \in DOMAIN a
          PROVE  /\ a[i].op \in Acquiring
                 /\ a[i].what \in Resources
                 /\ \E k \in DOMAIN c : c[k].op = "free" /\ c[k].what = a[i].what
      BY <1>5 DEF Acquiring, Files, Resources
    <2> HIDE DEF u, v
    <2> QED BY <1>10, <2>1, <2>2 DEF Acquires
  <1>12. \A i \in DOMAIN a : MayAcquire(a[i].op, "export_keys")
    BY <1>5 DEF MayAcquire
  <1> HIDE DEF a, c, v
  <1> QED BY <1>2, <1>3, <1>6, <1>7, <1>8, <1>9, <1>11, <1>12, RegularSane
      DEF Regular

\* Context.genkey: its statements are in order, its failures undo them.
LEMMA GenKeySane == Sane("genkey")
  <1> DEFINE a == <<Open("pubkey"), Open("seckey")>>
             c == <<Free("seckey"), Free("pubkey"), Convert("genkey"), Check,
                    DiscardIfGpgme>>
             v == << <<>>, <<Free("pubkey")>> >>
  <1>1. Method["genkey"] = GenKey
    BY DEF Method
  <1>2. Method["genkey"].undo = v /\ Method["genkey"].nulls = {}
    BY <1>1 DEF GenKey, Returning
  <1>3. Method["genkey"].script = a \o Operation \o c
    BY <1>1 DEF GenKey, Returning
  <1>4. a \in Seq(Statements) /\ c \in Seq(Statements)
    BY StatementsAre DEF Files, Resources, Results
  <1>5. DOMAIN a = 1 .. 2 /\ DOMAIN c = 1 .. 5
    OBVIOUS
  <1> USE DEF Check, Convert, DiscardIfGpgme, Free, Open, Statement
  <1>6. InOrder(a)
    BY <1>4, <1>5 DEF InOrder, Before, Phase, Acquiring, Making, Discards
  <1>7. InOrder(c)
    BY <1>4, <1>5, SMTT(30) DEF InOrder, Before, Phase, Acquiring, Making, Discards
  <1>8. Completes(c, a)
    BY <1>5, SMTT(30) DEF Completes, Later, Acquiring, Discards
  <1>9. Allowed(c, "genkey")
    BY <1>5 DEF Allowed
  <1>10. ASSUME NEW i \in DOMAIN a, a[i].op \in Acquiring
         PROVE  i \in DOMAIN v /\ Clears(v[i], a, i, {})
    <2>1. CASE i = 1
      <3>1. v[1] = <<>> /\ v[1] \in Seq(Statements)
        BY StatementsAre DEF Files, Resources
      <3> QED BY <1>5, <2>1, <3>1 DEF Clears, Acquiring
    <2>2. CASE i = 2
      <3>1. v[2] = <<Free("pubkey")>> /\ v[2] \in Seq(Statements)
        BY StatementsAre DEF Files, Resources
      <3> QED BY <1>5, <2>2, <3>1 DEF Clears, Acquiring
    <2> QED BY <1>5, <2>1, <2>2
  <1>11. Acquires(a, v, {}, c)
    <2>1. ASSUME NEW i \in DOMAIN a
          PROVE  /\ a[i].op \in Acquiring \cup {"warn"}
                 /\ a[i].op \notin {"borrow", "fast_or_none"}
                 /\ a[i].op \in Acquiring =>
                        \E k \in DOMAIN c :
                          c[k].op = "free" /\ c[k].what = a[i].what
      BY <1>5 DEF Acquiring
    <2> QED BY <1>10, <2>1 DEF Acquires
  <1>12. \A i \in DOMAIN a : MayAcquire(a[i].op, "genkey")
    BY <1>5 DEF MayAcquire
  <1> HIDE DEF a, c, v
  <1> QED BY <1>2, <1>3, <1>6, <1>7, <1>8, <1>9, <1>11, <1>12, RegularSane
      DEF Regular

\* Context.delete: its statements are in order, its failures undo them.
LEMMA DeleteSane == Sane("delete")
  <1> DEFINE a == <<>>
             c == <<Check>>
             v == <<>>
  <1>1. Method["delete"] = Delete
    BY DEF Method
  <1>2. Method["delete"].undo = v /\ Method["delete"].nulls = {}
    BY <1>1 DEF Delete, Returning
  <1>3. Method["delete"].script = a \o Operation \o c
    BY <1>1 DEF Delete, Returning
  <1>4. a \in Seq(Statements) /\ c \in Seq(Statements)
    BY StatementsAre DEF Files, Resources, Results
  <1>5. DOMAIN a = {} /\ DOMAIN c = 1 .. 1
    OBVIOUS
  <1> USE DEF Check, Statement
  <1>6. InOrder(a)
    BY <1>4, <1>5 DEF InOrder, Before, Phase, Acquiring, Making, Discards
  <1>7. InOrder(c)
    BY <1>4, <1>5, SMTT(30) DEF InOrder, Before, Phase, Acquiring, Making, Discards
  <1>8. Completes(c, a)
    BY <1>5, SMTT(30) DEF Completes, Later, Acquiring, Discards
  <1>9. Allowed(c, "delete")
    BY <1>5 DEF Allowed
  <1>11. Acquires(a, v, {}, c)
    BY <1>5 DEF Acquires
  <1>12. \A i \in DOMAIN a : MayAcquire(a[i].op, "delete")
    BY <1>5 DEF MayAcquire
  <1> HIDE DEF a, c, v
  <1> QED BY <1>2, <1>3, <1>6, <1>7, <1>8, <1>9, <1>11, <1>12, RegularSane
      DEF Regular

\* Context.edit: its statements are in order, its failures undo them.
LEMMA EditSane == Sane("edit")
  <1> DEFINE a == <<Warn, Open("out")>>
             c == <<Free("out"), Check>>
             v == << <<>>, <<>> >>
  <1>1. Method["edit"] = Edit
    BY DEF Method
  <1>2. Method["edit"].undo = v /\ Method["edit"].nulls = {}
    BY <1>1 DEF Edit, Returning
  <1>3. Method["edit"].script = a \o Operation \o c
    BY <1>1 DEF Edit, Returning
  <1>4. a \in Seq(Statements) /\ c \in Seq(Statements)
    BY StatementsAre DEF Files, Resources, Results
  <1>5. DOMAIN a = 1 .. 2 /\ DOMAIN c = 1 .. 2
    OBVIOUS
  <1> USE DEF Check, Free, Open, Warn, Statement
  <1>6. InOrder(a)
    BY <1>4, <1>5 DEF InOrder, Before, Phase, Acquiring, Making, Discards
  <1>7. InOrder(c)
    BY <1>4, <1>5, SMTT(30) DEF InOrder, Before, Phase, Acquiring, Making, Discards
  <1>8. Completes(c, a)
    BY <1>5, SMTT(30) DEF Completes, Later, Acquiring, Discards
  <1>9. Allowed(c, "edit")
    BY <1>5 DEF Allowed
  <1>10. ASSUME NEW i \in DOMAIN a, a[i].op \in Acquiring
         PROVE  i \in DOMAIN v /\ Clears(v[i], a, i, {})
    <2>1. CASE i = 1
      <3>1. v[1] = <<>> /\ v[1] \in Seq(Statements)
        BY StatementsAre DEF Files, Resources
      <3> QED BY <1>5, <2>1, <3>1 DEF Clears, Acquiring
    <2>2. CASE i = 2
      <3>1. v[2] = <<>> /\ v[2] \in Seq(Statements)
        BY StatementsAre DEF Files, Resources
      <3> QED BY <1>5, <2>2, <3>1 DEF Clears, Acquiring
    <2> QED BY <1>5, <2>1, <2>2
  <1>11. Acquires(a, v, {}, c)
    <2>1. ASSUME NEW i \in DOMAIN a
          PROVE  /\ a[i].op \in Acquiring \cup {"warn"}
                 /\ a[i].op \notin {"borrow", "fast_or_none"}
                 /\ a[i].op \in Acquiring =>
                        \E k \in DOMAIN c :
                          c[k].op = "free" /\ c[k].what = a[i].what
      BY <1>5 DEF Acquiring
    <2> QED BY <1>10, <2>1 DEF Acquires
  <1>12. \A i \in DOMAIN a : MayAcquire(a[i].op, "edit")
    BY <1>5 DEF MayAcquire
  <1> HIDE DEF a, c, v
  <1> QED BY <1>2, <1>3, <1>6, <1>7, <1>8, <1>9, <1>11, <1>12, RegularSane
      DEF Regular

\* Context.card_edit: its statements are in order, its failures undo them.
LEMMA CardEditSane == Sane("card_edit")
  <1> DEFINE a == <<Warn, Open("out")>>
             c == <<Free("out"), Check>>
             v == << <<>>, <<>> >>
  <1>1. Method["card_edit"] = CardEdit
    BY DEF Method
  <1>2. Method["card_edit"].undo = v /\ Method["card_edit"].nulls = {}
    BY <1>1 DEF CardEdit, Returning
  <1>3. Method["card_edit"].script = a \o Operation \o c
    BY <1>1 DEF CardEdit, Returning
  <1>4. a \in Seq(Statements) /\ c \in Seq(Statements)
    BY StatementsAre DEF Files, Resources, Results
  <1>5. DOMAIN a = 1 .. 2 /\ DOMAIN c = 1 .. 2
    OBVIOUS
  <1> USE DEF Check, Free, Open, Warn, Statement
  <1>6. InOrder(a)
    BY <1>4, <1>5 DEF InOrder, Before, Phase, Acquiring, Making, Discards
  <1>7. InOrder(c)
    BY <1>4, <1>5, SMTT(30) DEF InOrder, Before, Phase, Acquiring, Making, Discards
  <1>8. Completes(c, a)
    BY <1>5, SMTT(30) DEF Completes, Later, Acquiring, Discards
  <1>9. Allowed(c, "card_edit")
    BY <1>5 DEF Allowed
  <1>10. ASSUME NEW i \in DOMAIN a, a[i].op \in Acquiring
         PROVE  i \in DOMAIN v /\ Clears(v[i], a, i, {})
    <2>1. CASE i = 1
      <3>1. v[1] = <<>> /\ v[1] \in Seq(Statements)
        BY StatementsAre DEF Files, Resources
      <3> QED BY <1>5, <2>1, <3>1 DEF Clears, Acquiring
    <2>2. CASE i = 2
      <3>1. v[2] = <<>> /\ v[2] \in Seq(Statements)
        BY StatementsAre DEF Files, Resources
      <3> QED BY <1>5, <2>2, <3>1 DEF Clears, Acquiring
    <2> QED BY <1>5, <2>1, <2>2
  <1>11. Acquires(a, v, {}, c)
    <2>1. ASSUME NEW i \in DOMAIN a
          PROVE  /\ a[i].op \in Acquiring \cup {"warn"}
                 /\ a[i].op \notin {"borrow", "fast_or_none"}
                 /\ a[i].op \in Acquiring =>
                        \E k \in DOMAIN c :
                          c[k].op = "free" /\ c[k].what = a[i].what
      BY <1>5 DEF Acquiring
    <2> QED BY <1>10, <2>1 DEF Acquires
  <1>12. \A i \in DOMAIN a : MayAcquire(a[i].op, "card_edit")
    BY <1>5 DEF MayAcquire
  <1> HIDE DEF a, c, v
  <1> QED BY <1>2, <1>3, <1>6, <1>7, <1>8, <1>9, <1>11, <1>12, RegularSane
      DEF Regular

\* Context.keylist: its statements are in order, its failures undo them.
LEMMA KeylistSane == Sane("keylist")
  <1> DEFINE a == <<Parse>>
             c == <<Free("patterns"), Check>>
             v == << <<>> >>
  <1>1. Method["keylist"] = Keylist
    BY DEF Method
  <1>2. Method["keylist"].undo = v /\ Method["keylist"].nulls = {}
    BY <1>1 DEF Keylist, Returning
  <1>3. Method["keylist"].script = a \o Operation \o c
    BY <1>1 DEF Keylist, Returning
  <1>4. a \in Seq(Statements) /\ c \in Seq(Statements)
    BY StatementsAre DEF Files, Resources, Results
  <1>5. DOMAIN a = 1 .. 1 /\ DOMAIN c = 1 .. 2
    OBVIOUS
  <1> USE DEF Check, Free, Parse, Statement
  <1>6. InOrder(a)
    BY <1>4, <1>5 DEF InOrder, Before, Phase, Acquiring, Making, Discards
  <1>7. InOrder(c)
    BY <1>4, <1>5, SMTT(30) DEF InOrder, Before, Phase, Acquiring, Making, Discards
  <1>8. Completes(c, a)
    BY <1>5, SMTT(30) DEF Completes, Later, Acquiring, Discards
  <1>9. Allowed(c, "keylist")
    BY <1>5 DEF Allowed
  <1>10. ASSUME NEW i \in DOMAIN a, a[i].op \in Acquiring
         PROVE  i \in DOMAIN v /\ Clears(v[i], a, i, {})
    <2>1. CASE i = 1
      <3>1. v[1] = <<>> /\ v[1] \in Seq(Statements)
        BY StatementsAre DEF Files, Resources
      <3> QED BY <1>5, <2>1, <3>1 DEF Clears, Acquiring
    <2> QED BY <1>5, <2>1
  <1>11. Acquires(a, v, {}, c)
    <2>1. ASSUME NEW i \in DOMAIN a
          PROVE  /\ a[i].op \in Acquiring \cup {"warn"}
                 /\ a[i].op \notin {"borrow", "fast_or_none"}
                 /\ a[i].op \in Acquiring =>
                        \E k \in DOMAIN c :
                          c[k].op = "free" /\ c[k].what = a[i].what
      BY <1>5 DEF Acquiring
    <2> QED BY <1>10, <2>1 DEF Acquires
  <1>12. \A i \in DOMAIN a : MayAcquire(a[i].op, "keylist")
    BY <1>5 DEF MayAcquire
  <1> HIDE DEF a, c, v
  <1> QED BY <1>2, <1>3, <1>6, <1>7, <1>8, <1>9, <1>11, <1>12, RegularSane
      DEF Regular

\* Context.get_key: its statements are in order, its failures undo them.
LEMMA GetKeySane == Sane("get_key")
  <1> DEFINE s == <<Begin, OperateKey, End, Check, Convert("key"),
                  Free("key")>>
  <1>1. Method["get_key"].script = s /\ Method["get_key"].undo = <<>>
    BY DEF Method, GetKey
  <1>2. s \in Seq(Statements)
    BY StatementsAre DEF Statements, Resources, Results
  <1>3. DOMAIN s = 1 .. 6
    OBVIOUS
  <1> USE DEF Begin, OperateKey, End, Check, Convert, Free, Statement
  <1>4. \A i, j \in DOMAIN s : i < j => Before(s[i], s[j])
    BY <1>3 DEF Before, Phase, Acquiring, Making, Discards
  <1>5. ASSUME NEW i \in DOMAIN s
        PROVE  /\ Phase(s[i].op) < 2 => Later(s, i, {"operate"}, {"none", "key"})
               /\ s[i].op = "begin"   => Follows(s, i, {"operate"})
               /\ s[i].op = "operate" => Follows(s, i, {"end"})
               /\ s[i].op \notin Making \cup Acquiring \cup {"warn"}
               /\ s[i] = OperateKey => Later(s, i, {"free"}, {s[i].what})
               /\ s[i].op = "operate" => Later(s, i, {"check"}, {"none"})
               /\ s[i].op = "convert" => ~ Later(s, i, {"check"}, {"none"})
    BY <1>3 DEF Later, Follows, Phase, Acquiring, Making
  <1>6. Allowed(s, "get_key")
    BY <1>3 DEF Allowed
  <1>7. Sound(s, "get_key")
    BY <1>2, <1>4, <1>5, <1>6 DEF Sound, Orderly, Making
  <1>8. ASSUME NEW i \in DOMAIN s
        PROVE  /\ s[i].op = "free" => /\ s[i].what = "key"
                                      /\ \E j \in DOMAIN s :
                                           j < i /\ s[j].op = "operate"
               /\ s[i] = Free("key") =>
                    \E j \in DOMAIN s : j < i /\ s[j] = OperateKey
    BY <1>3
  <1> HIDE DEF s, Free, OperateKey
  <1> QED BY <1>1, <1>5, <1>7, <1>8 DEF Sane, MayAcquire, Acquiring

\* Context.get_engine_info: its statements are in order, its failures undo them.
LEMMA GetEngineInfoSane == Sane("get_engine_info")
  <1> DEFINE s == <<Convert("engines")>>
  <1>1. Method["get_engine_info"].script = s
          /\ Method["get_engine_info"].undo = <<>>
    BY DEF Method, GetEngineInfo
  <1>2. s \in Seq(Statements) /\ DOMAIN s = {1}
    BY StatementsAre DEF Results
  <1>3. s[1].op = "convert" /\ s[1].what = "engines"
    BY DEF Convert, Statement
  <1>4. s[1] # OperateKey /\ s[1] # Free("key") /\ Phase(s[1].op) = 4
    BY <1>3, Operating, Phases
  <1> HIDE DEF s
  <1>5. Sound(s, "get_engine_info")
    BY <1>2, <1>3, <1>4 DEF Sound, Orderly, Allowed, Acquiring, Later
  <1> QED BY <1>1, <1>2, <1>3, <1>4, <1>5 DEF Sane, MayAcquire, Acquiring, Making

\* Every method is in order.
LEMMA AllSane ==
    ASSUME NEW m \in DOMAIN Method
    PROVE  Sane(m)
  <1>1. DOMAIN Method =
            {"get_key", "encrypt", "encrypt_sign", "decrypt", "decrypt_verify",
             "sign", "verify", "import_", "import_keys", "export",
             "export_keys", "genkey", "delete", "edit", "card_edit", "keylist",
             "get_engine_info"}
    BY DEF Method
  <1> QED BY <1>1, GetKeySane, EncryptSane, EncryptSignSane, DecryptSane,
             DecryptVerifySane, SignSane, VerifySane, ImportSane,
             ImportKeysSane, ExportSane, ExportKeysSane, GenKeySane, DeleteSane,
             EditSane, CardEditSane, KeylistSane, GetEngineInfoSane

-----------------------------------------------------------------------------
(* What is left to do after a step.                                        *)

\* A step goes on after the next statement: what is new makes an item of a
\* result, and only what makes one is left out.
Continues ==
    /\ Sound(rest', method)
    /\ \A i \in DOMAIN rest' :
           \/ rest'[i].op \in Making
           \/ \E j \in DOMAIN rest : j > 1 /\ rest'[i] = rest[j]
    /\ \A j \in DOMAIN rest :
           j > 1 /\ rest[j].op \notin Making =>
               \E i \in DOMAIN rest' : rest'[i] = rest[j]

\* What is known of the next statement.
LEMMA NextStatement ==
    ASSUME RestInv, rest # <<>>
    PROVE  /\ Len(rest) \in Nat \ {0} /\ DOMAIN rest = 1 .. Len(rest)
           /\ 1 \in DOMAIN rest /\ Head(rest) = rest[1]
           /\ rest \in Seq(Statements)
           /\ \A i \in DOMAIN rest : rest[i] \in Statements
           /\ \A i \in DOMAIN rest : i > 1 => Before(rest[1], rest[i])
           /\ \A i \in DOMAIN rest : i = 1 \/ i > 1
  <1>1. rest \in Seq(Statements)
    BY DEF RestInv, Sound
  <1>2. /\ Len(rest) \in Nat \ {0} /\ DOMAIN rest = 1 .. Len(rest)
        /\ Head(rest) = rest[1]
        /\ \A i \in DOMAIN rest : rest[i] \in Statements
    BY <1>1, Elements
  <1>3. 1 \in DOMAIN rest /\ \A i \in DOMAIN rest : i = 1 \/ i > 1
    BY <1>2
  <1> QED BY <1>1, <1>2, <1>3 DEF RestInv, Sound, Orderly

\* The next statement is done and nothing else.
LEMMA ProceedContinues ==
    ASSUME RestInv, rest # <<>>, Proceed
    PROVE  Continues
  <1>1. Sound(rest', method)
    BY TailSound DEF Proceed, RestInv
  <1>2. /\ Len(rest) \in Nat \ {0} /\ DOMAIN rest = 1 .. Len(rest)
        /\ DOMAIN rest' = 1 .. (Len(rest) - 1)
        /\ \A i \in DOMAIN rest' : i + 1 \in DOMAIN rest /\ rest'[i] = rest[i + 1]
    <2>1. rest \in Seq(Statements)
      BY DEF RestInv, Sound
    <2> QED BY <2>1, Elements DEF Proceed
  <1>3. \A i \in DOMAIN rest' : \E j \in DOMAIN rest : j > 1 /\ rest'[i] = rest[j]
    BY <1>2
  <1>4. ASSUME NEW j \in DOMAIN rest, j > 1
        PROVE  \E i \in DOMAIN rest' : rest'[i] = rest[j]
    <2>1. j - 1 \in DOMAIN rest' /\ (j - 1) + 1 = j
      BY <1>2, <1>4
    <2> QED BY <1>2, <2>1
  <1> QED BY <1>1, <1>3, <1>4 DEF Continues

\* The loop over the items of a result begins.
LEMMA LoopContinues ==
    ASSUME RestInv, rest # <<>>, Head(rest).op = "convert",
           rest' = <<Items(What)>> \o Tail(rest)
    PROVE  Continues
  <1>1. Head(rest) = rest[1]
    BY NextStatement
  <1>2. Sound(rest', method) /\ Items(What) \in Statements
    BY <1>1, LoopSound DEF RestInv, What
  <1>3. Items(What).op \in Making
    BY DEF Items, Statement, Making
  <1>4. /\ Len(rest) \in Nat \ {0} /\ DOMAIN rest = 1 .. Len(rest)
        /\ Tail(rest) \in Seq(Statements)
        /\ DOMAIN Tail(rest) = 1 .. (Len(rest) - 1)
        /\ \A i \in DOMAIN Tail(rest) :
             i + 1 \in DOMAIN rest /\ Tail(rest)[i] = rest[i + 1]
    <2>1. rest \in Seq(Statements)
      BY DEF RestInv, Sound
    <2> QED BY <2>1, Elements
  <1>5. /\ rest'[1] = Items(What) /\ DOMAIN rest' = 1 .. (Len(Tail(rest)) + 1)
        /\ DOMAIN Tail(rest) = 1 .. Len(Tail(rest)) /\ Len(Tail(rest)) \in Nat
        /\ \A i \in DOMAIN Tail(rest) :
             i + 1 \in DOMAIN rest' /\ rest'[i + 1] = Tail(rest)[i]
    BY <1>2, <1>4, Cons
  <1>6. ASSUME NEW i \in DOMAIN rest'
        PROVE  rest'[i].op \in Making \/ \E j \in DOMAIN rest :
                 j > 1 /\ rest'[i] = rest[j]
    <2>1. CASE i = 1
      BY <1>3, <1>5, <2>1
    <2>2. CASE i > 1
      <3>1. i - 1 \in DOMAIN Tail(rest) /\ (i - 1) + 1 = i
        BY <1>5, <2>2
      <3>2. rest'[i] = rest[i] /\ i \in DOMAIN rest
        BY <1>4, <1>5, <3>1
      <3> QED BY <2>2, <3>2
    <2> QED BY <1>5, <2>1, <2>2
  <1>7. ASSUME NEW j \in DOMAIN rest, j > 1
        PROVE  \E i \in DOMAIN rest' : rest'[i] = rest[j]
    <2>1. j - 1 \in DOMAIN Tail(rest) /\ (j - 1) + 1 = j
      BY <1>4, <1>7
    <2> QED BY <1>4, <1>5, <2>1
  <1> QED BY <1>2, <1>6, <1>7 DEF Continues

\* Another item is made before the loop goes on.
LEMMA MakingContinues ==
    ASSUME RestInv, rest # <<>>, Head(rest).op = "items",
           rest' = Builder[What] \o rest
    PROVE  Continues
  <1> DEFINE b == Builder[What]
  <1>1. /\ rest \in Seq(Statements) /\ Head(rest) = rest[1]
             /\ rest[1] \in Statements
        /\ Len(rest) \in Nat /\ DOMAIN rest = 1 .. Len(rest)
        /\ \A i \in DOMAIN rest : i = 1 \/ i > 1
    BY NextStatement
  <1>2. Sound(rest', method)
    BY <1>1, MakingSound DEF RestInv, What
  <1>3. b \in Seq(Statements) /\ \A i \in DOMAIN b : b[i].op \in Making
    <2>1. What \in Results
      BY <1>1, StatementsOf DEF What
    <2>2. b \in {<<Fill, Look, Store>>, <<Fill, Store>>, <<>>}
      BY <2>1 DEF Builder, Results
    <2>3. /\ Fill \in Statements /\ Look \in Statements /\ Store \in Statements
          /\ Fill.op \in Making /\ Look.op \in Making /\ Store.op \in Making
      BY DEF Statements, Fill, Look, Store, Statement, Making
    <2> HIDE DEF b
    <2>4. CASE b = <<>>
      BY <2>4
    <2>5. CASE b = <<Fill, Store>>
      BY <2>3, <2>5
    <2>6. CASE b = <<Fill, Look, Store>>
      BY <2>3, <2>6
    <2> QED BY <2>2, <2>4, <2>5, <2>6
  <1> HIDE DEF b
  <1>4. rest' = b \o rest
    BY DEF b
  <1>5. /\ Len(b) \in Nat /\ DOMAIN b = 1 .. Len(b)
        /\ DOMAIN rest' = 1 .. (Len(b) + Len(rest))
        /\ \A i \in 1 .. (Len(b) + Len(rest)) :
               rest'[i] = IF i <= Len(b) THEN b[i] ELSE rest[i - Len(b)]
    BY <1>1, <1>3, <1>4, ConcatProperties, LenProperties
  <1>6. ASSUME NEW i \in DOMAIN rest'
        PROVE  rest'[i].op \in Making \/ \E j \in DOMAIN rest :
                 j > 1 /\ rest'[i] = rest[j]
    <2>1. CASE i <= Len(b)
      BY <1>3, <1>5, <2>1
    <2>2. CASE i > Len(b)
      <3>1. i - Len(b) \in DOMAIN rest
        BY <1>1, <1>5, <2>2
      <3>2. rest'[i] = rest[i - Len(b)]
        <4>1. i \in 1 .. (Len(b) + Len(rest)) /\ ~ (i <= Len(b))
          BY <1>1, <1>5, <2>2
        <4> QED BY <1>5, <4>1
      <3>3. rest[1].op \in Making
        BY <1>1 DEF Making
      <3> QED BY <1>1, <3>1, <3>2, <3>3
    <2> QED BY <1>5, <2>1, <2>2
  <1>7. ASSUME NEW j \in DOMAIN rest
        PROVE  \E i \in DOMAIN rest' : rest'[i] = rest[j]
    <2>1. /\ Len(b) + j \in DOMAIN rest' /\ ~ (Len(b) + j <= Len(b))
          /\ (Len(b) + j) - Len(b) = j
      BY <1>1, <1>5
    <2> QED BY <1>5, <2>1
  <1> QED BY <1>2, <1>6, <1>7 DEF Continues

\* The result is given up from inside the loop.
LEMMA AbortContinues ==
    ASSUME RestInv, rest # <<>>, Head(rest).op = "look",
           rest' = SubSeq(rest, 4, Len(rest))
    PROVE  /\ Continues
           /\ \A i \in DOMAIN rest' : rest'[i].op \notin Making
  <1>1. /\ rest \in Seq(Statements) /\ Head(rest) = rest[1]
        /\ Len(rest) \in Nat \ {0} /\ DOMAIN rest = 1 .. Len(rest)
        /\ 1 \in DOMAIN rest
    BY NextStatement
  <1>2. /\ 2 \in DOMAIN rest /\ rest[2].op = "store"
        /\ 3 \in DOMAIN rest /\ rest[3].op = "items"
    <2>1. Follows(rest, 1, {"store"})
      BY <1>1 DEF RestInv, Sound, Orderly
    <2>2. 2 \in DOMAIN rest /\ rest[2].op = "store"
      BY <2>1 DEF Follows
    <2>3. Follows(rest, 2, {"items"})
      BY <2>2 DEF RestInv, Sound, Orderly
    <2> QED BY <2>2, <2>3 DEF Follows
  <1>3. Sound(rest', method)
    <2> DEFINE t == Tail(rest)  u == Tail(t)  v == Tail(u)
    <2>1. /\ Sound(t, method) /\ t \in Seq(Statements) /\ Len(t) = Len(rest) - 1
          /\ \A i \in 1 .. (Len(rest) - 1) : t[i] = rest[i + 1]
      BY <1>1, Elements, TailSound DEF RestInv
    <2>2. Len(rest) >= 3
      BY <1>1, <1>2
    <2> HIDE DEF t
    <2>3. t # <<>>
      BY <1>1, <2>1, <2>2, EmptySeq
    <2>4. /\ Sound(u, method) /\ u \in Seq(Statements) /\ Len(u) = Len(rest) - 2
          /\ \A i \in 1 .. (Len(rest) - 2) : u[i] = t[i + 1]
      <3>1. Sound(u, method)
        BY <2>1, <2>3, TailSound
      <3>2. /\ u \in Seq(Statements) /\ Len(u) = Len(t) - 1
            /\ \A i \in 1 .. (Len(t) - 1) : u[i] = t[i + 1]
        BY <2>1, <2>3, Elements
      <3> HIDE DEF u
      <3> QED BY <1>1, <2>1, <3>1, <3>2
    <2> HIDE DEF u
    <2>5. u # <<>>
      BY <1>1, <2>2, <2>4, EmptySeq
    <2>6. /\ Sound(v, method) /\ v \in Seq(Statements) /\ Len(v) = Len(rest) - 3
          /\ \A i \in 1 .. (Len(rest) - 3) : v[i] = u[i + 1]
      <3>1. Sound(v, method)
        BY <2>4, <2>5, TailSound
      <3>2. /\ v \in Seq(Statements) /\ Len(v) = Len(u) - 1
            /\ \A i \in 1 .. (Len(u) - 1) : v[i] = u[i + 1]
        BY <2>4, <2>5, Elements
      <3> HIDE DEF v
      <3> QED BY <1>1, <2>4, <3>1, <3>2
    <2> HIDE DEF v
    <2>7. \A i \in 1 .. (Len(rest) - 3) : v[i] = rest[i + 3]
      <3> TAKE i \in 1 .. (Len(rest) - 3)
      <3>1. v[i] = u[i + 1] /\ u[i + 1] = t[(i + 1) + 1]
              /\ t[i + 2] = rest[(i + 2) + 1]
        BY <1>1, <2>1, <2>4, <2>6
      <3> QED BY <3>1
    <2>8. /\ rest' \in Seq(Statements) /\ Len(rest') = Len(rest) - 3
          /\ \A i \in 1 .. (Len(rest) - 3) : rest'[i] = rest[i + 3]
      <3>1. \A i \in 4 .. Len(rest) : rest[i] \in Statements
        BY <1>1, Elements
      <3>2. 4 \in Int /\ Len(rest) \in Int
        BY <1>1
      <3>3. /\ rest' \in Seq(Statements)
            /\ Len(rest') = IF 4 <= Len(rest) THEN Len(rest) - 4 + 1 ELSE 0
            /\ \A i \in 1 .. Len(rest) - 4 + 1 : rest'[i] = rest[4 + i - 1]
        BY <3>1, <3>2, SubSeqProperties
      <3> QED BY <1>1, <2>2, <3>3
    <2>9. rest' = v
      BY <2>6, <2>7, <2>8, SeqEqual
    <2> QED BY <2>6, <2>9
  <1>4. /\ DOMAIN rest' = 1 .. (Len(rest) - 3)
        /\ \A i \in DOMAIN rest' : rest'[i] = rest[i + 3]
    BY <1>1, <1>2
  <1>5. \A j \in DOMAIN rest : j > 3 => rest[j].op \notin Making
    BY <1>2 DEF RestInv, Sound, Orderly, Before
  <1>6. ASSUME NEW i \in DOMAIN rest'
        PROVE  i + 3 \in DOMAIN rest /\ i + 3 > 3 /\ i + 3 > 1
                 /\ rest'[i] = rest[i + 3]
    BY <1>1, <1>4
  <1>7. ASSUME NEW j \in DOMAIN rest, j > 1, rest[j].op \notin Making
        PROVE  \E i \in DOMAIN rest' : rest'[i] = rest[j]
    <2>1. j # 2 /\ j # 3
      BY <1>2, <1>7 DEF Making
    <2>2. j - 3 \in DOMAIN rest' /\ (j - 3) + 3 = j
      BY <1>1, <1>4, <1>7, <2>1
    <2> QED BY <1>4, <2>2
  <1> QED BY <1>3, <1>5, <1>6, <1>7 DEF Continues

\* What is left are statements that were left before.
LEMMA RestOfTail ==
    ASSUME RestInv, rest # <<>>, Proceed
    PROVE  /\ \A i \in DOMAIN rest' : \E j \in DOMAIN rest :
                j > 1 /\ rest'[i] = rest[j]
           /\ rest' # <<>> => Head(rest') = rest[2]
  <1>1. /\ Len(rest) \in Nat \ {0} /\ DOMAIN rest = 1 .. Len(rest)
        /\ rest' \in Seq(Statements) /\ Len(rest') = Len(rest) - 1
        /\ DOMAIN rest' = 1 .. (Len(rest) - 1)
        /\ \A i \in DOMAIN rest' : i + 1 \in DOMAIN rest /\ rest'[i] = rest[i + 1]
    <2>1. rest \in Seq(Statements)
      BY DEF RestInv, Sound
    <2> QED BY <2>1, Elements DEF Proceed
  <1>2. \A i \in DOMAIN rest' : \E j \in DOMAIN rest : j > 1 /\ rest'[i] = rest[j]
    BY <1>1
  <1>3. ASSUME rest' # <<>>
        PROVE  Head(rest') = rest[2]
    <2>1. Head(rest') = rest'[1] /\ 1 \in DOMAIN rest'
      BY <1>1, <1>3, Elements
    <2>2. rest'[1] = rest[1 + 1]
      BY <1>1, <2>1
    <2> QED BY <2>1, <2>2
  <1> QED BY <1>2, <1>3

\* What stays pending and owed.
LEMMA StillPending ==
    ASSUME RestInv, rest # <<>>, Continues
    PROVE  /\ \A op : Pending(op)' /\ op \notin Making =>
                  Pending(op) /\ \E j \in DOMAIN rest : /\ Before(rest[1], rest[j])
                                                        /\ rest[j].op = op
           /\ \A op : Pending(op) /\ op \notin Making /\ op # Head(rest).op =>
                Pending(op)'
           /\ \A r : Owed(r)' => \E j \in DOMAIN rest : /\ Before(rest[1], rest[j])
                                                        /\ rest[j].op = "free"
                                                        /\ rest[j].what = r
           /\ \A r : Owed(r) /\ ~ (Head(rest).op = "free" /\ What = r) => Owed(r)'
  <1>1. /\ Head(rest) = rest[1] /\ "free" \notin Making
        /\ \A i \in DOMAIN rest : i > 1 => Before(rest[1], rest[i])
        /\ \A i \in DOMAIN rest : i = 1 \/ i > 1
    BY NextStatement DEF Making
  <1>2. ASSUME NEW i \in DOMAIN rest', rest'[i].op \notin Making
        PROVE  \E j \in DOMAIN rest : Before(rest[1], rest[j]) /\ rest'[i] = rest[j]
    BY <1>1, <1>2 DEF Continues
  <1>3. ASSUME NEW j \in DOMAIN rest, rest[j].op \notin Making, rest[j] # rest[1]
        PROVE  \E i \in DOMAIN rest' : rest'[i] = rest[j]
    BY <1>1, <1>3 DEF Continues
  <1>4. ASSUME NEW op, Pending(op)', op \notin Making
        PROVE  Pending(op) /\ \E j \in DOMAIN rest :
                 Before(rest[1], rest[j]) /\ rest[j].op = op
    BY <1>2, <1>4 DEF Pending
  <1>5. ASSUME NEW op, Pending(op), op \notin Making, op # Head(rest).op
        PROVE  Pending(op)'
    BY <1>1, <1>3, <1>5 DEF Pending
  <1>6. ASSUME NEW r, Owed(r)'
        PROVE  \E j \in DOMAIN rest : /\ Before(rest[1], rest[j])
                                      /\ rest[j].op = "free" /\ rest[j].what = r
    BY <1>1, <1>2, <1>6 DEF Owed
  <1>7. ASSUME NEW r, Owed(r), ~ (Head(rest).op = "free" /\ What = r)
        PROVE  Owed(r)'
    BY <1>1, <1>3, <1>7 DEF Owed, What
  <1> QED BY <1>4, <1>5, <1>6, <1>7

-----------------------------------------------------------------------------
(* Before the operation.                                                   *)

Early == Acquiring \cup {"warn", "begin", "operate"}

\* Before the operation the method is on its script, and nothing has failed.
LEMMA EarlyFacts ==
    ASSUME IndInv, at = "running", rest # <<>>, Head(rest).op \in Early
    PROVE  /\ Pending("operate") /\ OnScript /\ ReadyInv /\ KeysInv
           /\ Done \in Nat /\ Done + 1 \in DOMAIN Script
                /\ Script[Done + 1] = Head(rest)
           /\ Sane(method) /\ Script \in Seq(Statements)
           /\ null = FALSE /\ failed = FALSE
  <1>1. /\ 1 \in DOMAIN rest /\ Head(rest) = rest[1]
        /\ Len(rest) \in Nat \ {0} /\ DOMAIN rest = 1 .. Len(rest)
    BY NextStatement DEF IndInv
  <1>2. Pending("operate")
    <2>1. Phase(rest[1].op) < 2 \/ rest[1].op = "operate"
      BY <1>1, Phases DEF Early
    <2>2. Phase(rest[1].op) < 2 => Later(rest, 1, {"operate"}, {"none", "key"})
      BY <1>1 DEF IndInv, RestInv, Sound, Orderly
    <2> QED BY <1>1, <2>1, <2>2 DEF Later, Pending
  <1>3. OnScript /\ ReadyInv /\ KeysInv
    BY <1>2 DEF IndInv, BeforeInv
  <1>4. Sane(method)
    BY AllSane DEF IndInv, TypeOK
  <1>5. Script \in Seq(Statements)
    BY <1>4 DEF Sane, Sound, Script
  <1>6. Done \in Nat /\ Done + 1 \in DOMAIN Script /\ Script[Done + 1] = Head(rest)
    <2>1. Len(Script) \in Nat /\ DOMAIN Script = 1 .. Len(Script)
      BY <1>5, LenProperties
    <2>2. Done \in Nat /\ Done = Len(Script) - Len(rest)
      BY <1>3 DEF OnScript, Done
    <2>3. rest[1] = Script[Done + 1]
      BY <1>1, <1>3 DEF OnScript
    <2>4. Done + 1 \in 1 .. Len(Script)
      BY <1>1, <2>1, <2>2
    <2> QED BY <1>1, <2>1, <2>2, <2>3, <2>4
  <1> QED BY <1>2, <1>3, <1>4, <1>5, <1>6 DEF OnScript

\* What is acquired by the next statement.
LEMMA AcquiredNext ==
    ASSUME NEW s, NEW n \in Nat, n + 1 \in DOMAIN s, DOMAIN s \subseteq Nat
    PROVE  Acquired(s, n + 2) =
               Acquired(s, n + 1) \cup (IF s[n + 1].op \in Acquiring THEN {s[n + 1].what} ELSE {})
  <1>1. \A k \in DOMAIN s : k < n + 2 <=> k < n + 1 \/ k = n + 1
    OBVIOUS
  <1>2. ASSUME NEW x
        PROVE  x \in Acquired(s, n + 2) <=>
                   \/ x \in Acquired(s, n + 1)
                   \/ s[n + 1].op \in Acquiring /\ x = s[n + 1].what
    BY <1>1 DEF Acquired
  <1> QED BY <1>2

\* A step goes on to the next statement of the script.
LEMMA EarlyStep ==
    ASSUME IndInv, at = "running", rest # <<>>,
           Head(rest).op \in Acquiring \cup {"warn", "begin"},
           Proceed, UNCHANGED <<method, at, failed, null, item, holey>>,
           \A r \in Resources : var'[r] \in {var[r], "null", "live"},
           \A r \in Resources :
               var'[r] = "live" =>
                 var[r] = "live" \/ (r = What /\ Head(rest).op \in Acquiring),
           Head(rest).op \in Acquiring => var'[What] \in {"null", "live"}
    PROVE  /\ RestInv' /\ IdleInv' /\ OwedInv' /\ ResultInv' /\ ItemInv'
           /\ (OnScript /\ ReadyInv)'
           /\ null = FALSE /\ null' = FALSE /\ failed = FALSE
           /\ ~ detached
           /\ method # "get_engine_info" => item # "broken"
           /\ \A op : Pending(op)' /\ op \notin Making =>
                  Pending(op) /\ \E j \in DOMAIN rest :
                    Before(rest[1], rest[j]) /\ rest[j].op = op
  <1>0. Head(rest).op \in Early
          /\ Head(rest).op \notin {"operate", "end", "look", "free"}
    BY DEF Early, Acquiring
  <1>1. /\ Pending("operate") /\ OnScript /\ ReadyInv
        /\ Done \in Nat /\ Done + 1 \in DOMAIN Script
             /\ Script[Done + 1] = Head(rest)
        /\ Sane(method) /\ Script \in Seq(Statements)
        /\ null = FALSE /\ failed = FALSE
    BY <1>0, EarlyFacts
  <1>2. /\ Head(rest) = rest[1] /\ 1 \in DOMAIN rest /\ rest[1] \in Statements
        /\ Len(rest) \in Nat \ {0} /\ DOMAIN rest = 1 .. Len(rest)
        /\ rest \in Seq(Statements)
    BY NextStatement DEF IndInv
  <1>3. Continues
    BY ProceedContinues DEF IndInv
  <1>4. RestInv'
    BY <1>3 DEF Continues, RestInv
  <1>5. IdleInv'
    BY DEF IdleInv
  <1>6. OnScript'
    <2>1. /\ Len(rest') = Len(rest) - 1 /\ DOMAIN rest' = 1 .. (Len(rest) - 1)
          /\ \A i \in DOMAIN rest' : i + 1 \in DOMAIN rest /\ rest'[i] = rest[i + 1]
      BY <1>2, Elements DEF Proceed
    <2>2. Script' = Script /\ Len(Script) \in Nat
      BY <1>1, LenProperties DEF Script
    <2>3. Done' = Done + 1
      BY <1>2, <2>1, <2>2 DEF Done
    <2>4. ASSUME NEW i \in DOMAIN rest'
          PROVE  rest'[i] = Script'[Done' + i]
      <3>1. rest'[i] = Script[Done + (i + 1)]
        BY <1>1, <2>1 DEF OnScript
      <3>2. Done + (i + 1) = (Done + 1) + i
        BY <1>1, <2>1
      <3> QED BY <2>2, <2>3, <3>1, <3>2
    <2> QED BY <1>1, <2>3, <2>4 DEF OnScript
  <1>7. /\ Done' + 1 = Done + 2 /\ Script' = Script
        /\ Method[method]' = Method[method]
    <2>1. /\ Len(rest') = Len(rest) - 1
      BY <1>2, Elements DEF Proceed
    <2>2. Script' = Script /\ Len(Script) \in Nat
      BY <1>1, LenProperties DEF Script
    <2> QED BY <1>1, <1>2, <2>1, <2>2 DEF Done
  <1>8. Acquired(Script, Done + 2) =
            Acquired(Script, Done + 1)
            \cup (IF Head(rest).op \in Acquiring THEN {What} ELSE {})
    <2>1. DOMAIN Script \subseteq Nat
      BY <1>1, LenProperties
    <2> QED BY <1>1, <2>1, AcquiredNext DEF What
  <1>9. What \in Resources \ {"result", "key"}
          \/ Head(rest).op \notin Acquiring
    BY <1>2, StatementsOf DEF What
  <1>10. ReadyInv'
    <2>1. var'["result"] # "live"
      BY <1>1, <1>9 DEF ReadyInv, Resources
    <2>2. /\ \A r \in Resources : var'[r] # "freed"
          /\ \A r \in Resources \cap Method[method].nulls : var'[r] # "unset"
      BY <1>1 DEF ReadyInv
    <2>3. ASSUME NEW r \in Acquired(Script, Done + 2)
          PROVE  var'[r] \in {"null", "live"}
      <3>1. CASE r \in Acquired(Script, Done + 1)
        <4>1. r \in Resources
          BY <1>1, <3>1, StatementsOf DEF Acquired
        <4> QED BY <1>1, <3>1, <4>1 DEF ReadyInv
      <3> QED BY <1>8, <2>3, <3>1
    <2>4. ASSUME NEW r \in Resources, var'[r] = "live"
          PROVE  r \in Acquired(Script, Done + 2)
      BY <1>1, <1>8, <2>4 DEF ReadyInv
    <2> QED BY <1>7, <2>1, <2>2, <2>3, <2>4 DEF ReadyInv
  <1>11. /\ \A op : Pending(op)' /\ op \notin Making =>
                Pending(op) /\ \E j \in DOMAIN rest :
                  Before(rest[1], rest[j]) /\ rest[j].op = op
         /\ \A op : Pending(op) /\ op \notin Making /\ op # Head(rest).op =>
              Pending(op)'
         /\ \A r : Owed(r) => Owed(r)'
    BY <1>0, <1>3, StillPending DEF IndInv
  <1>12. Pending("operate")'
    BY <1>0, <1>1, <1>11 DEF Making
  <1>13. OwedInv'
    <2>1. ASSUME NEW r \in Resources \ {"result"}, var'[r] = "live"
          PROVE  Owed(r)'
      <3>1. CASE var[r] = "live"
        BY <1>11, <3>1 DEF IndInv, OwedInv, Active
      <3>2. CASE r = What /\ Head(rest).op \in Acquiring
        <4>1. Later(rest, 1, {"free"}, {r})
          BY <1>2, <3>2 DEF IndInv, RestInv, Sound, Orderly, What
        <4> QED BY <1>11, <4>1 DEF Later, Owed
      <3> QED BY <2>1, <3>1, <3>2
    <2> QED BY <1>12, <2>1 DEF OwedInv
  <1>14. ResultInv'
    BY <1>10 DEF ResultInv, ReadyInv
  <1>15. method # "get_engine_info" => item # "broken"
    BY <1>0 DEF IndInv, ItemInv
  <1>16. ItemInv'
    BY <1>1, <1>15 DEF IndInv, ItemInv
  <1>17. ~ detached
    BY <1>0 DEF IndInv, DetachedInv
  <1> QED BY <1>1, <1>4, <1>5, <1>6, <1>10, <1>11, <1>13, <1>14, <1>15, <1>16, <1>17

\* A statement fails: what is left is to undo what has been acquired.
LEMMA FailStep ==
    ASSUME IndInv, at = "running", rest # <<>>, Head(rest).op \in Acquiring,
           Abandon, exc' \in {"gpgme", "other"},
           UNCHANGED <<method, at, failed, detached, item, holey>>,
           \A r \in Resources : var'[r] \in {var[r], "null", "live"},
           \A r \in Resources :
               var'[r] = "live" =>
                 var[r] = "live" \/ (r = "keys" /\ Head(rest).op = "borrow")
    PROVE  /\ RestInv' /\ IdleInv' /\ DetachedInv' /\ BeforeInv' /\ OwedInv'
           /\ ResultInv' /\ ErrorInv' /\ ItemInv'
           /\ \A n \in DOMAIN rest' : rest'[n].op # "begin"
  <1>0. Head(rest).op \in Early
          /\ Head(rest).op \notin {"operate", "end", "look", "free"}
    BY DEF Early, Acquiring
  <1>1. /\ ReadyInv
        /\ Done \in Nat /\ Done + 1 \in DOMAIN Script
             /\ Script[Done + 1] = Head(rest)
        /\ Sane(method) /\ Script \in Seq(Statements)
    BY <1>0, EarlyFacts
  <1>2. Undoes(rest', method, Done + 1)
    <2>1. rest' = Method[method].undo[Done + 1]
      BY DEF Abandon, Done, Script
    <2> QED BY <1>1, <2>1 DEF Sane, Script
  <1>3. /\ Sound(rest', method)
        /\ \A i \in DOMAIN rest' : rest'[i].op = "free"
        /\ Acquired(Script, Done + 1) \subseteq Frees(rest')
        /\ Head(rest).op = "borrow" => "keys" \in Frees(rest')
        /\ Frees(rest') \subseteq Acquired(Script, Done + 1) \cup Method[method].nulls
    BY <1>1, <1>2 DEF Undoes, Script
  <1>4. RestInv' /\ IdleInv'
    BY <1>3 DEF RestInv, IdleInv
  <1>5. DetachedInv'
    BY <1>0 DEF IndInv, DetachedInv
  <1>6. \A op : op # "free" => ~ Pending(op)'
    BY <1>3 DEF Pending
  <1>7. BeforeInv'
    BY <1>6 DEF BeforeInv
  <1>8. \A r : r \in Frees(rest') => Owed(r)'
    BY <1>3 DEF Frees, Owed
  <1>9. ASSUME NEW r \in Resources \ {"result"}, var'[r] = "live"
        PROVE  Owed(r)'
    BY <1>1, <1>3, <1>8, <1>9 DEF ReadyInv
  <1>10. ASSUME NEW i \in DOMAIN rest'
         PROVE  var'[rest'[i].what] \in {"null", "live"}
    <2> DEFINE r == rest'[i].what
    <2>1. r \in Frees(rest')
      BY DEF Frees
    <2>2. r \in Resources
      <3>1. rest'[i] \in Statements /\ rest'[i].op = "free"
        BY <1>3 DEF Sound
      <3> QED BY <3>1, StatementsOf
    <2> HIDE DEF r
    <2>3. var[r] \in {"null", "live"}
      <3>1. var[r] \in {"unset", "null", "live", "freed"}
        BY <2>2 DEF IndInv, TypeOK
      <3> QED BY <1>1, <1>3, <2>1, <2>2, <3>1 DEF ReadyInv
    <2>4. var'[r] \in {"null", "live"}
      BY <2>2, <2>3
    <2> QED BY <2>4 DEF r
  <1>11. OwedInv'
    BY <1>9, <1>10 DEF OwedInv
  <1>12. ResultInv'
    <2>1. var'["result"] # "live"
      BY <1>1 DEF ReadyInv, Resources
    <2> QED BY <2>1 DEF ResultInv
  <1>13. ErrorInv'
    BY DEF ErrorInv, Warned, Abandon
  <1>14. ItemInv'
    <2>1. method # "get_engine_info" => item # "broken" /\ holey = FALSE
      BY <1>0 DEF IndInv, ItemInv
    <2> QED BY <1>3, <2>1 DEF ItemInv, Making
  <1> QED BY <1>3, <1>4, <1>5, <1>7, <1>11, <1>12, <1>13, <1>14

-----------------------------------------------------------------------------
(* After the operation.                                                    *)

Late == Making \cup Discards \cup {"end", "check", "convert", "annotate", "free"}

\* A step after the operation.
LEMMA LateStep ==
    ASSUME IndInv, at = "running", rest # <<>>, Head(rest).op \in Late,
           Continues, UNCHANGED <<method, at>>,
           \A r \in Resources \ {"result"} :
               var'[r] = var[r] \/ (Head(rest).op = "free" /\ What = r),
           Head(rest).op = "free" => var'[What] # "live"
    PROVE  /\ RestInv' /\ IdleInv' /\ BeforeInv' /\ OwedInv'
           /\ ~ Pending("operate") /\ ~ Pending("operate")'
           /\ ~ Pending("begin")'
           /\ Head(rest) = rest[1] /\ 1 \in DOMAIN rest /\ rest[1] \in Statements
           /\ \A op : Pending(op)' /\ op \notin Making =>
                  Pending(op) /\ \E j \in DOMAIN rest :
                    Before(rest[1], rest[j]) /\ rest[j].op = op
           /\ \A op : Pending(op) /\ op \notin Making /\ op # Head(rest).op =>
                Pending(op)'
  <1>1. /\ Head(rest) = rest[1] /\ 1 \in DOMAIN rest /\ rest[1] \in Statements
        /\ rest \in Seq(Statements)
        /\ \A i \in DOMAIN rest : rest[i] \in Statements
        /\ \A i \in DOMAIN rest : i > 1 => Before(rest[1], rest[i])
        /\ \A i \in DOMAIN rest : i = 1 \/ i > 1
    BY NextStatement DEF IndInv
  <1>2. /\ \A op : Pending(op)' /\ op \notin Making =>
               Pending(op) /\ \E j \in DOMAIN rest :
                 Before(rest[1], rest[j]) /\ rest[j].op = op
        /\ \A op : Pending(op) /\ op \notin Making /\ op # Head(rest).op =>
             Pending(op)'
        /\ \A r : Owed(r)' => \E j \in DOMAIN rest : /\ Before(rest[1], rest[j])
                                                     /\ rest[j].op = "free"
                                                     /\ rest[j].what = r
        /\ \A r : Owed(r) /\ ~ (Head(rest).op = "free" /\ What = r) => Owed(r)'
    BY StillPending DEF IndInv
  <1>3. Phase(rest[1].op) > 2 /\ Phase(rest[1].op) \in 0 .. 4
    BY <1>1, Phases DEF Late
  <1>4. ~ Pending("operate") /\ ~ Pending("begin")
    <2>1. \A i \in DOMAIN rest : Phase(rest[i].op) > 2
      BY <1>1, <1>3, Phases DEF Before
    <2> QED BY <2>1, Phases DEF Pending
  <1>5. ~ Pending("operate")' /\ ~ Pending("begin")'
    BY <1>2, <1>4 DEF Making
  <1>6. RestInv' /\ IdleInv'
    BY DEF Continues, RestInv, IdleInv
  <1>7. BeforeInv'
    BY <1>5 DEF BeforeInv
  <1>8. ASSUME NEW r \in Resources \ {"result"}, var'[r] = "live"
        PROVE  Owed(r)'
    <2>1. ~ (Head(rest).op = "free" /\ What = r)
      BY <1>8
    <2>2. var[r] = "live"
      BY <1>8, <2>1
    <2> QED BY <1>2, <2>1, <2>2 DEF IndInv, OwedInv, Active
  <1>9. ASSUME NEW r, Owed(r)'
        PROVE  var'[r] \in {"null", "live"}
    <2>1. PICK j \in DOMAIN rest : /\ Before(rest[1], rest[j])
                                   /\ rest[j].op = "free"
                                   /\ rest[j].what = r
      BY <1>2, <1>9
    <2>2. r \in Resources \ {"result"}
      BY <1>1, <2>1, StatementsOf
    <2>3. ~ (Head(rest).op = "free" /\ What = r)
      BY <1>1, <2>1 DEF Before, What
    <2>4. var[r] \in {"null", "live"}
      BY <1>4, <2>1 DEF IndInv, OwedInv
    <2> QED BY <2>2, <2>3, <2>4
  <1>10. OwedInv'
    BY <1>8, <1>9 DEF OwedInv, Owed
  <1> QED BY <1>1, <1>2, <1>4, <1>5, <1>6, <1>7, <1>10

\* A file argument is wrapped, or what has been acquired is given up.
LEMMA OpenFileStep ==
    ASSUME IndInv, OpenFile
    PROVE  IndInv'
  <1>1. /\ at = "running" /\ rest # <<>> /\ Head(rest).op = "open"
        /\ Head(rest).op \in Acquiring
        /\ UNCHANGED <<method, at, kind, inseq, borrowed, detached, failed,
                       item, holey>>
    BY DEF OpenFile, Runs, Acquiring, built
  <1>2. What \in Files /\ What \in Resources
    BY <1>1, NextStatement, StatementsOf DEF IndInv, What, Resources
  <1>3. \/ (\E v \in {"null", "live"} : Assign(What, v)) /\ Proceed
             /\ UNCHANGED <<null, exc>>
        \/ (Assign(What, "null") \/ UNCHANGED var) /\ Abandon
             /\ exc' \in {"gpgme", "other"}
    BY DEF OpenFile, Fail, CheckError
  <1>4. /\ var' \in [Resources -> {"unset", "null", "live", "freed"}]
        /\ \A r \in Resources : r # What => var'[r] = var[r]
        /\ var'[What] \in {var[What], "null", "live"}
    BY <1>2, <1>3 DEF IndInv, TypeOK, Assign
  <1>8. lost' \subseteq Forgotten
    BY DEF OpenFile, CheckError, IndInv, TypeOK, Forgotten
  <1>5. CASE (\E v \in {"null", "live"} : Assign(What, v)) /\ Proceed
               /\ UNCHANGED <<null, exc>>
    <2>1. var'[What] \in {"null", "live"}
      BY <1>2, <1>5 DEF IndInv, TypeOK, Assign
    <2>2. /\ RestInv' /\ IdleInv' /\ OwedInv' /\ ResultInv' /\ ItemInv'
          /\ (OnScript /\ ReadyInv)'
          /\ null = FALSE /\ null' = FALSE /\ ~ detached
          /\ \A op : Pending(op)' /\ op \notin Making => Pending(op)
      BY <1>1, <1>4, <1>5, <2>1, EarlyStep
    <2>3. TypeOK'
      BY <1>1, <1>4, <1>5, <1>8, <2>2 DEF IndInv, TypeOK
    <2>4. KeysInv'
      <3>1. KeysInv
        BY <1>1, EarlyFacts DEF Early
      <3>2. "seq" # What
        BY <1>2 DEF Files
      <3> QED BY <1>1, <1>4, <2>2, <3>1, <3>2 DEF KeysInv, Making, Resources
    <2>5. ErrorInv'
      BY <1>1, <1>5, <2>2 DEF IndInv, ErrorInv, Warned, Active, OnScript
    <2> QED BY <1>1, <2>2, <2>3, <2>4, <2>5 DEF IndInv, BeforeInv, DetachedInv
  <1>6. CASE (Assign(What, "null") \/ UNCHANGED var) /\ Abandon
               /\ exc' \in {"gpgme", "other"}
    <2>1. \A r \in Resources : var'[r] = "live" => var[r] = "live"
      BY <1>2, <1>4, <1>6 DEF IndInv, TypeOK, Assign
    <2>2. /\ RestInv' /\ IdleInv' /\ DetachedInv' /\ BeforeInv' /\ OwedInv'
          /\ ResultInv' /\ ErrorInv' /\ ItemInv'
          /\ \A n \in DOMAIN rest' : rest'[n].op # "begin"
      BY <1>1, <1>4, <1>6, <2>1, FailStep
    <2>3. TypeOK'
      BY <1>1, <1>4, <1>6, <1>8, <2>2 DEF IndInv, TypeOK, Abandon
    <2> QED BY <2>2, <2>3 DEF IndInv
  <1> QED BY <1>3, <1>5, <1>6

\* The patterns are copied, or what has been acquired is given up.
LEMMA ParsePatternsStep ==
    ASSUME IndInv, ParsePatterns
    PROVE  IndInv'
  <1>1. /\ at = "running" /\ rest # <<>> /\ Head(rest).op = "parse"
        /\ Head(rest).op \in Acquiring
        /\ UNCHANGED <<method, at, kind, inseq, borrowed, detached, failed,
                       item, holey>>
    BY DEF ParsePatterns, Runs, Acquiring, built
  <1>2. What = "patterns" /\ {"patterns", "seq"} \subseteq Resources
    BY <1>1, NextStatement, StatementsOf DEF IndInv, What, Resources
  <1>3. /\ var' \in [Resources -> {"unset", "null", "live", "freed"}]
        /\ \A r \in Resources : r # "patterns" => var'[r] = var[r]
        /\ var'["patterns"] \in {"null", "live"}
        /\ lost' \subseteq Forgotten
    BY <1>2 DEF IndInv, TypeOK, ParsePatterns, Assign, Forgotten
  <1>4. \/ Proceed /\ UNCHANGED <<null, exc>>
        \/ Fail /\ var'["patterns"] = "null"
    BY <1>2 DEF ParsePatterns, IndInv, TypeOK, Assign
  <1>5. CASE Proceed /\ UNCHANGED <<null, exc>>
    <2>2. /\ RestInv' /\ IdleInv' /\ OwedInv' /\ ResultInv' /\ ItemInv'
          /\ (OnScript /\ ReadyInv)'
          /\ null = FALSE /\ null' = FALSE /\ ~ detached
          /\ \A op : Pending(op)' /\ op \notin Making => Pending(op)
      BY <1>1, <1>2, <1>3, <1>5, EarlyStep
    <2>3. TypeOK'
      BY <1>1, <1>3, <1>5, <2>2 DEF IndInv, TypeOK
    <2>4. KeysInv'
      <3>1. KeysInv
        BY <1>1, EarlyFacts DEF Early
      <3> QED BY <1>1, <1>2, <1>3, <2>2, <3>1 DEF KeysInv, Making
    <2>5. ErrorInv'
      BY <1>1, <1>5, <2>2 DEF IndInv, ErrorInv, Warned, Active, OnScript
    <2> QED BY <1>1, <2>2, <2>3, <2>4, <2>5 DEF IndInv, BeforeInv, DetachedInv
  <1>6. CASE Fail /\ var'["patterns"] = "null"
    <2>1. \A r \in Resources : var'[r] = "live" => var[r] = "live"
      BY <1>3, <1>6
    <2>2. /\ RestInv' /\ IdleInv' /\ DetachedInv' /\ BeforeInv' /\ OwedInv'
          /\ ResultInv' /\ ErrorInv' /\ ItemInv'
          /\ \A n \in DOMAIN rest' : rest'[n].op # "begin"
      BY <1>1, <1>3, <1>6, <2>1, FailStep DEF Fail
    <2>3. TypeOK'
      BY <1>1, <1>3, <1>6, <2>2 DEF IndInv, TypeOK, Fail, Abandon
    <2> QED BY <2>2, <2>3 DEF IndInv
  <1> QED BY <1>4, <1>5, <1>6

\* A sequence of keys is taken, or what has been acquired is given up.
LEMMA FastSequenceStep ==
    ASSUME IndInv, FastSequence
    PROVE  IndInv'
  <1>1. /\ at = "running" /\ rest # <<>>
             /\ Head(rest).op \in {"fast", "fast_or_none"}
        /\ Head(rest).op \in Acquiring
        /\ UNCHANGED <<method, at, borrowed, detached, failed, item, holey, lost>>
    BY DEF FastSequence, Runs, Acquiring, built
  <1>2. What = "seq" /\ "seq" \in Resources
    BY <1>1, NextStatement, StatementsOf DEF IndInv, What, Resources
  <1>3. /\ var' \in [Resources -> {"unset", "null", "live", "freed"}]
        /\ \A r \in Resources : r # "seq" => var'[r] = var[r]
        /\ var'["seq"] \in {var["seq"], "live"}
        /\ kind' \in SequenceKinds \cup {"none"} /\ inseq' \subseteq Keys
    BY <1>2 DEF IndInv, TypeOK, FastSequence, Assign
  <1>4. \/ /\ Proceed /\ UNCHANGED <<null, exc>>
           /\ var'["seq"] = "live"
                \/ (Head(rest).op = "fast_or_none" /\ UNCHANGED var)
        \/ Fail /\ UNCHANGED var
    BY <1>2 DEF FastSequence, IndInv, TypeOK, Assign, Runs
  <1>5. ReadyInv /\ KeysInv /\ Sane(method) /\ Done + 1 \in DOMAIN Script
          /\ Script[Done + 1] = Head(rest)
    BY <1>1, EarlyFacts DEF Early
  <1>6. CASE /\ Proceed /\ UNCHANGED <<null, exc>>
             /\ var'["seq"] = "live"
                  \/ (Head(rest).op = "fast_or_none" /\ UNCHANGED var)
    <2>1. var'["seq"] \in {"null", "live"}
      <3>1. CASE Head(rest).op = "fast_or_none" /\ UNCHANGED var
        <4>1. "seq" \in Method[method].nulls
          BY <1>2, <1>5, <3>1 DEF Sane, Script, What
        <4>2. var["seq"] \notin {"unset", "freed"}
          BY <1>2, <1>5, <4>1 DEF ReadyInv
        <4> QED BY <1>2, <3>1, <4>2 DEF IndInv, TypeOK
      <3> QED BY <1>6, <3>1
    <2>2. /\ RestInv' /\ IdleInv' /\ OwedInv' /\ ResultInv' /\ ItemInv'
          /\ (OnScript /\ ReadyInv)'
          /\ null = FALSE /\ null' = FALSE /\ ~ detached
      BY <1>1, <1>2, <1>3, <1>6, <2>1, EarlyStep
    <2>3. TypeOK'
      BY <1>1, <1>3, <1>6, <2>2 DEF IndInv, TypeOK
    <2>4. KeysInv'
      <3>1. borrowed = {}
        <4>1. Pending("fast") \/ Pending("fast_or_none")
          BY <1>1, NextStatement DEF IndInv, Pending
        <4> QED BY <1>5, <4>1 DEF KeysInv
      <3> QED BY <1>1, <3>1 DEF KeysInv
    <2>5. ErrorInv'
      BY <1>1, <1>6, <2>2 DEF IndInv, ErrorInv, Warned, Active, OnScript
    <2> QED BY <1>1, <2>2, <2>3, <2>4, <2>5 DEF IndInv, BeforeInv, DetachedInv
  <1>7. CASE Fail /\ UNCHANGED var
    <2>2. /\ RestInv' /\ IdleInv' /\ DetachedInv' /\ BeforeInv' /\ OwedInv'
          /\ ResultInv' /\ ErrorInv' /\ ItemInv'
          /\ \A n \in DOMAIN rest' : rest'[n].op # "begin"
      BY <1>1, <1>7, FailStep DEF Fail
    <2>3. TypeOK'
      BY <1>1, <1>3, <1>7, <2>2 DEF IndInv, TypeOK, Fail, Abandon
    <2> QED BY <2>2, <2>3 DEF IndInv
  <1> QED BY <1>4, <1>6, <1>7

\* The array is filled with the keys of a sequence the method holds.
LEMMA BorrowKeysStep ==
    ASSUME IndInv, BorrowKeys
    PROVE  IndInv'
  <1>1. /\ at = "running" /\ rest # <<>> /\ Head(rest).op = "borrow"
        /\ Head(rest).op \in Acquiring
        /\ UNCHANGED <<method, at, kind, inseq, detached, failed, item, holey, lost>>
    BY DEF BorrowKeys, Runs, Acquiring, built
  <1>2. What = "keys" /\ {"seq", "keys"} \subseteq Resources
    BY <1>1, NextStatement, StatementsOf DEF IndInv, What, Resources
  <1>3. /\ var' \in [Resources -> {"unset", "null", "live", "freed"}]
        /\ \A r \in Resources : r # "keys" => var'[r] = var[r]
        /\ var'["keys"] = IF var["seq"] = "live" THEN "live" ELSE var["keys"]
        /\ borrowed' \subseteq Keys
    BY <1>2 DEF IndInv, TypeOK, BorrowKeys, Assign
  <1>4. \/ /\ Proceed /\ UNCHANGED <<null, exc>>
           /\ borrowed' = IF var["seq"] = "live" THEN inseq ELSE {}
        \/ Fail
    BY DEF BorrowKeys
  <1>5. ReadyInv /\ KeysInv /\ Sane(method) /\ Done + 1 \in DOMAIN Script
          /\ Script[Done + 1] = Head(rest)
    BY <1>1, EarlyFacts DEF Early
  <1>6. CASE /\ Proceed /\ UNCHANGED <<null, exc>>
             /\ borrowed' = IF var["seq"] = "live" THEN inseq ELSE {}
    <2>1. var'["keys"] \in {"null", "live"}
      <3>1. "keys" \in Method[method].nulls
        BY <1>1, <1>2, <1>5 DEF Sane, Script, What
      <3>2. var["keys"] \notin {"unset", "freed"}
        BY <1>2, <1>5, <3>1 DEF ReadyInv
      <3>3. var["keys"] \in {"unset", "null", "live", "freed"}
        BY <1>2 DEF IndInv, TypeOK
      <3> QED BY <1>3, <3>2, <3>3
    <2>2. /\ RestInv' /\ IdleInv' /\ OwedInv' /\ ResultInv' /\ ItemInv'
          /\ (OnScript /\ ReadyInv)'
          /\ null = FALSE /\ null' = FALSE /\ ~ detached
          /\ \A op : Pending(op)' /\ op \notin Making =>
                 \E j \in DOMAIN rest : Before(rest[1], rest[j]) /\ rest[j].op = op
      BY <1>1, <1>2, <1>3, <1>6, <2>1, EarlyStep
    <2>3. TypeOK'
      BY <1>1, <1>3, <1>6, <2>2 DEF IndInv, TypeOK
    <2>4. KeysInv'
      <3>1. ~ Pending("fast")' /\ ~ Pending("fast_or_none")'
        <4>1. rest[1].op = "borrow"
          BY <1>1, NextStatement DEF IndInv
        <4> QED BY <2>2, <4>1 DEF Before, Making
      <3> QED BY <1>1, <1>2, <1>3, <1>6, <3>1 DEF KeysInv
    <2>5. ErrorInv'
      BY <1>1, <1>6, <2>2 DEF IndInv, ErrorInv, Warned, Active, OnScript
    <2> QED BY <1>1, <2>2, <2>3, <2>4, <2>5 DEF IndInv, BeforeInv, DetachedInv
  <1>7. CASE Fail
    <2>2. /\ RestInv' /\ IdleInv' /\ DetachedInv' /\ BeforeInv' /\ OwedInv'
          /\ ResultInv' /\ ErrorInv' /\ ItemInv'
          /\ \A n \in DOMAIN rest' : rest'[n].op # "begin"
      BY <1>1, <1>3, <1>7, FailStep DEF Fail
    <2>3. TypeOK'
      BY <1>1, <1>3, <1>7, <2>2 DEF IndInv, TypeOK, Fail, Abandon
    <2> QED BY <2>2, <2>3 DEF IndInv
  <1> QED BY <1>4, <1>6, <1>7

\* A deprecation warning: it may leave an exception nobody looks at.
LEMMA DoWarnStep ==
    ASSUME IndInv, DoWarn
    PROVE  IndInv'
  <1>1. /\ at = "running" /\ rest # <<>> /\ Head(rest).op = "warn"
        /\ Head(rest).op \notin Acquiring /\ Proceed
        /\ UNCHANGED <<method, at, var, kind, inseq, borrowed, detached,
                       failed, null, item, holey, lost>>
        /\ exc' \in {"none", "other"} /\ (~ WarningsRaise => exc' = "none")
    BY DEF DoWarn, Runs, Acquiring, built
  <1>2. /\ RestInv' /\ IdleInv' /\ OwedInv' /\ ResultInv' /\ ItemInv'
        /\ (OnScript /\ ReadyInv)'
        /\ null = FALSE /\ null' = FALSE /\ failed = FALSE /\ ~ detached
        /\ \A op : Pending(op)' /\ op \notin Making => Pending(op)
    BY <1>1, EarlyStep
  <1>3. TypeOK'
    BY <1>1, <1>2 DEF IndInv, TypeOK
  <1>4. KeysInv'
    <2>1. KeysInv
      BY <1>1, EarlyFacts DEF Early
    <2> QED BY <1>1, <1>2, <2>1 DEF KeysInv, Making
  <1>5. ErrorInv'
    <2>1. /\ Sane(method) /\ Done + 1 \in DOMAIN Script
          /\ Script[Done + 1].op = "warn"
      BY <1>1, EarlyFacts DEF Early
    <2>2. method \in {"edit", "card_edit"}
      BY <2>1 DEF Sane, MayAcquire, Script
    <2> QED BY <1>1, <1>2, <2>2 DEF ErrorInv, Warned
  <1> QED BY <1>1, <1>2, <1>3, <1>4, <1>5 DEF IndInv, BeforeInv, DetachedInv

\* The thread state is given up just before the operation.
LEMMA DoBeginStep ==
    ASSUME IndInv, DoBegin
    PROVE  IndInv'
  <1>1. /\ at = "running" /\ rest # <<>> /\ Head(rest).op = "begin"
        /\ Head(rest).op \notin Acquiring /\ Proceed /\ detached' = TRUE
        /\ UNCHANGED <<method, at, var, kind, inseq, borrowed, failed, null,
                       exc, item, holey, lost>>
    BY DEF DoBegin, Runs, Acquiring, built
  <1>2. /\ RestInv' /\ IdleInv' /\ OwedInv' /\ ResultInv' /\ ItemInv'
        /\ (OnScript /\ ReadyInv)'
        /\ null = FALSE /\ null' = FALSE /\ failed = FALSE
        /\ \A op : Pending(op)' /\ op \notin Making => Pending(op)
    BY <1>1, EarlyStep
  <1>3. TypeOK'
    BY <1>1, <1>2 DEF IndInv, TypeOK
  <1>4. KeysInv'
    <2>1. KeysInv
      BY <1>1, EarlyFacts DEF Early
    <2> QED BY <1>1, <1>2, <2>1 DEF KeysInv, Making
  <1>5. ErrorInv'
    BY <1>1, <1>2 DEF IndInv, ErrorInv, Warned, Active
  <1>6. DetachedInv'
    <2>1. /\ rest \in Seq(Statements) /\ 1 \in DOMAIN rest /\ Head(rest) = rest[1]
          /\ Len(rest) \in Nat \ {0}
      BY <1>1, NextStatement DEF IndInv
    <2>2. 2 \in DOMAIN rest /\ rest[2].op = "operate"
      <3>1. Follows(rest, 1, {"operate"})
        BY <1>1, <2>1 DEF IndInv, RestInv, Sound, Orderly
      <3> QED BY <3>1 DEF Follows
    <2>3. rest' \in Seq(Statements) /\ Len(rest') = Len(rest) - 1
            /\ DOMAIN rest = 1 .. Len(rest)
          /\ \A i \in 1 .. (Len(rest) - 1) : rest'[i] = rest[i + 1]
      BY <1>1, <2>1, Elements DEF Proceed
    <2>4. rest' # <<>> /\ rest'[1] = rest[2]
      BY <2>1, <2>2, <2>3
    <2>5. Head(rest') = rest'[1]
      BY <2>3, <2>4, Elements
    <2> QED BY <1>1, <2>2, <2>4, <2>5 DEF DetachedInv
  <1> QED BY <1>2, <1>3, <1>4, <1>5, <1>6 DEF IndInv, BeforeInv

\* The operation: what is freed after it has been acquired before it.
LEMMA DoOperateStep ==
    ASSUME IndInv, DoOperate
    PROVE  IndInv'
  <1>1. /\ at = "running" /\ rest # <<>> /\ Head(rest).op = "operate" /\ Proceed
        /\ failed' \in BOOLEAN
        /\ IF What = "none" THEN UNCHANGED var
           ELSE Assign(What, IF failed' THEN "null" ELSE "live")
        /\ UNCHANGED <<method, at, kind, inseq, borrowed, detached, null, exc,
                       item, holey, lost>>
    BY DEF DoOperate, Runs, built
  <1>2. /\ ReadyInv /\ OnScript /\ Done \in Nat
        /\ Done + 1 \in DOMAIN Script /\ Script[Done + 1] = Head(rest)
        /\ Sane(method) /\ Script \in Seq(Statements)
        /\ null = FALSE /\ failed = FALSE
    BY <1>1, EarlyFacts DEF Early
  <1>3. /\ Head(rest) = rest[1] /\ 1 \in DOMAIN rest /\ rest[1] \in Statements
        /\ Len(rest) \in Nat \ {0} /\ DOMAIN rest = 1 .. Len(rest)
        /\ rest \in Seq(Statements)
        /\ \A i \in DOMAIN rest : rest[i] \in Statements
        /\ \A i \in DOMAIN rest : i = 1 \/ i > 1
    BY <1>1, NextStatement DEF IndInv
  <1>4. What \in {"none", "key"} /\ (What = "key" => rest[1] = OperateKey)
          /\ "key" \in Resources
    BY <1>1, <1>3, StatementsOf DEF What, Resources
  <1>5. /\ var' \in [Resources -> {"unset", "null", "live", "freed"}]
        /\ \A r \in Resources : r # "key" => var'[r] = var[r]
        /\ What = "key" => var'["key"] \in {"null", "live"}
        /\ What # "key" => var' = var
    BY <1>1, <1>4 DEF IndInv, TypeOK, Assign
  <1>6. Continues
    BY <1>1, ProceedContinues DEF IndInv
  <1>7. /\ \A op : Pending(op)' /\ op \notin Making =>
               Pending(op) /\ \E j \in DOMAIN rest :
                 Before(rest[1], rest[j]) /\ rest[j].op = op
        /\ \A op : Pending(op) /\ op \notin Making /\ op # Head(rest).op =>
             Pending(op)'
        /\ \A r : Owed(r)' => \E j \in DOMAIN rest : /\ Before(rest[1], rest[j])
                                                     /\ rest[j].op = "free"
                                                     /\ rest[j].what = r
        /\ \A r : Owed(r) /\ ~ (Head(rest).op = "free" /\ What = r) => Owed(r)'
    BY <1>1, <1>6, StillPending DEF IndInv
  <1>8. RestInv' /\ IdleInv'
    BY <1>1, <1>6 DEF Continues, RestInv, IdleInv
  <1>9. ~ Pending("operate")' /\ ~ Pending("begin")'
    <2>1. rest[1].op = "operate" /\ Phase("operate") = 2 /\ Phase("begin") = 1
      BY <1>1, <1>3, Phases
    <2> QED BY <1>7, <2>1 DEF Before, Making
  <1>10. BeforeInv'
    BY <1>9 DEF BeforeInv
  <1>11. TypeOK'
    BY <1>1, <1>2, <1>5 DEF IndInv, TypeOK
  <1>12. DetachedInv'
    <2>1. 2 \in DOMAIN rest /\ rest[2].op = "end"
      <3>1. Follows(rest, 1, {"end"})
        BY <1>1, <1>3 DEF IndInv, RestInv, Sound, Orderly
      <3> QED BY <3>1 DEF Follows
    <2>2. rest' \in Seq(Statements) /\ Len(rest') = Len(rest) - 1
          /\ \A i \in 1 .. (Len(rest) - 1) : rest'[i] = rest[i + 1]
      BY <1>1, <1>3, Elements DEF Proceed
    <2>3. rest' # <<>> /\ rest'[1] = rest[2]
      BY <1>3, <2>1, <2>2
    <2>4. Head(rest') = rest'[1]
      BY <2>2, <2>3, Elements
    <2> QED BY <1>1, <2>1, <2>3, <2>4 DEF DetachedInv
  <1>13. ASSUME NEW r \in Resources \ {"result"}, var'[r] = "live"
         PROVE  Owed(r)'
    <2>1. CASE var[r] = "live"
      BY <1>1, <1>7, <2>1 DEF IndInv, OwedInv, Active
    <2>2. CASE var[r] # "live"
      <3>1. r = "key" /\ What = "key"
        BY <1>4, <1>5, <1>13, <2>2
      <3>2. Later(rest, 1, {"free"}, {"key"})
        BY <1>3, <1>4, <3>1 DEF IndInv, RestInv, Sound, Orderly, What
      <3> QED BY <1>1, <1>7, <3>1, <3>2 DEF Later, Owed
    <2> QED BY <2>1, <2>2
  <1>14. ASSUME NEW j \in DOMAIN rest, rest[j].op = "free"
         PROVE  var'[rest[j].what] \in {"null", "live"}
    <2> DEFINE r == rest[j].what  k == Done + j
    <2>1. k \in DOMAIN Script /\ Script[k] = rest[j] /\ Done + 1 < k
      <3>1. Len(Script) \in Nat /\ DOMAIN Script = 1 .. Len(Script)
              /\ Done = Len(Script) - Len(rest)
        BY <1>2, LenProperties DEF Done
      <3>2. j > 1
        BY <1>1, <1>3, <1>14
      <3> QED BY <1>2, <1>3, <3>1, <3>2 DEF OnScript
    <2>2. DOMAIN Script \subseteq Nat
      BY <1>2, LenProperties
    <2>3. r \in Resources \ {"result"} /\ Script[k] = Free(r)
      BY <1>3, <1>14, <2>1, StatementsOf
    <2> HIDE DEF k
    <2>4. CASE r \in Acquired(Script, k)
      <3> PICK i \in DOMAIN Script :
                 i < k /\ Script[i].op \in Acquiring /\ Script[i].what = r
        BY <2>4 DEF Acquired
      <3>1. i < Done + 1
        <4>1. CASE i = Done + 1
          BY <1>1, <1>2, <4>1 DEF Acquiring
        <4>2. CASE i > Done + 1
          <5>1. Before(Script[Done + 1], Script[i])
            BY <1>2, <2>2, <4>2 DEF Sane, Sound, Orderly, Script
          <5>2. Phase(Script[i].op) = 0 /\ Phase("operate") = 2
            BY Phases
          <5> QED BY <1>1, <1>2, <5>1, <5>2 DEF Before
        <4> QED BY <1>2, <2>2, <4>1, <4>2
      <3>2. r \in Acquired(Script, Done + 1)
        BY <3>1 DEF Acquired
      <3>3. var[r] \in {"null", "live"}
        BY <1>2, <3>2 DEF ReadyInv
      <3> QED BY <1>5, <2>3, <3>3
    <2>5. CASE r = "key"
      <3>1. PICK i \in DOMAIN Script : i < k /\ Script[i] = OperateKey
        <4>1. Script[k] = Free("key")
          BY <2>3, <2>5
        <4>2. \A x \in DOMAIN Script :
                  Script[x] = Free("key") =>
                      \E y \in DOMAIN Script : y < x /\ Script[y] = OperateKey
          BY <1>2 DEF Sane, Script
        <4> QED BY <2>1, <4>1, <4>2
      <3>2. i = Done + 1
        <4>1. Script[i].op = "operate" /\ Script[Done + 1].op = "operate"
          BY <1>1, <1>2, <3>1, Operating
        <4>2. \A x, y \in DOMAIN Script : x < y => Before(Script[x], Script[y])
          BY <1>2 DEF Sane, Sound, Orderly, Script
        <4>3. ~ (i < Done + 1) /\ ~ (Done + 1 < i)
          BY <1>2, <4>1, <4>2 DEF Before
        <4> QED BY <1>2, <2>2, <4>3
      <3>3. What = "key"
        BY <1>2, <3>1, <3>2, Operating DEF What
      <3> QED BY <1>5, <2>5, <3>3
    <2>6. r \in Acquired(Script, k) \/ r = "key"
      BY <1>2, <1>14, <2>1 DEF Sane, Script
    <2> QED BY <2>4, <2>5, <2>6
  <1>15. OwedInv'
    <2>1. \A r : Owed(r)' => var'[r] \in {"null", "live"}
      BY <1>7, <1>14
    <2> QED BY <1>13, <2>1 DEF OwedInv, Owed
  <1>16. ResultInv'
    <2>1. var'["result"] # "live"
      BY <1>2, <1>5 DEF ReadyInv, Resources
    <2> QED BY <2>1 DEF ResultInv
  <1>17. ErrorInv'
    <2>1. Pending("check")'
      <3>1. Later(rest, 1, {"check"}, {"none"})
        BY <1>1, <1>3 DEF IndInv, RestInv, Sound, Orderly
      <3> QED BY <1>1, <1>7, <3>1 DEF Later, Pending, Making
    <2> QED BY <1>1, <1>2, <2>1 DEF IndInv, ErrorInv, Warned
  <1>18. ItemInv'
    BY <1>1, <1>2 DEF IndInv, ItemInv
  <1> QED BY <1>8, <1>10, <1>11, <1>12, <1>15, <1>16, <1>17, <1>18 DEF IndInv

\* The thread state is taken again just after the operation.
LEMMA DoEndStep ==
    ASSUME IndInv, DoEnd
    PROVE  IndInv'
  <1>1. /\ at = "running" /\ rest # <<>> /\ Head(rest).op = "end" /\ Proceed
        /\ detached' = FALSE
        /\ UNCHANGED <<method, at, var, kind, inseq, borrowed, failed, null,
                       exc, item, holey, lost>>
    BY DEF DoEnd, Runs, built
  <1>2. Continues /\ Head(rest).op \in Late
    BY <1>1, ProceedContinues DEF IndInv, Late
  <1>3. /\ RestInv' /\ IdleInv' /\ BeforeInv' /\ OwedInv'
        /\ ~ Pending("begin")'
        /\ \A op : Pending(op)' /\ op \notin Making => Pending(op)
        /\ \A op : Pending(op) /\ op \notin Making /\ op # "end" => Pending(op)'
    BY <1>1, <1>2, LateStep
  <1>4. TypeOK'
    BY <1>1, <1>3 DEF IndInv, TypeOK, Pending
  <1>5. DetachedInv'
    BY <1>1 DEF DetachedInv
  <1>6. ResultInv'
    BY <1>1, <1>3 DEF IndInv, ResultInv, Active, Interrupted, Making
  <1>7. ErrorInv'
    BY <1>1, <1>3 DEF IndInv, ErrorInv, Warned, Active, Making
  <1>8. ItemInv'
    <2>1. \A i \in DOMAIN rest' : \E j \in DOMAIN rest : rest'[i] = rest[j]
      BY <1>1, RestOfTail DEF IndInv
    <2> QED BY <1>1, <2>1 DEF IndInv, ItemInv
  <1> QED BY <1>3, <1>4, <1>5, <1>6, <1>7, <1>8 DEF IndInv

\* An error of the operation becomes the exception, and the method is going to
\* return NULL: its result has to be given up after that.
LEMMA DoCheckStep ==
    ASSUME IndInv, DoCheck
    PROVE  IndInv'
  <1>1. /\ at = "running" /\ rest # <<>> /\ Head(rest).op = "check" /\ Proceed
        /\ null' = (null \/ failed)
        /\ IF failed THEN exc' \in {"gpgme", "other"} ELSE UNCHANGED exc
        /\ lost' \subseteq lost \cup {"error"}
        /\ UNCHANGED <<method, at, var, kind, inseq, borrowed, detached,
                       failed, item, holey>>
    BY DEF DoCheck, CheckError, Runs
  <1>2. Continues /\ Head(rest).op \in Late
    BY <1>1, ProceedContinues DEF IndInv, Late
  <1>3. /\ RestInv' /\ IdleInv' /\ BeforeInv' /\ OwedInv'
        /\ ~ Pending("begin")' /\ Head(rest) = rest[1] /\ 1 \in DOMAIN rest
        /\ \A op : Pending(op)' /\ op \notin Making =>
               Pending(op) /\ \E j \in DOMAIN rest :
                 Before(rest[1], rest[j]) /\ rest[j].op = op
        /\ \A op : Pending(op) /\ op \notin Making /\ op # "check" => Pending(op)'
    BY <1>1, <1>2, LateStep
  <1>4. TypeOK'
    BY <1>1, <1>3 DEF IndInv, TypeOK, Forgotten, Pending
  <1>5. DetachedInv'
    BY <1>1 DEF IndInv, DetachedInv
  <1>6. ~ Pending("check")' /\ Pending("check")
    <2>1. Pending("check")
      BY <1>1, <1>3 DEF Pending
    <2>2. \A j \in DOMAIN rest : Before(rest[1], rest[j]) => rest[j].op # "check"
      BY <1>1, <1>3 DEF Before
    <2>3. ~ Pending("check")'
      BY <1>3, <2>2 DEF Making
    <2> QED BY <2>1, <2>3
  <1>7. ResultInv'
    <2> SUFFICES ASSUME var["result"] = "live"
                 PROVE  /\ ~ Pending("convert")'
                        /\ null' => \/ Pending("discard")'
                                    \/ Pending("discard_if_gpgme")'
                                         /\ exc' = "gpgme"
                                    \/ Interrupted'
      BY <1>1, <1>6 DEF ResultInv, Active
    <2>1. /\ ~ Pending("convert")
          /\ Pending("discard") \/ Pending("discard_if_gpgme")
          /\ null => \/ Pending("discard")
                     \/ Pending("discard_if_gpgme") /\ exc = "gpgme"
                     \/ Interrupted
      BY <1>1, <1>6 DEF IndInv, ResultInv, Active
    <2>2. ~ Pending("convert")'
      BY <1>3, <2>1 DEF Making
    <2>3. /\ Pending("discard") => Pending("discard")'
          /\ Pending("discard_if_gpgme") => Pending("discard_if_gpgme")'
      BY <1>3 DEF Making
    <2>4. Pending("discard_if_gpgme") => method = "genkey"
      BY DEF IndInv, RestInv, Sound, Allowed, Pending
    <2> QED BY <1>1, <2>1, <2>2, <2>3, <2>4 DEF Interrupted
  <1>8. ErrorInv'
    BY <1>1 DEF IndInv, ErrorInv, Warned, TypeOK
  <1>9. ItemInv'
    <2>1. ASSUME NEW i \in DOMAIN rest'
          PROVE  rest'[i].op \notin Making
      <3>1. \E j \in DOMAIN rest : j > 1 /\ rest'[i] = rest[j]
        BY <1>1, RestOfTail DEF IndInv
      <3>2. \A j \in DOMAIN rest : j > 1 => Before(rest[1], rest[j])
        BY <1>1, NextStatement DEF IndInv
      <3> QED BY <1>1, <1>3, <3>1, <3>2 DEF Before, Making
    <2>2. method # "get_engine_info" => item # "broken"
      BY <1>1 DEF IndInv, ItemInv
    <2> QED BY <1>1, <2>1, <2>2 DEF IndInv, ItemInv
  <1> QED BY <1>3, <1>4, <1>5, <1>7, <1>8, <1>9 DEF IndInv

\* The result is made: a method that checks the operation after that gives it
\* up if it fails.
LEMMA DoConvertStep ==
    ASSUME IndInv, DoConvert
    PROVE  IndInv'
  <1>1. /\ at = "running" /\ rest # <<>> /\ Head(rest).op = "convert"
        /\ UNCHANGED <<method, at, kind, inseq, borrowed, detached, failed,
                       item, holey>>
        /\ lost' \subseteq lost \cup {"import_result"}
    BY DEF DoConvert, Runs
  <1>2. \/ null /\ Proceed /\ UNCHANGED <<var, null, exc>>
        \/ /\ ~ null /\ Assign("result", "live")
           /\ rest' = <<Items(What)>> \o Tail(rest)
           /\ UNCHANGED <<null, exc>>
        \/ /\ ~ null /\ Assign("result", "null") /\ null' = TRUE /\ exc' = "other"
           /\ Proceed
    BY DEF DoConvert
  <1>3. Continues /\ Head(rest).op \in Late
    BY <1>1, <1>2, ProceedContinues, LoopContinues DEF IndInv, Late
  <1>4. /\ var' \in [Resources -> {"unset", "null", "live", "freed"}]
        /\ \A r \in Resources \ {"result"} : var'[r] = var[r]
        /\ "result" \in Resources
    BY <1>2 DEF IndInv, TypeOK, Assign, Resources
  <1>5. /\ RestInv' /\ IdleInv' /\ BeforeInv' /\ OwedInv'
        /\ ~ Pending("begin")' /\ Head(rest) = rest[1] /\ 1 \in DOMAIN rest
        /\ rest[1] \in Statements
        /\ \A op : Pending(op)' /\ op \notin Making =>
               Pending(op) /\ \E j \in DOMAIN rest :
                 Before(rest[1], rest[j]) /\ rest[j].op = op
        /\ \A op : Pending(op) /\ op \notin Making /\ op # "convert" => Pending(op)'
    BY <1>1, <1>3, <1>4, LateStep
  <1>6. TypeOK'
    BY <1>1, <1>2, <1>4, <1>5 DEF IndInv, TypeOK, Forgotten, Pending
  <1>7. DetachedInv'
    BY <1>1 DEF IndInv, DetachedInv
  <1>8. ~ Pending("convert")'
    BY <1>1, <1>5 DEF Before, Making
  <1>9. ResultInv'
    <2>1. CASE null /\ Proceed /\ UNCHANGED <<var, null, exc>>
      <3>1. var["result"] # "live"
        BY <1>1, <1>5 DEF IndInv, ResultInv, Active, Pending
      <3> QED BY <2>1, <3>1 DEF ResultInv
    <2>2. CASE ~ null /\ UNCHANGED <<null, exc>>
      <3>1. ASSUME Pending("check")'
            PROVE  Pending("discard")' \/ Pending("discard_if_gpgme")'
        <4>1. PICK j \in DOMAIN rest :
                     Before(rest[1], rest[j]) /\ rest[j].op = "check"
          BY <1>5, <3>1 DEF Making
        <4>2. j > 1 /\ rest[j].what = "none"
          BY <1>1, <1>5, <4>1, NextStatement, StatementsOf DEF IndInv
        <4>3. Later(rest, 1, {"check"}, {"none"})
          BY <4>1, <4>2 DEF Later
        <4>4. Later(rest, 1, Discards, {"result"})
          BY <1>1, <1>5, <4>3 DEF IndInv, RestInv, Sound, Orderly
        <4>5. Pending("discard") \/ Pending("discard_if_gpgme")
          BY <4>4 DEF Later, Discards, Pending
        <4> QED BY <1>5, <4>5 DEF Making
      <3> QED BY <1>8, <2>2, <3>1 DEF ResultInv
    <2>3. CASE Assign("result", "null")
      BY <1>4, <2>3 DEF ResultInv, Assign, IndInv, TypeOK
    <2> QED BY <1>2, <2>1, <2>2, <2>3
  <1>10. method # "get_engine_info" => item # "broken"
    BY <1>1 DEF IndInv, ItemInv
  <1>11. ErrorInv'
    <2>1. Pending("check") => Pending("check")'
      BY <1>5 DEF Making
    <2> QED BY <1>1, <1>2, <1>10, <2>1 DEF IndInv, ErrorInv, Warned, Active
  <1>12. ItemInv'
    <2>1. CASE Proceed
      <3>1. ASSUME NEW i \in DOMAIN rest'
            PROVE  rest'[i].op \notin Making
        <4>1. \E j \in DOMAIN rest : j > 1 /\ rest'[i] = rest[j]
          BY <1>1, <2>1, RestOfTail DEF IndInv
        <4>2. \A j \in DOMAIN rest : j > 1 => Before(rest[1], rest[j])
          BY <1>1, NextStatement DEF IndInv
        <4> QED BY <1>1, <1>5, <4>1, <4>2 DEF Before, Making
      <3> QED BY <1>1, <1>10, <3>1 DEF IndInv, ItemInv
    <2>2. CASE ~ null /\ UNCHANGED null
      BY <1>1, <1>10, <2>2 DEF IndInv, ItemInv
    <2> QED BY <1>2, <2>1, <2>2
  <1> QED BY <1>5, <1>6, <1>7, <1>9, <1>11, <1>12 DEF IndInv

-----------------------------------------------------------------------------
(* The loop over the items of a result.                                    *)

\* A step that makes an item: the method is not going to return NULL.
LEMMA MakingStep ==
    ASSUME IndInv, at = "running", rest # <<>>, Head(rest).op \in Making,
           Continues, UNCHANGED <<method, at, var, detached, failed, null>>
    PROVE  /\ RestInv' /\ IdleInv' /\ DetachedInv' /\ BeforeInv' /\ OwedInv'
           /\ ResultInv'
           /\ null = FALSE
           /\ Pending("check") => Pending("check")'
  <1>1. Head(rest).op \in Late /\ Head(rest).op \notin {"free", "operate", "end"}
    BY DEF Late, Making
  <1>2. /\ RestInv' /\ IdleInv' /\ BeforeInv' /\ OwedInv'
        /\ Head(rest) = rest[1] /\ 1 \in DOMAIN rest
        /\ \A op : Pending(op)' /\ op \notin Making => Pending(op)
        /\ \A op : Pending(op) /\ op \notin Making /\ op # Head(rest).op =>
             Pending(op)'
    BY <1>1, LateStep
  <1>3. null = FALSE
    BY <1>2 DEF IndInv, ItemInv, TypeOK
  <1>4. DetachedInv'
    BY <1>1 DEF IndInv, DetachedInv
  <1>5. /\ Pending("check")' => Pending("check")
        /\ Pending("convert")' => Pending("convert")
        /\ Pending("check") => Pending("check")'
        /\ Pending("discard") => Pending("discard")'
        /\ Pending("discard_if_gpgme") => Pending("discard_if_gpgme")'
    BY <1>2 DEF Making
  <1>6. ResultInv'
    BY <1>3, <1>5 DEF IndInv, ResultInv, Active
  <1> QED BY <1>2, <1>3, <1>4, <1>5, <1>6

\* Another item is made, or the loop ends.
LEMMA DoItemsStep ==
    ASSUME IndInv, DoItems
    PROVE  IndInv'
  <1>1. /\ at = "running" /\ rest # <<>> /\ Head(rest).op = "items"
        /\ Proceed \/ rest' = Builder[What] \o rest
        /\ UNCHANGED <<method, at, var, kind, inseq, borrowed, detached,
                       failed, null, exc, item, holey, lost>>
    BY DEF DoItems, Runs, built
  <1>2. Continues /\ Head(rest).op \in Making
    BY <1>1, ProceedContinues, MakingContinues DEF IndInv, Making
  <1>3. /\ RestInv' /\ IdleInv' /\ DetachedInv' /\ BeforeInv' /\ OwedInv'
             /\ ResultInv'
        /\ null = FALSE /\ (Pending("check") => Pending("check")')
    BY <1>1, <1>2, MakingStep
  <1>4. TypeOK'
    BY <1>1, <1>3 DEF IndInv, TypeOK
  <1>5. ErrorInv'
    BY <1>1, <1>3 DEF IndInv, ErrorInv, Warned, Active
  <1>6. ItemInv'
    BY <1>1, <1>3 DEF IndInv, ItemInv
  <1> QED BY <1>3, <1>4, <1>5, <1>6 DEF IndInv

\* A member may be NULL: but for get_engine_info, that is looked at next.
LEMMA DoFillStep ==
    ASSUME IndInv, DoFill
    PROVE  IndInv'
  <1>1. /\ at = "running" /\ rest # <<>> /\ Head(rest).op = "fill" /\ Proceed
        /\ (item' = "whole" /\ UNCHANGED exc)
             \/ (item' = "broken" /\ exc' = "other")
        /\ UNCHANGED <<method, at, var, kind, inseq, borrowed, detached,
                       failed, null, holey, lost>>
    BY DEF DoFill, Runs
  <1>2. Continues /\ Head(rest).op \in Making
    BY <1>1, ProceedContinues DEF IndInv, Making
  <1>3. /\ RestInv' /\ IdleInv' /\ DetachedInv' /\ BeforeInv' /\ OwedInv'
             /\ ResultInv'
        /\ null = FALSE /\ (Pending("check") => Pending("check")')
    BY <1>1, <1>2, MakingStep
  <1>4. TypeOK'
    BY <1>1, <1>3 DEF IndInv, TypeOK
  <1>5. method # "get_engine_info" => item # "broken"
    BY <1>1 DEF IndInv, ItemInv
  <1>6. ErrorInv'
    BY <1>1, <1>3, <1>5 DEF IndInv, ErrorInv, Warned, Active
  <1>7. ASSUME method # "get_engine_info"
        PROVE  rest' # <<>> /\ Head(rest').op = "look"
    <2>1. /\ rest \in Seq(Statements) /\ 1 \in DOMAIN rest /\ Head(rest) = rest[1]
          /\ Len(rest) \in Nat \ {0} /\ DOMAIN rest = 1 .. Len(rest)
      BY <1>1, NextStatement DEF IndInv
    <2>2. 2 \in DOMAIN rest /\ rest[2].op = "look"
      <3>1. Follows(rest, 1, {"look"})
        BY <1>1, <1>7, <2>1 DEF IndInv, RestInv, Sound, Allowed
      <3> QED BY <3>1 DEF Follows
    <2>3. rest' \in Seq(Statements) /\ Len(rest') = Len(rest) - 1
      BY <1>1, <2>1, Elements DEF Proceed
    <2>4. rest' # <<>>
      BY <2>1, <2>2, <2>3
    <2>5. Head(rest') = rest[2]
      BY <1>1, <2>4, RestOfTail DEF IndInv
    <2> QED BY <2>2, <2>4, <2>5
  <1>8. ItemInv'
    BY <1>1, <1>3, <1>7 DEF IndInv, ItemInv
  <1> QED BY <1>3, <1>4, <1>6, <1>8 DEF IndInv

\* An exception: the result is dropped from inside the loop.
LEMMA DoLookStep ==
    ASSUME IndInv, DoLook
    PROVE  IndInv'
  <1>1. /\ at = "running" /\ rest # <<>> /\ Head(rest).op = "look"
        /\ IF exc = "none"
           THEN Proceed /\ UNCHANGED <<var, null, item>>
           ELSE /\ Assign("result", "null") /\ null' = TRUE /\ item' = "none"
                /\ rest' = SubSeq(rest, 4, Len(rest))
        /\ UNCHANGED <<method, at, kind, inseq, borrowed, detached, failed,
                       exc, holey, lost>>
    BY DEF DoLook, Runs
  <1>2. Head(rest).op \in Making /\ Head(rest).op \in Late
        /\ Head(rest).op \notin {"free", "operate", "end"}
    BY <1>1 DEF Making, Late
  <1>3. CASE exc = "none"
    <2>1. Proceed /\ UNCHANGED <<var, null, item>>
      BY <1>1, <1>3
    <2>2. Continues
      BY <1>1, <2>1, ProceedContinues DEF IndInv
    <2>3. /\ RestInv' /\ IdleInv' /\ DetachedInv' /\ BeforeInv' /\ OwedInv'
               /\ ResultInv'
          /\ null = FALSE /\ (Pending("check") => Pending("check")')
      BY <1>1, <1>2, <2>1, <2>2, MakingStep
    <2>4. TypeOK'
      BY <1>1, <2>1, <2>3 DEF IndInv, TypeOK
    <2>5. ErrorInv'
      BY <1>1, <2>1, <2>3 DEF IndInv, ErrorInv, Warned, Active
    <2>6. ItemInv'
      BY <1>1, <1>3, <2>1, <2>3 DEF IndInv, ItemInv
    <2> QED BY <2>3, <2>4, <2>5, <2>6 DEF IndInv
  <1>4. CASE exc # "none"
    <2>1. /\ Assign("result", "null") /\ null' = TRUE /\ item' = "none"
          /\ rest' = SubSeq(rest, 4, Len(rest))
      BY <1>1, <1>4
    <2>2. Continues /\ \A i \in DOMAIN rest' : rest'[i].op \notin Making
      BY <1>1, <2>1, AbortContinues DEF IndInv
    <2>3. /\ var' \in [Resources -> {"unset", "null", "live", "freed"}]
          /\ \A r \in Resources \ {"result"} : var'[r] = var[r]
          /\ var'["result"] = "null"
      BY <2>1 DEF IndInv, TypeOK, Assign, Resources
    <2>4. RestInv' /\ IdleInv' /\ BeforeInv' /\ OwedInv' /\ ~ Pending("begin")'
      BY <1>1, <1>2, <2>2, <2>3, LateStep
    <2>5. TypeOK'
      BY <1>1, <2>1, <2>3, <2>4 DEF IndInv, TypeOK, Pending
    <2>6. DetachedInv'
      BY <1>1, <1>2 DEF IndInv, DetachedInv
    <2>7. ResultInv'
      BY <2>3 DEF ResultInv
    <2>8. ErrorInv'
      BY <1>1, <1>4, <2>1 DEF ErrorInv, Warned
    <2>9. ItemInv'
      BY <1>1, <2>1, <2>2 DEF IndInv, ItemInv
    <2> QED BY <2>4, <2>5, <2>6, <2>7, <2>8, <2>9 DEF IndInv
  <1> QED BY <1>3, <1>4

\* An item is stored: it is whole, but for get_engine_info.
LEMMA DoStoreStep ==
    ASSUME IndInv, DoStore
    PROVE  IndInv'
  <1>1. /\ at = "running" /\ rest # <<>> /\ Head(rest).op = "store" /\ Proceed
        /\ holey' = (holey \/ item = "broken") /\ item' = "none"
        /\ UNCHANGED <<method, at, var, kind, inseq, borrowed, detached,
                       failed, null, exc, lost>>
    BY DEF DoStore, Runs
  <1>2. Continues /\ Head(rest).op \in Making
    BY <1>1, ProceedContinues DEF IndInv, Making
  <1>3. /\ RestInv' /\ IdleInv' /\ DetachedInv' /\ BeforeInv' /\ OwedInv'
             /\ ResultInv'
        /\ null = FALSE /\ (Pending("check") => Pending("check")')
    BY <1>1, <1>2, MakingStep
  <1>4. TypeOK'
    BY <1>1, <1>3 DEF IndInv, TypeOK
  <1>5. method # "get_engine_info" => item # "broken"
    BY <1>1 DEF IndInv, ItemInv
  <1>6. ErrorInv'
    BY <1>1, <1>3, <1>5 DEF IndInv, ErrorInv, Warned, Active
  <1>7. ItemInv'
    BY <1>1, <1>3, <1>5 DEF IndInv, ItemInv
  <1> QED BY <1>3, <1>4, <1>6, <1>7 DEF IndInv

-----------------------------------------------------------------------------
(* Results and resources.                                                  *)

\* Nothing left to do is in order.
LEMMA SoundEmpty ==
    ASSUME NEW m
    PROVE  Sound(<<>>, m)
  BY DEF Sound, Orderly, Allowed

\* The exception is given its attributes, or the process is gone.
LEMMA DoAnnotateStep ==
    ASSUME IndInv, DoAnnotate
    PROVE  IndInv'
  <1>1. /\ at = "running" /\ rest # <<>> /\ Head(rest).op = "annotate"
        /\ (Proceed /\ UNCHANGED at) \/ (at' = "crashed" /\ rest' = <<>>)
        /\ UNCHANGED <<method, var, kind, inseq, borrowed, detached, failed,
                       null, exc, item, holey, lost>>
    BY DEF DoAnnotate, Runs, built
  <1>2. /\ method # "get_engine_info" => item # "broken"
        /\ ~ detached
    BY <1>1 DEF IndInv, ItemInv, DetachedInv
  <1>3. CASE Proceed /\ UNCHANGED at
    <2>1. Continues /\ Head(rest).op \in Late
      BY <1>1, <1>3, ProceedContinues DEF IndInv, Late
    <2>2. /\ RestInv' /\ IdleInv' /\ BeforeInv' /\ OwedInv'
          /\ ~ Pending("begin")'
          /\ \A op : Pending(op)' /\ op \notin Making => Pending(op)
          /\ \A op : Pending(op) /\ op \notin Making /\ op # "annotate" =>
               Pending(op)'
      BY <1>1, <1>3, <2>1, LateStep
    <2>3. TypeOK'
      BY <1>1, <1>3, <2>2 DEF IndInv, TypeOK, Pending
    <2>4. DetachedInv'
      BY <1>1, <1>2 DEF DetachedInv
    <2>5. ResultInv'
      BY <1>1, <1>3, <2>2 DEF IndInv, ResultInv, Active, Interrupted, Making
    <2>6. ErrorInv'
      BY <1>1, <1>3, <2>2 DEF IndInv, ErrorInv, Warned, Active, Making
    <2>7. ItemInv'
      <3>1. \A i \in DOMAIN rest' : \E j \in DOMAIN rest : rest'[i] = rest[j]
        BY <1>1, <1>3, RestOfTail DEF IndInv
      <3> QED BY <1>1, <1>2, <3>1 DEF IndInv, ItemInv
    <2> QED BY <2>2, <2>3, <2>4, <2>5, <2>6, <2>7 DEF IndInv
  <1>4. CASE at' = "crashed" /\ rest' = <<>>
    <2>1. RestInv'
      BY <1>4, SoundEmpty DEF RestInv
    <2>2. TypeOK'
      BY <1>1, <1>4 DEF IndInv, TypeOK
    <2>3. IdleInv' /\ DetachedInv' /\ BeforeInv' /\ OwedInv' /\ ResultInv'
      BY <1>1, <1>2, <1>4
         DEF IdleInv, DetachedInv, BeforeInv, OwedInv, ResultInv, Active, Pending
    <2>4. ErrorInv'
      BY <1>1, <1>4 DEF IndInv, ErrorInv, Warned, Active
    <2>5. ItemInv'
      BY <1>1, <1>2, <1>4 DEF IndInv, ItemInv
    <2> QED BY <2>1, <2>2, <2>3, <2>4, <2>5 DEF IndInv
  <1> QED BY <1>1, <1>3, <1>4

\* The result is given up where the method is going to return NULL.
LEMMA DoDiscardStep ==
    ASSUME IndInv, DoDiscard
    PROVE  IndInv'
  <1>1. /\ at = "running" /\ rest # <<>>
             /\ Head(rest).op \in {"discard", "discard_if_gpgme"}
        /\ Proceed
        /\ IF /\ null /\ var["result"] = "live"
              /\ Head(rest).op = "discard" \/ exc = "gpgme"
           THEN Assign("result", "freed") ELSE UNCHANGED var
        /\ UNCHANGED <<method, at, kind, inseq, borrowed, detached, failed,
                       null, exc, item, holey, lost>>
    BY DEF DoDiscard, Runs, built
  <1>2. Continues /\ Head(rest).op \in Late /\ Head(rest).op \in Discards
        /\ Head(rest).op \notin {"free", "operate", "end", "look"}
    BY <1>1, ProceedContinues DEF IndInv, Late, Discards
  <1>3. /\ var' \in [Resources -> {"unset", "null", "live", "freed"}]
        /\ \A r \in Resources \ {"result"} : var'[r] = var[r]
        /\ var'["result"] = "live" =>
               /\ var["result"] = "live"
               /\ ~ (null /\ (Head(rest).op = "discard" \/ exc = "gpgme"))
    BY <1>1 DEF IndInv, TypeOK, Assign, Resources
  <1>4. /\ RestInv' /\ IdleInv' /\ BeforeInv' /\ OwedInv'
        /\ ~ Pending("begin")' /\ Head(rest) = rest[1] /\ 1 \in DOMAIN rest
        /\ \A op : Pending(op)' /\ op \notin Making =>
               Pending(op) /\ \E j \in DOMAIN rest :
                 Before(rest[1], rest[j]) /\ rest[j].op = op
        /\ \A op : Pending(op) /\ op \notin Making /\ op # Head(rest).op =>
             Pending(op)'
    BY <1>1, <1>2, <1>3, LateStep
  <1>5. TypeOK'
    BY <1>1, <1>3, <1>4 DEF IndInv, TypeOK, Pending
  <1>6. DetachedInv'
    BY <1>1, <1>2 DEF IndInv, DetachedInv
  <1>7. /\ ~ Pending("check")' /\ ~ Pending("check")
        /\ Pending("convert")' => Pending("convert")
        /\ Pending("discard") /\ Head(rest).op # "discard" => Pending("discard")'
    <2>1. \A j \in DOMAIN rest : j > 1 => rest[j].op # "check"
      BY <1>1, <1>2, <1>4, NextStatement DEF IndInv, Before
    <2>2. \A j \in DOMAIN rest : j = 1 \/ j > 1
      BY <1>1, NextStatement DEF IndInv
    <2>3. ~ Pending("check")
      BY <1>1, <1>4, <2>1, <2>2 DEF Pending
    <2> QED BY <1>4, <2>3 DEF Making
  <1>8. ResultInv'
    BY <1>1, <1>3, <1>7 DEF IndInv, ResultInv, Active, Interrupted
  <1>9. ErrorInv'
    BY <1>1, <1>7 DEF IndInv, ErrorInv, Warned, Active
  <1>10. ItemInv'
    <2>1. \A i \in DOMAIN rest' : \E j \in DOMAIN rest : rest'[i] = rest[j]
      BY <1>1, RestOfTail DEF IndInv
    <2> QED BY <1>1, <1>2, <2>1 DEF IndInv, ItemInv
  <1> QED BY <1>4, <1>5, <1>6, <1>8, <1>9, <1>10 DEF IndInv

\* What is freed is not live any more.
LEMMA DoFreeStep ==
    ASSUME IndInv, DoFree
    PROVE  IndInv'
  <1>1. /\ at = "running" /\ rest # <<>> /\ Head(rest).op = "free" /\ Proceed
        /\ Assign(What, IF var[What] = "null" THEN "null" ELSE "freed")
        /\ UNCHANGED <<method, at, kind, inseq, borrowed, detached, failed,
                       null, exc, item, holey, lost>>
    BY DEF DoFree, Runs, built
  <1>2. Continues /\ Head(rest).op \in Late
    BY <1>1, ProceedContinues DEF IndInv, Late
  <1>3. What \in Resources \ {"result"}
    BY <1>1, NextStatement, StatementsOf DEF IndInv, What
  <1>4. /\ var' \in [Resources -> {"unset", "null", "live", "freed"}]
        /\ \A r \in Resources : r # What => var'[r] = var[r]
        /\ var'[What] # "live" /\ var'["result"] = var["result"]
    BY <1>1, <1>3 DEF IndInv, TypeOK, Assign, Resources
  <1>5. /\ RestInv' /\ IdleInv' /\ BeforeInv' /\ OwedInv'
        /\ ~ Pending("begin")'
        /\ \A op : Pending(op)' /\ op \notin Making => Pending(op)
        /\ \A op : Pending(op) /\ op \notin Making /\ op # "free" => Pending(op)'
    BY <1>1, <1>2, <1>3, <1>4, LateStep
  <1>6. TypeOK'
    BY <1>1, <1>4, <1>5 DEF IndInv, TypeOK, Pending
  <1>7. DetachedInv'
    BY <1>1 DEF IndInv, DetachedInv
  <1>8. ResultInv'
    <2>1. /\ Pending("check")' => Pending("check")
          /\ Pending("convert")' => Pending("convert")
          /\ Pending("discard") => Pending("discard")'
          /\ Pending("discard_if_gpgme") => Pending("discard_if_gpgme")'
      BY <1>5 DEF Making
    <2> QED BY <1>1, <1>4, <2>1 DEF IndInv, ResultInv, Active, Interrupted
  <1>9. ErrorInv'
    BY <1>1, <1>5 DEF IndInv, ErrorInv, Warned, Active, Making
  <1>10. ItemInv'
    <2>1. \A i \in DOMAIN rest' : \E j \in DOMAIN rest : rest'[i] = rest[j]
      BY <1>1, RestOfTail DEF IndInv
    <2> QED BY <1>1, <2>1 DEF IndInv, ItemInv
  <1> QED BY <1>5, <1>6, <1>7, <1>8, <1>9, <1>10 DEF IndInv

-----------------------------------------------------------------------------
(* Calls.                                                                  *)

\* A method is called: nothing has been acquired.
LEMMA InvokeStep ==
    ASSUME IndInv, NEW m \in DOMAIN Method, Invoke(m)
    PROVE  IndInv'
  <1>1. /\ at = "idle" /\ method' = m /\ at' = "running" /\ rest' = Method[m].script
        /\ var' = [r \in Resources |-> IF r \in Method[m].nulls THEN "null" ELSE "unset"]
        /\ UNCHANGED <<kind, inseq, borrowed, detached, failed, null, exc,
                       item, holey, lost>>
    BY DEF Invoke, built
  <1>2. /\ kind = "none" /\ inseq = {} /\ borrowed = {} /\ failed = FALSE
             /\ null = FALSE
        /\ exc = "none" /\ item = "none" /\ holey = FALSE
    BY <1>1 DEF IndInv, IdleInv
  <1>3. ~ detached
    BY <1>1 DEF IndInv, DetachedInv
  <1>4. Sane(m) /\ Sound(rest', m) /\ rest' \in Seq(Statements)
    BY <1>1, AllSane DEF Sane, Sound
  <1>5. /\ Len(rest') \in Nat /\ DOMAIN rest' = 1 .. Len(rest')
        /\ Script' = rest' /\ Done' = 0
    BY <1>1, <1>4, LenProperties DEF Script, Done
  <1>6. \A r \in Resources : var'[r] \in {"null", "unset"}
    BY <1>1
  <1>7. TypeOK'
    <2>1. var' \in [Resources -> {"unset", "null", "live", "freed"}]
      BY <1>1
    <2> QED BY <1>1, <1>2, <2>1 DEF IndInv, TypeOK
  <1>8. RestInv' /\ IdleInv' /\ DetachedInv' /\ ResultInv' /\ ErrorInv' /\ ItemInv'
    <2>1. var'["result"] # "live"
      BY <1>6 DEF Resources
    <2> QED BY <1>1, <1>2, <1>3, <1>4, <2>1
        DEF RestInv, IdleInv, DetachedInv, ResultInv, ErrorInv, Warned, ItemInv
  <1>9. BeforeInv'
    <2>1. OnScript'
      <3>1. \A i \in DOMAIN rest' : 0 + i = i
        BY <1>5
      <3> QED BY <1>1, <1>2, <1>5, <3>1 DEF OnScript
    <2>2. Acquired(Script', Done' + 1) = {}
      <3>1. \A k \in DOMAIN Script' : ~ (k < Done' + 1)
        BY <1>5
      <3> QED BY <3>1 DEF Acquired
    <2>3. ReadyInv'
      <3>1. \A r \in Resources \cap Method[method'].nulls : var'[r] # "unset"
        BY <1>1
      <3> QED BY <1>6, <2>2, <3>1 DEF ReadyInv, Resources
    <2>4. KeysInv'
      BY <1>1, <1>2 DEF KeysInv
    <2> QED BY <2>1, <2>3, <2>4 DEF BeforeInv
  <1>10. OwedInv'
    <2>1. ASSUME NEW i \in DOMAIN rest', rest'[i].op = "free"
          PROVE  Pending("operate")'
      BY <1>1, <1>4, <2>1 DEF Sane, Pending
    <2> QED BY <1>6, <2>1 DEF OwedInv
  <1> QED BY <1>7, <1>8, <1>9, <1>10 DEF IndInv

\* A method returns.
LEMMA ReturnStep ==
    ASSUME IndInv, Return
    PROVE  IndInv'
  <1>1. /\ at = "running" /\ rest = <<>> /\ at' = "returned"
        /\ UNCHANGED <<method, rest, var, kind, inseq, borrowed, detached,
                       failed, null, exc, item, holey, lost>>
    BY DEF Return, built
  <1>2. \A op : ~ Pending(op) /\ ~ Pending(op)'
    BY <1>1 DEF Pending
  <1>3. \A r : ~ Owed(r)
    BY <1>1 DEF Owed
  <1>4. TypeOK' /\ RestInv' /\ IdleInv' /\ DetachedInv' /\ BeforeInv'
    BY <1>1, <1>2 DEF IndInv, TypeOK, RestInv, IdleInv, DetachedInv, BeforeInv
  <1>5. OwedInv'
    BY <1>1, <1>3 DEF IndInv, OwedInv, Active
  <1>6. ResultInv' /\ ErrorInv' /\ ItemInv'
    BY <1>1, <1>2
       DEF IndInv, ResultInv, ErrorInv, Warned, ItemInv, Active, Interrupted
  <1> QED BY <1>4, <1>5, <1>6 DEF IndInv

\* The interpreter goes on.
LEMMA ResumeStep ==
    ASSUME IndInv, Resume
    PROVE  IndInv'
  <1>1. /\ at \in {"returned", "crashed"} /\ at' = "idle" /\ rest' = <<>>
        /\ var' = [r \in Resources |-> "unset"] /\ kind' = "none"
        /\ inseq' = {} /\ borrowed' = {}
        /\ failed' = FALSE /\ null' = FALSE /\ exc' = "none"
        /\ item' = "none" /\ holey' = FALSE /\ lost' = {}
        /\ UNCHANGED <<method, detached>>
    BY DEF Resume
  <1>2. ~ detached
    BY <1>1 DEF IndInv, DetachedInv
  <1>3. TypeOK'
    BY <1>1 DEF IndInv, TypeOK
  <1>4. RestInv'
    BY <1>1, SoundEmpty DEF RestInv
  <1>5. IdleInv' /\ DetachedInv' /\ BeforeInv' /\ OwedInv'
    BY <1>1, <1>2 DEF IdleInv, DetachedInv, BeforeInv, OwedInv, Active, Pending
  <1>6. ResultInv' /\ ErrorInv' /\ ItemInv'
    BY <1>1 DEF ResultInv, ErrorInv, Warned, ItemInv, Active
  <1> QED BY <1>3, <1>4, <1>5, <1>6 DEF IndInv

\* Only a list changes, and what is required of its keys is nothing.
LEMMA ChangeListStep ==
    ASSUME IndInv, ChangeList
    PROVE  IndInv'
  <1>1. /\ detached /\ kind = "list" /\ inseq' \subseteq inseq
        /\ UNCHANGED <<method, at, rest, var, kind, borrowed, detached, failed,
                       null, exc, item, holey, lost>>
    BY DEF ChangeList, built
  <1>2. TypeOK'
    BY <1>1 DEF IndInv, TypeOK
  <1>3. RestInv' /\ DetachedInv' /\ IdleInv'
    BY <1>1 DEF IndInv, RestInv, DetachedInv, IdleInv
  <1>4. BeforeInv'
    BY <1>1 DEF IndInv, BeforeInv, OnScript, ReadyInv, KeysInv, Pending, Done,
       Script
  <1>5. OwedInv'
    BY <1>1 DEF IndInv, OwedInv, Active, Owed, Pending
  <1>6. ResultInv' /\ ErrorInv' /\ ItemInv'
    BY <1>1 DEF IndInv, ResultInv, ErrorInv, Warned, ItemInv, Active, Pending,
       Interrupted
  <1> QED BY <1>2, <1>3, <1>4, <1>5, <1>6 DEF IndInv

\* A step that changes nothing.
LEMMA StutterStep ==
    ASSUME IndInv, UNCHANGED vars
    PROVE  IndInv'
  <1>1. UNCHANGED <<method, at, rest, var, kind, inseq, borrowed, detached,
        failed, null, exc, item, holey, lost>>
    BY DEF vars, built
  <1>2. TypeOK' /\ RestInv' /\ IdleInv' /\ DetachedInv'
    BY <1>1 DEF IndInv, TypeOK, RestInv, IdleInv, DetachedInv
  <1>3. BeforeInv'
    BY <1>1 DEF IndInv, BeforeInv, OnScript, ReadyInv, KeysInv, Pending, Done,
       Script
  <1>4. OwedInv'
    BY <1>1 DEF IndInv, OwedInv, Active, Owed, Pending
  <1>5. ResultInv' /\ ErrorInv' /\ ItemInv'
    BY <1>1 DEF IndInv, ResultInv, ErrorInv, Warned, ItemInv, Active, Pending,
       Interrupted
  <1> QED BY <1>2, <1>3, <1>4, <1>5 DEF IndInv

-----------------------------------------------------------------------------
(* The theorems.                                                           *)

\* No method runs at first.
LEMMA InitInd ==
    ASSUME Init
    PROVE  IndInv
  <1>1. TypeOK
    BY DEF Init, TypeOK, Method
  <1>2. RestInv
    BY SoundEmpty DEF Init, RestInv
  <1>3. IdleInv /\ DetachedInv /\ BeforeInv /\ OwedInv
    BY DEF Init, IdleInv, DetachedInv, BeforeInv, OwedInv, Active, Pending
  <1>4. ResultInv /\ ErrorInv /\ ItemInv
    BY DEF Init, ResultInv, ErrorInv, Warned, ItemInv, Active
  <1> QED BY <1>1, <1>2, <1>3, <1>4 DEF IndInv

\* Every step of a method keeps the invariant.
LEMMA StepInd ==
    ASSUME IndInv, [Next]_vars
    PROVE  IndInv'
  <1>1. CASE \E m \in DOMAIN Method : Invoke(m)
    BY <1>1, InvokeStep
  <1>2. CASE OpenFile \/ ParsePatterns \/ FastSequence \/ BorrowKeys
    BY <1>2, OpenFileStep, ParsePatternsStep, FastSequenceStep, BorrowKeysStep
  <1>3. CASE DoWarn \/ DoBegin \/ DoOperate \/ DoEnd \/ DoCheck
    BY <1>3, DoWarnStep, DoBeginStep, DoOperateStep, DoEndStep, DoCheckStep
  <1>4. CASE DoConvert \/ DoItems \/ DoFill \/ DoLook \/ DoStore
    BY <1>4, DoConvertStep, DoItemsStep, DoFillStep, DoLookStep, DoStoreStep
  <1>5. CASE DoAnnotate \/ DoDiscard \/ DoFree \/ Return \/ Resume \/ ChangeList
    BY <1>5, DoAnnotateStep, DoDiscardStep, DoFreeStep, ReturnStep, ResumeStep,
       ChangeListStep
  <1>6. CASE UNCHANGED vars
    BY <1>6, StutterStep
  <1> QED BY <1>1, <1>2, <1>3, <1>4, <1>5, <1>6 DEF Next

\* The invariant holds in every state a method can be in.
THEOREM Invariance == Spec => []IndInv
  <1>1. Init => IndInv
    BY InitInd
  <1>2. IndInv /\ [Next]_vars => IndInv'
    BY StepInd
  <1> QED BY <1>1, <1>2, PTL DEF Spec

\* Every variable has its type, and a call that is bound to fail does not
\* start its operation.
THEOREM TypeCorrect == Spec => []TypeOK
  <1>1. IndInv => TypeOK
    BY DEF IndInv
  <1> QED BY <1>1, Invariance, PTL

\* What a method may have forgotten so far: its error has been checked, and the
\* GpgmeError that came of it is the exception it raises.
LostInv ==
    /\ at = "idle" => lost = {}
    /\ "bytes" \in lost => method \in {"export", "keylist"}
    /\ "error" \in lost => null /\ exc = "gpgme" /\ ~ Pending("check")
    /\ "import_result" \in lost =>
           null /\ method \in {"import_", "import_keys"}

\* Nothing else is forgotten: before its operation a method has not failed, and
\* after it an error is checked once.
LEMMA LostStep ==
    ASSUME IndInv, LostInv, [Next]_vars
    PROVE  LostInv'
  <1> USE DEF LostInv, built, Runs
  <1>1. ASSUME at = "running", rest # <<>>
        PROVE  /\ Head(rest).op \in Early =>
                      /\ null = FALSE /\ Done + 1 \in DOMAIN Script
                      /\ Script[Done + 1] = Head(rest) /\ Sane(method)
               /\ Head(rest).op = "check" => Pending("check")
               /\ Head(rest) = rest[1] /\ 1 \in DOMAIN rest
    BY <1>1, EarlyFacts, NextStatement DEF IndInv, Pending
  <1>2. ASSUME at = "running", rest # <<>>, Continues, Pending("check")'
        PROVE  Pending("check")
    BY <1>2, StillPending DEF IndInv, Making
  <1>3. ASSUME at = "running", Abandon, rest # <<>>, Head(rest).op \in Acquiring
        PROVE  ~ Pending("check")'
    <2>1. Undoes(rest', method, Done + 1)
      BY <1>1, <1>3 DEF Abandon, Sane, Script, Done, Early
    <2> QED BY <2>1 DEF Undoes, Pending
  <1>4. CASE \E m \in DOMAIN Method : Invoke(m)
    BY <1>4 DEF Invoke
  <1>5. CASE OpenFile \/ ParsePatterns \/ FastSequence \/ BorrowKeys
    <2>1. at = "running" /\ rest # <<>> /\ Head(rest).op \in Acquiring
            /\ UNCHANGED <<method, at>>
      BY <1>5 DEF OpenFile, ParsePatterns, FastSequence, BorrowKeys, Acquiring
    <2>2. null = FALSE /\ "error" \notin lost /\ "import_result" \notin lost
      BY <1>1, <2>1 DEF Early
    <2>3. "import_result" \notin lost'
            /\ ("error" \in lost' => Abandon /\ exc' = "gpgme")
      BY <1>5, <2>2
         DEF OpenFile, ParsePatterns, FastSequence, BorrowKeys, CheckError
    <2>4. "bytes" \in lost' => method \in {"export", "keylist"}
      <3>1. CASE Head(rest).op = "parse"
        BY <1>1, <2>1, <3>1 DEF Early, Sane, MayAcquire, Script
      <3>2. CASE Head(rest).op # "parse"
        BY <1>5, <3>2 DEF OpenFile, ParsePatterns, FastSequence, BorrowKeys,
           CheckError
      <3> QED BY <3>1, <3>2
    <2> QED BY <1>3, <2>1, <2>3, <2>4 DEF Abandon
  <1>6. CASE DoWarn \/ DoBegin \/ DoOperate
    <2>1. "error" \notin lost /\ "import_result" \notin lost
      BY <1>1, <1>6 DEF DoWarn, DoBegin, DoOperate, Early
    <2> QED BY <1>6, <2>1 DEF DoWarn, DoBegin, DoOperate
  <1>7. CASE DoCheck
    <2>1. /\ at = "running" /\ rest # <<>> /\ Head(rest).op = "check" /\ Proceed
          /\ null' = (null \/ failed) /\ UNCHANGED <<method, at>>
          /\ lost' \subseteq lost \cup {"error"}
          /\ "error" \in lost' /\ "error" \notin lost => failed /\ exc' = "gpgme"
      BY <1>7 DEF DoCheck, CheckError
    <2>2. "error" \notin lost
      BY <1>1, <2>1
    <2>3. ~ Pending("check")'
      <3>1. \A j \in DOMAIN rest : Before(rest[1], rest[j]) => rest[j].op # "check"
        BY <1>1, <2>1 DEF Before
      <3>2. Continues
        BY <2>1, ProceedContinues DEF IndInv
      <3> QED BY <2>1, <3>1, <3>2, StillPending DEF IndInv, Making
    <2> QED BY <2>1, <2>2, <2>3
  <1>8. CASE DoConvert
    <2>1. /\ at = "running" /\ rest # <<>> /\ Head(rest).op = "convert"
          /\ UNCHANGED <<method, at>> /\ Continues
      BY <1>8, ProceedContinues, LoopContinues DEF DoConvert, IndInv
    <2>2. \/ UNCHANGED <<null, exc, lost>>
          \/ /\ ~ null /\ null'
             /\ lost' \subseteq lost \cup {"import_result"}
             /\ "import_result" \in lost' => \/ What = "imports"
                                             \/ "import_result" \in lost
      BY <1>8 DEF DoConvert
    <2>3. What = "imports" => method \in {"import_", "import_keys"}
      BY <1>1, <2>1 DEF IndInv, RestInv, Sound, Allowed, What
    <2> QED BY <1>2, <2>1, <2>2, <2>3
  <1>9. CASE DoItems \/ DoFill \/ DoLook \/ DoStore
    <2>1. /\ at = "running" /\ rest # <<>> /\ Head(rest).op \in Making
          /\ UNCHANGED <<method, at, lost>>
      BY <1>9 DEF DoItems, DoFill, DoLook, DoStore, Making
    <2>2. null = FALSE
      BY <1>1, <2>1 DEF IndInv, ItemInv, TypeOK
    <2> QED BY <2>1, <2>2
  <1>10. CASE DoEnd \/ DoDiscard \/ DoFree
    <2>1. /\ at = "running" /\ rest # <<>> /\ Proceed
          /\ UNCHANGED <<method, at, null, exc, lost>>
      BY <1>10 DEF DoEnd, DoDiscard, DoFree
    <2>2. Continues
      BY <1>10, <2>1, ProceedContinues DEF IndInv, DoEnd, DoDiscard, DoFree
    <2> QED BY <1>2, <2>1, <2>2
  <1>11. CASE DoAnnotate
    <2>1. /\ at = "running" /\ rest # <<>> /\ UNCHANGED <<method, null, exc, lost>>
          /\ at' # "idle"
          /\ Proceed \/ rest' = <<>>
      BY <1>11 DEF DoAnnotate
    <2>2. CASE rest' = <<>>
      BY <2>1, <2>2 DEF Pending
    <2>3. CASE Proceed
      <3>1. Continues
        BY <1>11, <2>1, <2>3, ProceedContinues DEF IndInv, DoAnnotate
      <3> QED BY <1>2, <2>1, <3>1
    <2> QED BY <2>1, <2>2, <2>3
  <1>12. CASE Return \/ Resume \/ ChangeList \/ UNCHANGED vars
    BY <1>12 DEF Return, Resume, ChangeList, vars, Pending
  <1> QED BY <1>4, <1>5, <1>6, <1>7, <1>8, <1>9, <1>10, <1>11, <1>12 DEF Next

\* When a method returns, whichever of its statements failed, it has given back
\* every handle, array, sequence and key it acquired, and its result unless it
\* returns it, an interrupted genkey excepted; what it has forgotten is the
\* bytes of patterns, the GpgmeError it raises, or an ImportResult.
THEOREM EverythingIsReleased == Spec => []EverythingReleased
  <1>1. ASSUME IndInv, at = "returned", NEW r \in Resources, var[r] = "live"
        PROVE  r = "result" /\ (~ null \/ Interrupted)
    <2>1. rest = <<>> /\ Active
      BY <1>1 DEF IndInv, RestInv, Active
    <2>2. \A op : ~ Pending(op)
      BY <2>1 DEF Pending
    <2>3. ~ Owed(r)
      BY <2>1 DEF Owed
    <2>4. r = "result"
      BY <1>1, <2>1, <2>3 DEF IndInv, OwedInv
    <2>5. null => Interrupted
      BY <1>1, <2>1, <2>2, <2>4 DEF IndInv, ResultInv
    <2> QED BY <1>1, <2>4, <2>5 DEF IndInv, TypeOK
  <1>2. ASSUME IndInv, LostInv, NEW x \in lost
        PROVE  MayForget(x)
    <2>1. x \in Forgotten
      BY <1>2 DEF IndInv, TypeOK
    <2> QED BY <1>2, <2>1 DEF LostInv, MayForget, Forgotten
  <1>3. IndInv /\ LostInv => EverythingReleased
    BY <1>1, <1>2 DEF EverythingReleased
  <1>4. Init => LostInv
    BY DEF Init, LostInv
  <1>5. IndInv /\ LostInv /\ [Next]_vars => LostInv'
    BY LostStep
  <1> QED BY <1>3, <1>4, <1>5, Invariance, PTL DEF Spec

\* A method frees only what has a value and has not been freed, and never
\* without the interpreter's lock.
THEOREM ReleasesAreProper == Spec => []ReleasesProper
  <1>1. ASSUME IndInv, at = "running", rest # <<>>, Head(rest).op = "free"
        PROVE  var[What] \in {"null", "live"} /\ ~ detached
    <2>1. /\ Head(rest) = rest[1] /\ 1 \in DOMAIN rest
          /\ \A i \in DOMAIN rest : rest[i] = Head(rest) \/ Before(rest[1], rest[i])
      BY <1>1, NextStatement DEF IndInv
    <2>2. ~ Pending("operate")
      <3>1. Phase("free") = 4 /\ Phase("operate") = 2
        BY Phases
      <3> QED BY <1>1, <2>1, <3>1 DEF Pending, Before
    <2>3. var[What] \in {"null", "live"}
      BY <1>1, <2>1, <2>2 DEF IndInv, OwedInv, What
    <2>4. ~ detached
      BY <1>1 DEF IndInv, DetachedInv
    <2> QED BY <2>3, <2>4
  <1>2. IndInv => ReleasesProper
    BY <1>1 DEF ReleasesProper, Runs
  <1> QED BY <1>2, Invariance, PTL

\* The operation runs with all its arguments: none has been freed, or was
\* never made.
THEOREM ArgumentsAreValid == Spec => []ArgumentsValid
  <1>1. ASSUME IndInv, at = "running", rest # <<>>, Head(rest).op = "operate",
               NEW n \in DOMAIN Script, Script[n].op \in {"open", "parse", "borrow"}
        PROVE  var[Script[n].what] \in {"null", "live"}
    <2>1. /\ ReadyInv /\ Done \in Nat /\ Done + 1 \in DOMAIN Script
          /\ Script[Done + 1] = Head(rest)
          /\ Sane(method) /\ Script \in Seq(Statements)
      BY <1>1, EarlyFacts DEF Early
    <2>2. DOMAIN Script \subseteq Nat
      BY <2>1, LenProperties
    <2>3. Script[n].op \in Acquiring /\ Script[n] \in Statements
      BY <1>1, <2>1 DEF Acquiring
    <2>4. n < Done + 1
      <3>1. n # Done + 1
        BY <1>1, <2>1
      <3>2. ~ (Done + 1 < n)
        <4>1. Done + 1 < n => Before(Script[Done + 1], Script[n])
          BY <2>1 DEF Sane, Sound, Orderly, Script
        <4>2. Phase(Script[n].op) = 0 /\ Phase("operate") = 2
          BY <2>3, Phases
        <4> QED BY <1>1, <2>1, <4>1, <4>2 DEF Before
      <3> QED BY <2>1, <2>2, <3>1, <3>2
    <2>5. Script[n].what \in Acquired(Script, Done + 1)
      BY <2>3, <2>4 DEF Acquired
    <2> QED BY <2>1, <2>5 DEF ReadyInv
  <1>2. IndInv => ArgumentsValid
    BY <1>1 DEF ArgumentsValid, Runs, Script
  <1> QED BY <1>2, Invariance, PTL

\* A method other than get_engine_info raises exactly if it returns NULL, and
\* raises if its operation failed; edit and card_edit may also raise and return
\* a value, where a warning is made an exception.
THEOREM RaisesIff == Spec => []RaisesIffNull
  <1>1. ASSUME IndInv, at = "returned", method # "get_engine_info"
        PROVE  /\ null => exc # "none"
               /\ exc # "none" => null \/ Warned
               /\ failed => null
    <2>1. rest = <<>> /\ Active
      BY <1>1 DEF IndInv, RestInv, Active
    <2>2. ~ Pending("check")
      BY <2>1 DEF Pending
    <2>3. item # "broken"
      BY <1>1, <2>1 DEF IndInv, ItemInv
    <2> QED BY <1>1, <2>1, <2>2, <2>3 DEF IndInv, ErrorInv, Warned, TypeOK
  <1>2. IndInv => RaisesIffNull
    BY <1>1 DEF RaisesIffNull
  <1> QED BY <1>2, Invariance, PTL

\* No item of a list a method returns has a member that is NULL, for a result
\* of any size.
THEOREM ResultsAreWhole == Spec => []ResultsWhole
  <1>1. IndInv => ResultsWhole
    BY DEF IndInv, ItemInv, ResultsWhole
  <1> QED BY <1>1, Invariance, PTL

\* A tuple, or a private list, keeps the keys in the array for as long as the
\* operation may use them.
THEOREM FixedSequencesKeepKeys == Spec => []FixedSequenceKeepsKeys
  <1>1. ASSUME IndInv, at = "running", rest # <<>>, Head(rest).op = "operate",
               kind # "list"
        PROVE  borrowed \subseteq KeysAlive
    <2>1. KeysInv
      BY <1>1, EarlyFacts DEF Early
    <2> QED BY <1>1, <2>1 DEF KeysInv, KeysAlive
  <1>2. IndInv => FixedSequenceKeepsKeys
    BY <1>1 DEF FixedSequenceKeepsKeys, Runs
  <1> QED BY <1>2, Invariance, PTL
=============================================================================
