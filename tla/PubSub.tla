------------------------------- MODULE PubSub -------------------------------
(***************************************************************************)
(* What a zipper promises to those who connect to it, without handlers,    *)
(* maps or streams: publish and subscribe by tag and target.  A            *)
(* subscription starts and ends at one moment; a frame is meant for those  *)
(* who are subscribed when it is published and for nobody else; the frames *)
(* of one publisher reach a subscriber in the order of publication.        *)
(* Delivery may fail: a frame that is never delivered breaks nothing here. *)
(***************************************************************************)
EXTENDS Domain, Naturals, Sequences

VARIABLES
    subs,       \* connection -> the tags it is subscribed to
    wants,      \* connection -> the target it asked for
    log,        \* every frame published, with those it is meant for
    delivered   \* the pairs <<n, c>> such that c has got frame n

vars == <<subs, wants, log, delivered>>

Init ==
    /\ subs = [c \in Conns |-> {}]
    /\ wants = [c \in Conns |-> NoTarget]
    /\ log = <<>>
    /\ delivered = {}

Subscribe(c, tags, target) ==
    /\ subs[c] = {}
    /\ wants[c] = NoTarget
    /\ subs' = [subs EXCEPT ![c] = tags]
    /\ wants' = [wants EXCEPT ![c] = target]
    /\ UNCHANGED <<log, delivered>>

Unsubscribe(cs) ==
    /\ subs' = [c \in Conns |-> IF c \in cs THEN {} ELSE subs[c]]
    /\ wants' = [c \in Conns |-> IF c \in cs THEN NoTarget ELSE wants[c]]
    /\ UNCHANGED <<log, delivered>>

Subscribers(tag, target) ==
    {c \in Conns : tag \in subs[c] /\ target \in {NoTarget, wants[c]}}

Publish(from, tag, target) ==
    /\ log' = Append(log, [from |-> from, tag |-> tag, target |-> target,
                           to |-> Subscribers(tag, target)])
    /\ UNCHANGED <<subs, wants, delivered>>

Deliver(n, c) ==
    /\ c \in log[n].to
    /\ \A m \in DOMAIN log :
         <<m, c>> \in delivered /\ log[m].from = log[n].from => m < n
    /\ delivered' = delivered \union {<<n, c>>}
    /\ UNCHANGED <<subs, wants, log>>

Next ==
    \/ \E c \in Conns, tags \in SUBSET Tags,
          target \in Targets \union {NoTarget} : Subscribe(c, tags, target)
    \/ \E cs \in {Conns} \union {{c} : c \in Conns} : Unsubscribe(cs)
    \/ \E c \in Conns, tag \in Tags, target \in Targets \union {NoTarget} :
          Publish(c, tag, target)
    \/ \E n \in DOMAIN log, c \in Conns : Deliver(n, c)

Spec == Init /\ [][Next]_vars
=============================================================================
