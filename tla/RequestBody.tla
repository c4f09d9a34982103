----------------------------- MODULE RequestBody ------------------------------
(***************************************************************************)
(* The body of a request to send a message (parse_mqtt_send_request_body): *)
(* it is parsed when the request comes, completed with fields of the       *)
(* device, and either sent or cached as text.  The drain of the cache      *)
(* parses that text again, later and without knowing who sent the request. *)
(* A JSON object is a function from the keys it has; a member that is not  *)
(* of the type looked for is Other.                                        *)
(***************************************************************************)
EXTENDS Naturals, TLC

CONSTANTS
    Topics, Texts,  \* non-empty strings
    Ints,           \* integers that requests have
    Default,        \* VALUE_CACHE_PRIORITY_DEFAULT
    Sn, Mac,        \* of the device and of the sender
    Other, Empty,   \* a value of another type; the empty string
    MaxTime

\* Empty stands for no content: no record with the fields of one is equal to it.
EmptyAssumption ==
    \A t, p, q, c : Empty # [topic |-> t, payload |-> p, qos |-> q, cache_priority |-> c]

VARIABLES
    clock,
    request,        \* the body of the request and the MAC found for it, or Empty
    first,          \* the content that the request's worker tries to send
    cached,         \* the JSON text in the cache, or Empty
    second          \* the content that the drain sends

bodyVars == <<clock, request, first, cached, second>>

PayloadKeys == {"sn", "mac", "time"}

\* Payloads that are objects have some of the keys the hub adds, with values of their own.
Objects == {[k \in S |-> Other] : S \in SUBSET PayloadKeys}

Bodies ==
    LET member == [qos |-> Ints \cup {Other}, cache_priority |-> Ints \cup {Other},
                   topic |-> Topics \cup {Empty, Other}]
    IN  {q @@ c @@ t @@ p :
            q \in {<<>>} \cup {[qos |-> x] : x \in member.qos},
            c \in {<<>>} \cup {[cache_priority |-> x] : x \in member.cache_priority},
            t \in {<<>>} \cup {[topic |-> x] : x \in member.topic},
            p \in {<<>>} \cup {[payload |-> [string |-> x]] : x \in Texts \cup {Empty}}
                  \cup {[payload |-> [object |-> o]] : o \in Objects} \cup {[payload |-> [other |-> Other]]}}

Has(o, key) == key \in DOMAIN o

json_helper_get_int(body, key, default) ==
    IF Has(body, key) /\ body[key] \in Ints THEN body[key] ELSE default

\* json_object_object_add of a field that is not present.
AddIfAbsent(o, key, v) ==
    IF Has(o, key) THEN o ELSE [k \in DOMAIN o \cup {key} |-> IF k = key THEN v ELSE o[k]]

\* sn, mac and time are added to an object, the MAC only if it is known.
Completed(o, mac) ==
    LET withSn == AddIfAbsent(o, "sn", Sn)
        withMac == IF mac = Empty THEN withSn ELSE AddIfAbsent(withSn, "mac", mac)
    IN  AddIfAbsent(withMac, "time", clock)

Accepted(body) ==
    /\ Has(body, "topic") /\ body.topic \in Topics
    /\ Has(body, "payload")
    /\ \/ Has(body.payload, "object")
       \/ Has(body.payload, "string") /\ body.payload.string # Empty

\* The JSON object after parsing: its payload, if an object, is completed in place.
Parsed(body, mac) ==
    IF Has(body.payload, "object")
    THEN [body EXCEPT !.payload = [object |-> Completed(body.payload.object, mac)]]
    ELSE body

\* Mutant: the text of the request is kept as it came.
CachedTextAsReceived(body, mac) == body

\* The worker caches the text of the object it has parsed.
CachedText(body, mac) == Parsed(body, mac)

\* The content, with the QoS as MQTTClientWrapper_sendMessage corrects it.
Content(body, mac) ==
    [topic |-> body.topic,
     payload |-> Parsed(body, mac).payload,
     qos |-> LET q == json_helper_get_int(body, "qos", 0) IN IF q \in 0 .. 2 THEN q ELSE 0,
     cache_priority |-> json_helper_get_int(body, "cache_priority", Default)]

\* A request that is refused is answered with an error, and nothing else happens.
Refuse ==
    /\ request # Empty /\ first = Empty /\ ~Accepted(request.body)
    /\ request' = Empty
    /\ UNCHANGED <<clock, first, cached, second>>

Receive(body, mac) ==
    /\ request = Empty /\ first = Empty
    /\ request' = [body |-> body, mac |-> mac]
    /\ UNCHANGED <<clock, first, cached, second>>

\* The message is parsed and could not be sent: it is cached.
SendFails ==
    /\ request # Empty /\ first = Empty /\ Accepted(request.body)
    /\ first' = Content(request.body, request.mac)
    /\ cached' = CachedText(request.body, request.mac)
    /\ UNCHANGED <<clock, request, second>>

\* The drain sends the message; a text it cannot parse is deleted.
Drain ==
    /\ cached # Empty /\ cached' = Empty
    /\ second' = IF Accepted(cached) THEN Content(cached, Empty) ELSE Other
    /\ UNCHANGED <<clock, request, first>>

TimePasses == clock < MaxTime /\ clock' = clock + 1 /\ UNCHANGED <<request, first, cached, second>>

BodyInit == clock = 0 /\ request = Empty /\ first = Empty /\ cached = Empty /\ second = Empty

BodyNext == Refuse \/ SendFails \/ Drain \/ TimePasses \/ \E body \in Bodies, mac \in {Mac, Empty} : Receive(body, mac)

BodySpec == BodyInit /\ [][BodyNext]_bodyVars

-------------------------------------------------------------------------------

\* What the drain sends, at any later time and without the sender's MAC, is what the
\* request's worker would have sent: topic, payload with the time and MAC of the request,
\* QoS and priority.
DrainSendsTheSame == second # Empty => second = first
===============================================================================
