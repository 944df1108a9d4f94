-------------------------------- MODULE RestApi --------------------------------
(***************************************************************************)
(* The handlers of rest_api on top of the gateway: what POST /send makes   *)
(* of a body, what httplib and the error handler make of a handler's       *)
(* status, and what a client gets back through the bus loop and GET        *)
(* /receive of the values it posted.                                       *)
(*                                                                         *)
(* A JSON value is <<"number", n>>, <<"bool", b>>, <<"string", bytes>>,    *)
(* <<"array", values>>, <<"object">> or <<"null">>; a number that is an id *)
(* is given by its halves (CanMessage).                                    *)
(***************************************************************************)
EXTENDS Gateway, Integers

CONSTANT Bodies   \* the bodies posted to /send

(* A body: whether it is empty, does not parse or parses, and the fields of *)
(* its object that are looked at, None for one that is not there.  json11's *)
(* numbers are taken to be integers.                                        *)
ASSUME BodiesAssumption ==
    \A b \in Bodies : /\ DOMAIN b = {"form", "id", "payload"}
                      /\ b.form \in {"empty", "malformed", "json"}
                      /\ b.payload # None /\ b.payload[1] = "number" =>
                            b.payload = <<"number", b.payload[2]>> /\ b.payload[2] \in Int
                      /\ b.payload # None /\ b.payload[1] = "bool" =>
                            b.payload = <<"bool", b.payload[2]>> /\ b.payload[2] \in BOOLEAN
                      /\ b.payload # None /\ b.payload[1] = "string" =>
                            b.payload = <<"string", b.payload[2]>> /\ b.payload[2] \in Seq(Nat)

VARIABLES
    post,      \* worker -> the body it is enqueueing, or None
    response,  \* the status of the latest answer to a POST
    asked,     \* reader -> the id of its latest GET that was answered, or None
    posted     \* history: <<key, JSON value>> of the accepted posts, in order

restVars == <<post, response, asked, posted>>

RestInit == /\ Init
            /\ post     = [w \in Workers |-> None]
            /\ response = 0
            /\ asked    = [r \in Readers |-> None]
            /\ posted   = <<>>

-------------------------------------------------------------------------------
(* The status httplib sends: a handler that set none answers 200, and       *)
(* whatever is 400 or more passes through the error handler, which says 404. *)
Sent(status) == IF status >= 400 THEN 404 ELSE status

respond(status) == response' = Sent(status)

(* Body not empty, parsed, with a number as id and a payload that is not    *)
(* null.                                                                    *)
Complete(b) == /\ b.form = "json"
               /\ b.id # None /\ b.id[1] = "number"
               /\ b.payload # None /\ b.payload[1] # "null"

Sendable == {"number", "string", "bool", "array"}

(* One element of an array.  A number is asked for its bool_value, which is *)
(* false of any number; of a string the first character counts.             *)
ElementByte(e) ==
    CASE e[1] = "bool"   -> IF e[2] THEN 1 ELSE 0
      [] e[1] = "number" -> 0
      [] e[1] = "string" -> IF e[2] = <<>> THEN 0 ELSE e[2][1]

(* Elements of other types are passed over. *)
ArrayBytes(a) ==
    LET kept == SelectSeq(a, LAMBDA e : e[1] \in {"bool", "number", "string"}) IN
    [i \in DOMAIN kept |-> ElementByte(kept[i])]

(* Faulty: a number is sent as a string of one byte. *)
CallOfBytes(b) ==
    LET p == b.payload IN
    [id   |-> b.id[2],
     type |-> CASE p[1] = "bool" -> "BOOL" [] p[1] = "array" -> "BYTE" [] OTHER -> "STR",
     arg  |-> CASE p[1] = "number" -> <<p[2] % 256>>
                [] p[1] = "bool"   -> <<IF p[2] THEN 1 ELSE 0>>
                [] p[1] = "string" -> p[2]
                [] OTHER           -> ArrayBytes(p[2])]

(* The enqueue_* call for a payload.  A number becomes an int and then the  *)
(* short int _value: its low 16 bits.                                       *)
CallOf(b) ==
    LET p == b.payload IN
    [id   |-> b.id[2],
     type |-> CASE p[1] = "number" -> "INT" [] p[1] = "string" -> "STR"
                [] p[1] = "bool" -> "BOOL" [] p[1] = "array" -> "BYTE",
     arg  |-> CASE p[1] = "number" -> <<p[2] % 65536>>
                [] p[1] = "bool"   -> <<IF p[2] THEN 1 ELSE 0>>
                [] p[1] = "string" -> p[2]
                [] p[1] = "array"  -> ArrayBytes(p[2])]

(* The calls the bodies lead to are those of the gateway. *)
ASSUME BodyCallsAssumption ==
    \A b \in Bodies : Complete(b) /\ b.payload[1] \in Sendable => CallOf(b) \in Requests

Idle(w) == post[w] = None

(* "post body empty", "json parse failed", "no json field: id or payload". *)
PostRefused(w, b) ==
    /\ Idle(w) /\ ~Complete(b)
    /\ respond(500)
    /\ UNCHANGED <<vars, post, asked, posted>>

(* A payload that is an object is answered ok, and that is all. *)
PostIgnored(w, b) ==
    /\ Idle(w) /\ Complete(b) /\ b.payload[1] \notin Sendable
    /\ respond(200)
    /\ UNCHANGED <<vars, post, asked, posted>>

PostEnqueue(w, b) ==
    /\ Idle(w) /\ Complete(b) /\ b.payload[1] \in Sendable
    /\ \E stack \in Buffer : Queue!Enqueue(w, CallOf(b), stack)
    /\ post' = [post EXCEPT ![w] = b]
    /\ UNCHANGED <<tableVars, convVars, mainVars, rest_pc, response, asked, posted>>

(* The rest of enqueue_*; the response follows the push. *)
PostPush(w) ==
    /\ \/ Queue!HashDone(w) /\ UNCHANGED restVars
       \/ /\ Queue!Push(w)
          /\ posted' = Append(posted, <<U16(post[w].id[2]), post[w].payload>>)
          /\ post'   = [post EXCEPT ![w] = None]
          /\ respond(200)
          /\ UNCHANGED asked
    /\ UNCHANGED <<tableVars, convVars, mainVars, rest_pc>>

(* GET /receive/<id> and GET /list. *)
Get(r) == /\ RestGet(r) \/ RestConvert(r) \/ RestList(r)
          /\ asked' = [asked EXCEPT ![r] = IF get_pc[r] # "idle" /\ get_pc'[r] = "idle"
                                          THEN get_key[r] ELSE @]
          /\ UNCHANGED <<post, response, posted>>

Post(w) == \/ \E b \in Bodies : PostRefused(w, b) \/ PostIgnored(w, b) \/ PostEnqueue(w, b)
           \/ PostPush(w)

RestNext == \/ (Read \/ MainStep) /\ UNCHANGED restVars
            \/ \E w \in Workers : Post(w)
            \/ \E r \in Readers : Get(r)

RestSpec == RestInit /\ [][RestNext]_<<vars, restVars>>

-------------------------------------------------------------------------------
Int16  == -32768 .. 32767
UInt16 == 0 .. 65535

(* The scalars a document can show: a number of 16 bits without a sign, a   *)
(* string that fits into a frame, either bool.                              *)
Showable(v) == /\ v[1] = "number" => v[2] \in UInt16
               /\ v[1] = "string" => Len(v[2]) <= BufLen

(* The value GET shows of a message. *)
Shown(m) == IF m = None THEN None
            ELSE Conv!Decode(Conv!EffectiveType(U16(m.frame.id)), m.frame)

(* The bodies that lead to a frame. *)
PostedBodies == {b \in Bodies : Complete(b) /\ b.payload[1] \in Sendable}

(* The type a scalar is filed under. *)
ScalarType == [number |-> "INT", string |-> "STR", bool |-> "BOOL"]

(* The keys no frame of the bus has. *)
ClientKeys == {k \in Key : \A frame \in BusFrames : U16(frame[1]) # k}

(* The keys only clients write, with scalars of one type that can be shown; *)
(* the type is that of the configuration if it has one.                     *)
Written ==
    {k \in ClientKeys :
        \E kind \in DOMAIN ScalarType :
            /\ \A b \in PostedBodies : U16(b.id[2]) = k =>
                   b.payload[1] = kind /\ Showable(b.payload)
            /\ Conv!Configured[k] \in {None, ScalarType[kind]}}

(* Posts whose frame the main loop has filed. *)
Applied == Len(taken) - (IF main_pc \in {"write", "send_check", "send_register", "send_put"}
                         THEN 1 ELSE 0)

(* Posts that are on their way. *)
UnderWay == [i \in 1 .. Len(posted) - Applied |-> posted[Applied + i]]

Promise == INSTANCE ValueStore
             WITH Kept    <- Written,
                  Values  <- {b.payload : b \in PostedBodies},
                  Clients <- Readers,
                  pending <- UnderWay,
                  value   <- [k \in Written |-> Shown(mp[k])],
                  seen    <- [r \in Readers |-> IF asked[r] \in Written
                                               THEN <<asked[r], Shown(answer[r])>> ELSE None]

(* For ids that only clients write, each with one type of payload and only  *)
(* values that can be shown, the gateway is a store of JSON values: what is *)
(* posted comes back from GET /receive, the very value, in order, through   *)
(* the encoding into a frame over an uninitialised buffer, the queue, auto  *)
(* registration, the table that skips duplicates, and the decoding,         *)
(* whatever the bus and other clients do.  Of a negative number it does not *)
(* hold: ConversionIsBidirectional.                                         *)
PostedIsShown == Promise!Spec

(* The values of which the README says that they are converted both ways    *)
(* and of which that fails: int16 numbers and byte arrays.                  *)
Convertible(v) ==
    \/ v[1] = "number" /\ v[2] \in Int16
    \/ v[1] = "array"  /\ Len(v[2]) <= BufLen
                       /\ \A i \in DOMAIN v[2] : v[2][i][1] = "number" /\ v[2][i][2] \in Byte

(* A document of m displays the value: a number as its payload, an array as *)
(* its raw data.                                                            *)
Displays(m, v) == IF v[1] = "array"
                  THEN Payload(m.frame) = [i \in DOMAIN v[2] |-> v[2][i][2]]
                  ELSE Shown(m) = v

(* README: "automatic type conversion (int16, bool, byte array, string)     *)
(* bidirectional"; "SEND BYTE ARRAY TYPE", '{"id": 12,"payload":[1,2,...]}'.  *)
(* What GET answers for an id to which clients post int16 numbers or byte   *)
(* arrays, and nobody else writes, displays a value that was posted to it.  *)
ConversionIsBidirectional ==
    \A r \in Readers :
        /\ asked[r] \in ClientKeys /\ answer[r] # None
        /\ \A b \in PostedBodies : U16(b.id[2]) = asked[r] => Convertible(b.payload)
        => \E i \in DOMAIN posted : /\ posted[i][1] = asked[r]
                                    /\ Displays(answer[r], posted[i][2])
===============================================================================
