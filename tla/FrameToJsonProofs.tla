--------------------------- MODULE FrameToJsonProofs ---------------------------
(***************************************************************************)
(* For any ids, configuration, senders and converting threads: a type once *)
(* registered is never changed, an id that is sent before it is shown has  *)
(* the type it was first sent with, whatever is converted becomes a        *)
(* document, and a value shown of a frame that is long enough is made of   *)
(* the frame's own bytes.                                                  *)
(***************************************************************************)
EXTENDS FrameToJson, TLAPS

(* While the main thread is between check_key_exists and                   *)
(* register_conversion nobody else gives the id a type: at most a          *)
(* conversion inserts NONE.  The frame is the first one sent of its id.    *)
RegisterIsFree ==
    reg_pc = "register" => /\ reg_send \in Sends
                           /\ type_register[reg_send[1]] \in {None, "NONE"}
                           /\ sent[reg_send[1]] = None

(* An entry without a type was inserted by a conversion. *)
UntypedWasShown == \A k \in Key : type_register[k] = "NONE" => k \in shown

(* A configured type stays; any other comes from the first frame sent. *)
TypeHasOrigin ==
    \A k \in Key :
        IF Configured[k] # None THEN type_register[k] = Configured[k]
        ELSE type_register[k] \notin {None, "NONE"} => type_register[k] = sent[k]

(* What was sent has an entry. *)
SentIsPresent == \A k \in Key : sent[k] # None => type_register[k] # None

(* The JSON of a message under a type. *)
JsonAs(type, m) ==
    [type    |-> type,
     frame   |-> [m.frame EXCEPT !.data = Memcpy([i \in 1 .. BufLen |-> 0], Payload(m.frame))],
     tick    |-> m.sync_tick,
     hash    |-> IF m.hash = NoHash THEN Sha256(Payload(m.frame)) ELSE m.hash,
     payload |-> Decode(type, m.frame)]

(* What a caller holds was made of a message, by the type of the moment. *)
JsonIsConverted ==
    \A c \in Callers : json[c] # None =>
        \E type \in CONVERSATION_TYPE \ {"NONE"}, m \in Messages :
            json[c] = JsonAs(type, m)

IInv == /\ TypeOK
        /\ RegisterIsFree
        /\ UntypedWasShown
        /\ TypeHasOrigin
        /\ SentIsPresent
        /\ JsonIsConverted

-------------------------------------------------------------------------------
(* The register holds the configuration at first.                           *)
LEMMA InitEstablishes == Init => IInv
  <1> SUFFICES ASSUME Init PROVE IInv
    OBVIOUS
  <1>1. /\ Configured \in [Key -> CONVERSATION_TYPE \cup {None}]
        /\ \A k \in Key : Configured[k] # "NONE"
    BY ConfigAssumption DEF Configured, CONVERSATION_TYPE
  <1>2. TypeOK
    BY <1>1, ConfigAssumption DEF Init, TypeOK
  <1>3. RegisterIsFree /\ UntypedWasShown /\ TypeHasOrigin /\ SentIsPresent
    BY <1>1 DEF Init, RegisterIsFree, UntypedWasShown, TypeHasOrigin, SentIsPresent
  <1>4. JsonIsConverted
    BY DEF Init, JsonIsConverted
  <1> QED BY <1>2, <1>3, <1>4 DEF IInv

(* The key and the type of a frame that main sends.                         *)
LEMMA SendsTyped ==
    ASSUME NEW s \in Sends
    PROVE  s[1] \in Key /\ s[2] \in CONVERSATION_TYPE /\ s[2] \notin {None, "NONE"}
           /\ s = <<s[1], s[2]>>
  BY ConfigAssumption DEF CONVERSATION_TYPE

(* The key of a message to convert is a key.                                *)
LEMMA MessageKey ==
    ASSUME NEW m \in Messages
    PROVE  U16(m.frame.id) \in Key
  BY ConfigAssumption DEF CAN_MESSAGE, CanFrame, Key

(* Decode reads no byte behind the frame's length, if the frame is as long  *)
(* as its type is wide.                                                     *)
LEMMA DecodeReadsOwnBytes ==
    ASSUME NEW type, NEW f, NEW g,
           f.len \in Nat, g.len = f.len, f.len >= Width(type),
           \A i \in 1 .. f.len : f.data[i] = g.data[i]
    PROVE  Decode(type, f) = Decode(type, g)
  <1>1. CASE type = "INT"
    BY <1>1 DEF Decode, Width
  <1>2. CASE type \in {"BOOL", "BYTE"}
    BY <1>2 DEF Decode, Width
  <1>3. CASE type = "STR"
    <2>1. Payload(f) = Payload(g)
      BY DEF Payload
    <2> QED BY <1>3, <2>1 DEF Decode
  <1>4. CASE type \notin {"INT", "BOOL", "BYTE", "STR"}
    BY <1>4 DEF Decode
  <1> QED BY <1>1, <1>2, <1>3, <1>4

(* convert_frame builds the JSON of the message by the type it looked up.   *)
LEMMA JsonIsJsonAs ==
    ASSUME TypeOK, NEW m \in Messages
    PROVE  \E type \in CONVERSATION_TYPE \ {"NONE"} : Json(m) = JsonAs(type, m)
  <1>1. EffectiveType(U16(m.frame.id)) \in CONVERSATION_TYPE \ {"NONE"}
    BY MessageKey DEF EffectiveType, TypeOK, CONVERSATION_TYPE
  <1> QED BY <1>1 DEF Json, JsonAs

(* The JSON of any message under any type is a document: a hash that the    *)
(* message does not have is computed.                                       *)
LEMMA JsonAsIsDocument ==
    ASSUME NEW type \in CONVERSATION_TYPE \ {"NONE"}, NEW m \in Messages
    PROVE  IsDocument(JsonAs(type, m))
  <1> DEFINE d == JsonAs(type, m)
  <1>1. /\ d.type = type
        /\ d.hash = IF m.hash = NoHash THEN Sha256(Payload(m.frame)) ELSE m.hash
        /\ d.payload = Decode(type, m.frame)
    BY DEF JsonAs
  <1>2. m.frame \in CanFrame /\ m.hash \in Hash
    BY ConfigAssumption DEF CAN_MESSAGE
  <1>3. Sha256(Payload(m.frame)) \in Hash
    BY <1>2 DEF Hash
  <1>4. Sha256(Payload(m.frame)) # NoHash
    BY DEF Sha256, NoHash
  <1>5. Decode(type, m.frame)[1] = Kind(type)
    BY DEF Decode, Kind, CONVERSATION_TYPE
  <1>6. d.type \in CONVERSATION_TYPE \ {"NONE"} /\ d.payload[1] = Kind(d.type)
    BY <1>1, <1>5
  <1>7. d.hash \in Hash \ {NoHash}
    BY <1>1, <1>2, <1>3, <1>4
  <1> QED BY <1>6, <1>7 DEF IsDocument

(* Every conversion, check and registration preserves the invariant.        *)
LEMMA StepPreserves == IInv /\ [Next]_vars => IInv'
  <1> SUFFICES ASSUME IInv, [Next]_vars PROVE IInv'
    OBVIOUS
  <1> USE DEF IInv
  <1>1. ASSUME NEW c \in Callers, NEW m \in Messages, ConvertFrame(c, m) PROVE IInv'
    <2> DEFINE k == U16(m.frame.id)
    <2>1. k \in Key
      BY MessageKey
    <2>2. /\ type_register' = Subscript(type_register, k, None, "NONE")
          /\ shown' = IF type_register[k] = None THEN shown \cup {k} ELSE shown
          /\ UNCHANGED <<reg_pc, reg_send, sent>>
      BY <1>1 DEF ConvertFrame, LookupType
    <2> HIDE DEF k
    <2>3. JsonIsConverted'
      <3>1. PICK type \in CONVERSATION_TYPE \ {"NONE"} : Json(m) = JsonAs(type, m)
        BY JsonIsJsonAs
      <3>2. json' = [json EXCEPT ![c] = JsonAs(type, m)]
        BY <1>1, <3>1 DEF ConvertFrame
      <3> QED BY <3>2 DEF JsonIsConverted, TypeOK
    <2>6. DOMAIN json' = Callers /\ \A q \in Callers : json'[q] # None => IsDocument(json'[q])
      <3>1. DOMAIN json' = Callers
        BY <1>1 DEF ConvertFrame, TypeOK
      <3> QED BY <2>3, <3>1, JsonAsIsDocument DEF JsonIsConverted
    <2>4. CASE type_register[k] # None
      <3>1. type_register' = type_register /\ shown' = shown
        BY <2>2, <2>4 DEF Subscript
      <3> QED BY <2>2, <2>3, <2>6, <3>1 DEF TypeOK, RegisterIsFree, UntypedWasShown,
                                            TypeHasOrigin, SentIsPresent
    <2>5. CASE type_register[k] = None
      <3>1. /\ type_register' = [type_register EXCEPT ![k] = "NONE"]
            /\ shown' = shown \cup {k}
        BY <2>2, <2>5 DEF Subscript
      <3>2. TypeOK'
        BY <2>1, <2>2, <2>6, <3>1 DEF TypeOK, CONVERSATION_TYPE
      <3>3. RegisterIsFree' /\ UntypedWasShown'
        BY <2>1, <2>2, <3>1, SendsTyped DEF TypeOK, RegisterIsFree, UntypedWasShown
      <3>4. TypeHasOrigin'
        <4>1. Configured[k] = None
          BY <2>1, <2>5 DEF TypeHasOrigin
        <4>2. type_register'[k] = "NONE"
          BY <2>1, <3>1 DEF TypeOK
        <4>3. \A q \in Key \ {k} : type_register'[q] = type_register[q]
          BY <3>1 DEF TypeOK
        <4> QED BY <2>2, <4>1, <4>2, <4>3 DEF TypeHasOrigin
      <3>5. SentIsPresent'
        BY <2>1, <2>2, <3>1, ConfigAssumption
           DEF TypeOK, SentIsPresent, CONVERSATION_TYPE
      <3> QED BY <2>3, <3>2, <3>3, <3>4, <3>5
    <2> QED BY <2>4, <2>5
  <1>2. ASSUME NEW s \in Sends, SendCheck(s) PROVE IInv'
    <2>1. JsonIsConverted' /\ UNCHANGED <<type_register, json, shown>>
      BY <1>2 DEF SendCheck, JsonIsConverted
    <2>2. CASE type_register[s[1]] = None
      <3>1. UNCHANGED sent
        BY <1>2, <2>2 DEF SendCheck
      <3>2. s[1] \in Key
        BY SendsTyped
      <3>3. TypeOK' /\ RegisterIsFree'
        BY <1>2, <2>1, <2>2, <3>1, <3>2 DEF SendCheck, TypeOK, RegisterIsFree, SentIsPresent
      <3> QED BY <2>1, <3>1, <3>3 DEF UntypedWasShown, TypeHasOrigin, SentIsPresent
    <2>3. CASE type_register[s[1]] # None
      <3>1. reg_pc = "idle" /\ UNCHANGED <<reg_pc, reg_send>>
        BY <1>2, <2>3 DEF SendCheck
      <3>2. sent' = [sent EXCEPT ![s[1]] = IF sent[s[1]] = None THEN s[2] ELSE sent[s[1]]]
        BY <1>2, <2>3 DEF SendCheck, FirstSent
      <3>3. s[1] \in Key /\ s[2] \in CONVERSATION_TYPE
        BY SendsTyped
      <3>4. TypeOK' /\ RegisterIsFree'
        BY <2>1, <3>1, <3>2, <3>3 DEF TypeOK, RegisterIsFree
      <3>5. SentIsPresent'
        BY <2>1, <2>3, <3>2, <3>3 DEF TypeOK, SentIsPresent
      <3>6. TypeHasOrigin'
        BY <2>1, <3>2, <3>3 DEF TypeOK, TypeHasOrigin
      <3> QED BY <2>1, <3>4, <3>5, <3>6 DEF UntypedWasShown
    <2> QED BY <2>2, <2>3
  <1>3. CASE SendRegister
    <2>1. reg_send \in Sends
      BY <1>3 DEF SendRegister, RegisterIsFree
    <2>2. /\ reg_send[1] \in Key /\ reg_send[2] \in CONVERSATION_TYPE
          /\ reg_send[2] \notin {None, "NONE"}
          /\ reg_send = <<reg_send[1], reg_send[2]>>
      BY <2>1, SendsTyped
    <2>3. /\ type_register' = [type_register EXCEPT ![reg_send[1]] = reg_send[2]]
          /\ reg_pc' = "idle" /\ reg_send' = None
          /\ sent' = [sent EXCEPT ![reg_send[1]] = reg_send[2]]
          /\ UNCHANGED <<json, shown>>
      BY <1>3 DEF SendRegister, register_conversion, FirstSent, RegisterIsFree
    <2>4. TypeOK' /\ RegisterIsFree'
      BY <2>1, <2>2, <2>3 DEF TypeOK, RegisterIsFree
    <2>5. UntypedWasShown'
      BY <2>2, <2>3 DEF TypeOK, UntypedWasShown
    <2>6. TypeHasOrigin'
      <3>1. Configured[reg_send[1]] = None
        BY <1>3, <2>2, ConfigAssumption
           DEF SendRegister, RegisterIsFree, TypeHasOrigin, Configured
      <3> QED BY <2>2, <2>3, <3>1 DEF TypeOK, TypeHasOrigin
    <2>7. SentIsPresent'
      BY <2>2, <2>3 DEF TypeOK, SentIsPresent
    <2>8. JsonIsConverted'
      BY <2>3 DEF JsonIsConverted
    <2> QED BY <2>4, <2>5, <2>6, <2>7, <2>8
  <1>4. CASE UNCHANGED vars
    BY <1>4 DEF vars, TypeOK, RegisterIsFree, UntypedWasShown, TypeHasOrigin,
                SentIsPresent, JsonIsConverted
  <1> QED BY <1>1, <1>2, <1>3, <1>4 DEF Next

(* The invariant holds in every reachable state.                            *)
THEOREM Invariance == Spec => []IInv
  BY InitEstablishes, StepPreserves, PTL DEF Spec

(* The register stays well typed, and whatever message a thread converts,   *)
(* hashed or not, registered or not, becomes a document.                    *)
THEOREM TypeCorrect == Spec => []TypeOK
  BY Invariance, PTL DEF IInv

(* A value shown of a frame as long as its type is wide is a function of    *)
(* the frame's own bytes.                                                   *)
THEOREM ValuesAreOfTheFrame == Spec => []ShownIsOfTheFrame
  <1>1. IInv => ShownIsOfTheFrame
    <2> SUFFICES ASSUME IInv, NEW c \in Callers, json[c] # None,
                        json[c].frame.len >= Width(json[c].type)
                 PROVE  json[c].payload = Decode(json[c].type, json[c].frame)
      BY DEF ShownIsOfTheFrame
    <2>1. PICK type \in CONVERSATION_TYPE \ {"NONE"}, m \in Messages : json[c] = JsonAs(type, m)
      BY DEF IInv, JsonIsConverted
    <2> DEFINE f == m.frame
               g == [f EXCEPT !.data = Memcpy([i \in 1 .. BufLen |-> 0], Payload(f))]
    <2>2. f \in CanFrame
      BY ConfigAssumption DEF CAN_MESSAGE
    <2>3. /\ json[c].type = type /\ json[c].frame = g
          /\ json[c].payload = Decode(type, f)
      BY <2>1 DEF JsonAs
    <2>4. g.len = f.len /\ f.len \in 0 .. BufLen
      BY <2>2 DEF CanFrame
    <2>5. Payload(f) = [i \in 1 .. f.len |-> f.data[i]]
      BY DEF Payload
    <2>6. Len(Payload(f)) = f.len
      BY <2>4, <2>5
    <2>7. \A i \in 1 .. f.len : f.data[i] = g.data[i]
      BY <2>2, <2>4, <2>5, <2>6, BufLenAssumption DEF CanFrame, Memcpy
    <2> HIDE DEF f, g
    <2> QED BY <2>3, <2>4, <2>7, DecodeReadsOwnBytes
  <1> QED BY <1>1, Invariance, PTL

(* An id sent before any conversion met it has its configured type, or else *)
(* the type of the first frame of it that main sent.                        *)
THEOREM SentAreTyped == Spec => []SentIdsAreTyped
  <1>1. IInv => SentIdsAreTyped
    <2> SUFFICES ASSUME IInv, NEW k \in Key, sent[k] # None, k \notin shown
                 PROVE  type_register[k] = IF Configured[k] # None THEN Configured[k]
                                           ELSE sent[k]
      BY DEF SentIdsAreTyped
    <2>1. type_register[k] \notin {None, "NONE"}
      BY DEF IInv, UntypedWasShown, SentIsPresent
    <2> QED BY <2>1 DEF IInv, TypeHasOrigin
  <1> QED BY <1>1, Invariance, PTL

(* No conversion, no send and no interleaving of the two changes a type     *)
(* that is registered.                                                      *)
THEOREM TypesAreForGood == Spec => TypeIsForGood
  <1>1. IInv /\ [Next]_vars =>
          [\A k \in Key : type_register[k] \notin {None, "NONE"} =>
                              type_register'[k] = type_register[k]]_vars
    <2> SUFFICES ASSUME IInv, [Next]_vars, NEW k \in Key,
                        type_register[k] \notin {None, "NONE"}
                 PROVE  type_register'[k] = type_register[k]
      OBVIOUS
    <2>1. ASSUME NEW c \in Callers, NEW m \in Messages, ConvertFrame(c, m)
          PROVE  type_register'[k] = type_register[k]
      BY <2>1 DEF ConvertFrame, LookupType, Subscript, IInv, TypeOK
    <2>2. ASSUME NEW s \in Sends, SendCheck(s)
          PROVE  type_register'[k] = type_register[k]
      BY <2>2 DEF SendCheck
    <2>3. ASSUME SendRegister
          PROVE  type_register'[k] = type_register[k]
      BY <2>3 DEF SendRegister, register_conversion, IInv, TypeOK, RegisterIsFree
    <2>4. CASE UNCHANGED vars
      BY <2>4 DEF vars
    <2> QED BY <2>1, <2>2, <2>3, <2>4 DEF Next
  <1> QED BY <1>1, Invariance, PTL DEF Spec, TypeIsForGood
===============================================================================
