----------------------------- MODULE RedisGateway -----------------------------
(***************************************************************************)
(* The gateway together with the Redis writer: what the main loop hands to *)
(* store_frame after it has filed a frame, and how what subscribers and    *)
(* readers of the Redis hash see relates to what GET /receive answers.     *)
(***************************************************************************)
EXTENDS Gateway

CONSTANTS MaxStores, MaxErrors   \* bounds (RedisInterface)

VARIABLES
    \* redis_interface
    service_pc, thread_running, thread_pc, write_map, write_map_tmp, announced,
    hash, notified, stored, dropped, errors,
    given   \* history: field -> the JSON of its versions

redisVars == <<service_pc, thread_running, thread_pc, write_map, write_map_tmp, announced,
               hash, notified, stored, dropped, errors>>

(* redis_field_prefix + the id, all 32 bits of it. *)
Redis == INSTANCE RedisInterface WITH Fields <- Ids, main_pc <- service_pc

RedisInit == /\ Init
             /\ Redis!Init
             /\ given = [f \in Ids |-> <<>>]

(* What convert_frame made of message m goes into write_map. *)
StoreFrame(m) ==
    /\ Redis!store_frame(m.frame.id)
    /\ given' = [given EXCEPT ![m.frame.id] = Append(@, json'[MainThread])]

(* The end of each branch of the loop. *)
Store == \/ GotStore  /\ StoreFrame(conv_msg)
         \/ SendStore /\ StoreFrame(msg)

(* The loop starts when enable_service has returned. *)
MainLoop ==
    /\ service_pc = "loop"
    /\ \/ Store
       \/ /\ Read \/ GotPut \/ PollQueue \/ Dequeue \/ WriteSocket \/ SendCheck
             \/ SendRegister \/ SendPut
          /\ UNCHANGED <<redisVars, given>>

RedisThreads == /\ Redis!EnableService \/ Redis!UpdateThread
                /\ UNCHANGED <<vars, given>>

Http == /\ \/ \E r \in Readers : RestGet(r) \/ RestConvert(r) \/ RestList(r)
           \/ \E w \in Workers : RestSend(w)
        /\ UNCHANGED <<redisVars, given>>

RedisNext == MainLoop \/ RedisThreads \/ Http

allVars == <<vars, redisVars, given>>

(* Both threads run whenever they can. *)
RedisFairness == WF_allVars(MainLoop) /\ WF_allVars(RedisThreads)

RedisSpec == RedisInit /\ [][RedisNext]_allVars /\ RedisFairness

-------------------------------------------------------------------------------
(* The JSON of field f in the hash. *)
InRedis(f) == given[f][hash[f]]

(* GET /receive of the frame in the table: type and payload. *)
InRest(k) == LET type == Conv!EffectiveType(k) IN <<type, Conv!Decode(type, mp[k].frame)>>

(* Between frames, Redis and REST agree: when the last frame stored for an  *)
(* id is in the hash, its type and its payload are what GET /receive        *)
(* answers, although the table skips repeated payloads and Redis does not,  *)
(* each side converts for itself, and types are registered in between.      *)
(* Frames shorter than their type and ids that share a key are left out.    *)
RedisAgreesWithRest ==
    main_pc = "read" =>
        \A f \in Ids :
            /\ hash[f] > 0 /\ hash[f] = stored[f]
            /\ mp[U16(f)] # None /\ mp[U16(f)].frame.id = f
            /\ mp[U16(f)].frame.len >= Conv!Width(InRedis(f).type)
            => <<InRedis(f).type, InRedis(f).payload>> = InRest(U16(f))

(* A subscriber that is told of a frame and asks GET /receive for its id    *)
(* gets the payload of that frame or of a later one: a frame is filed in    *)
(* the table before it is handed to the Redis writer.                       *)
NotifiedIsServed ==
    \A f \in Ids : notified[f] > 0 =>
        /\ mp[U16(f)] # None
        /\ mp[U16(f)].frame.id = f /\ main_pc \notin {"got_store", "send_store"} =>
              \E i \in notified[f] .. stored[f] :
                  Payload(given[f][i].frame) = Payload(mp[U16(f)].frame)

(* A message in the table is older than the last frame received under its   *)
(* key only if all that came since carried the same payload: a client may   *)
(* take its sync tick for the moment the value was first seen.              *)
TickIsOfTheChange ==
    main_pc = "read" =>
        \A i \in DOMAIN received :
            LET k == U16(received[i].frame.id) IN
            received[i].sync_tick > mp[k].sync_tick => received[i].hash = mp[k].hash
===============================================================================
