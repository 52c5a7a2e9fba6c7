---------------------------- MODULE MqttEnqueue ----------------------------
(***************************************************************************)
(* MQTTBackendESP32::enqueue_ (src/esphome/components/mqtt/                *)
(* mqtt_backend_esp32.cpp): the main loop is the source and esphome_mqtt_  *)
(* task the sink of an EventPool and queue, as in module EventPool, except *)
(* that when set_data() cannot copy the message the source itself calls    *)
(* release(), so that two threads push on the pool's free list.            *)
(***************************************************************************)
EXTENDS EventPool

LoadFails == /\ SourceAt("load")
             /\ SourceGoes("giveback")
             /\ UNCHANGED << queue_vars, free_vars, total_created, sink >>

GiveBackBegins == /\ SourceAt("giveback")
                  /\ IF Free!Full
                     THEN /\ Free!PushFull("source", source.event)
                          /\ SourceLetsGo("drop")
                     ELSE /\ Free!PushRoom("source", source.event)
                          /\ SourceGoes("givingback")
                  /\ UNCHANGED << queue_vars, total_created, sink >>

GiveBackWrites == /\ SourceAt("givingback") /\ Free!PushWrite("source")
                  /\ UNCHANGED << queue_vars, total_created, source, sink >>

GiveBackEnds == /\ SourceAt("givingback") /\ Free!PushPublish("source")
                /\ SourceLetsGo("drop")
                /\ UNCHANGED << queue_vars, total_created, sink >>

MqttNext == \/ Next
            \/ LoadFails \/ GiveBackBegins \/ GiveBackWrites \/ GiveBackEnds

MqttSpec == Init /\ [][MqttNext]_vars
=============================================================================
