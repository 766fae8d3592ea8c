--------------------------------- MODULE MCApi ---------------------------------
(* The API's areas keep their state apart: no step of one reads or writes      *)
(* what another's properties are about.  So one run explores each of them on   *)
(* its own: the first state chooses the area, and the others stand still.      *)
EXTENDS Administration, Dictionary, Notices, Realtime, ApiRole, Admission, TLC

VARIABLE area

Areas == {"administration", "dictionary", "notices", "realtime", "process", "admission"}
Bound == [administration |-> 2, dictionary |-> 3, notices |-> 4, realtime |-> 0, process |-> 0, admission |-> 4]

MCOwner == [c \in Conn |-> "user"]
MCTarget == [e \in Event |-> {}]
Exchange == Permutations(Client)

(* Each row but the first is the child of the one before it.                   *)
Chain(n) == [id \in 1..n |-> [parent |-> id - 1, path |-> [i \in 1..id |-> i - 1]]]
Nobody == [a \in {} |-> 0]

(* Which events this instance publishes, up to their names.                    *)
OriginsInOrder == origin["e2"] = "here" => origin["e1"] = "here"

(* Two connections and one event, or one connection and two events.            *)
Init ==
  /\ area \in Areas
  /\ RequestsInit(Bound[area])
  /\ \/ AdminInit(Chain(3), Chain(2), 1..3, {<<2, 2>>}, {<<2, 3>>}, <<1, 0>>, {<<1, 1>>, <<2, 2>>})
     \/ /\ area = "administration"
        /\ AdminInit(Chain(3), Chain(2), 1..3, {<<2, 2>>}, {<<2, 3>>}, Nobody, {})
  /\ DictionaryInit(<<"a">>, <<"a">>)
  /\ NoticesInit
  /\ RealtimeInit({1, 2}, {"e1"}) \/ RealtimeInit({1}, Event)
  /\ OriginsInOrder
  /\ sending["e2"] = "sent" => origin["e2"] = origin["e1"]
  /\ area # "realtime" => sending["e2"] = "sent" /\ origin["e2"] = "here"
  /\ ApiInit
  /\ AdmissionInit

Next ==
  /\ UNCHANGED area
  /\ \/ /\ area = "administration" /\ AdminNext
        /\ UNCHANGED <<dictionaryVars, noticeVars, realtimeVars, apiVars, admissionVars>>
     \/ /\ area = "dictionary" /\ DictionaryNext
        /\ UNCHANGED <<adminVars, noticeVars, realtimeVars, apiVars, admissionVars>>
     \/ /\ area = "notices" /\ NoticesNext
        /\ UNCHANGED <<adminVars, dictionaryVars, realtimeVars, apiVars, admissionVars>>
     \/ /\ area = "realtime" /\ RealtimeNext
        /\ UNCHANGED <<adminVars, dictionaryVars, noticeVars, requestVars, apiVars, admissionVars>>
     \/ /\ area = "process" /\ ApiNext
        /\ UNCHANGED <<adminVars, dictionaryVars, noticeVars, requestVars, realtimeVars, admissionVars>>
     \/ /\ area = "admission" /\ AdmissionNext
        /\ UNCHANGED <<adminVars, dictionaryVars, noticeVars, realtimeVars, apiVars>>

Spec == Init /\ [][Next]_<<area, adminVars, requestVars, dictionaryVars, noticeVars, realtimeVars, apiVars, admissionVars>>
=============================================================================
