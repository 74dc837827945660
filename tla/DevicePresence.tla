---------------------------- MODULE DevicePresence ----------------------------
(* Which devices are online, as Redis has it: the hash device:<id> with its    *)
(* 120 s life (repository/redis.go), written by the callback main.go gives to  *)
(* the MQTT subscription, one status after another.                            *)
CONSTANTS
    Reporters,      \* devices that report their status
    NoReporter      \* no device

ASSUME ReporterAssumption == NoReporter \notin Reporters

VARIABLES
    callback,       \* the callback's next statement
    reporter,       \* the device whose status it handles
    deviceKey,      \* device:<id>: absent, without expiry, or running out
    cut             \* history: devices whose last SetDeviceOnline was cut off, by
                    \* a command that failed or by the end of the process

presenceVars == <<callback, reporter, deviceKey, cut>>

PresenceInit ==
    /\ callback  = "idle" /\ reporter = NoReporter
    /\ deviceKey = [d \in Reporters |-> "absent"]
    /\ cut = {}

Returns == callback' = "broadcast" /\ UNCHANGED reporter

Receive(d) ==
    /\ callback = "idle"
    /\ callback' = "hset" /\ reporter' = d
    /\ UNCHANGED <<deviceKey, cut>>

(* HSET makes the key, or leaves the life of the one that is there; EXPIRE     *)
(* gives it one.                                                               *)
Makes == deviceKey' = [deviceKey EXCEPT ![reporter] = IF @ = "absent" THEN "immortal" ELSE @]
Limits == deviceKey' = [deviceKey EXCEPT ![reporter] = IF @ = "absent" THEN "absent" ELSE "mortal"]

HSetDevice ==
    /\ callback = "hset"
    /\ callback' = "expire"
    /\ Makes
    /\ UNCHANGED <<reporter, cut>>

(* EXPIRE, and the return: the code compares the command object, which is      *)
(* never nil, so SetDeviceOnline ends here with what looks like an error, and  *)
(* its SADD to online_devices is never reached.  The callback does not look at the error.          *)
NoExpire ==
    /\ callback = "expire"
    /\ Returns
    /\ cut' = cut \ {reporter}
    /\ UNCHANGED deviceKey
ExpireDevice ==
    /\ callback = "expire"
    /\ Returns
    /\ Limits
    /\ cut' = cut \ {reporter}

(* A command that answers an error may have been executed all the same.        *)
RedisFails ==
    /\ callback \in {"hset", "expire"}
    /\ Returns
    /\ \/ UNCHANGED deviceKey
       \/ callback = "hset" /\ Makes
       \/ callback = "expire" /\ Limits
    /\ cut' = cut \cup {reporter}

(* The process ends, between two commands if need be; Redis stays.             *)
PresenceDies ==
    /\ callback' = "idle" /\ reporter' = NoReporter
    /\ cut' = IF callback = "expire" THEN cut \cup {reporter} ELSE cut
    /\ UNCHANGED deviceKey

(* hub.Broadcast takes the status. *)
BroadcastStatus ==
    /\ callback = "broadcast"
    /\ callback' = "idle" /\ reporter' = NoReporter
    /\ UNCHANGED <<deviceKey, cut>>

CallbackStep == HSetDevice \/ ExpireDevice \/ RedisFails \/ BroadcastStatus

(* 120 s without a status: Redis does this alone. *)
KeyExpires(d) ==
    /\ deviceKey[d] = "mortal"
    /\ deviceKey' = [deviceKey EXCEPT ![d] = "absent"]
    /\ UNCHANGED <<callback, reporter, cut>>

PresenceTypeOK ==
    /\ callback \in {"idle", "hset", "expire", "broadcast"}
    /\ reporter \in IF callback = "idle" THEN {NoReporter} ELSE Reporters
    /\ deviceKey \in [Reporters -> {"absent", "immortal", "mortal"}]
    /\ cut \subseteq Reporters

(* A device that falls silent disappears, its key runs out: unless its last    *)
(* SetDeviceOnline was cut off between HSET and EXPIRE (redis.go:51,55).  So a *)
(* key that a failure or the end of the process left without an expiry has one *)
(* again after the next complete status, even when it ran out meanwhile.       *)
SilentDevicesGo ==
    \A d \in Reporters :
        deviceKey[d] = "immortal" => d \in cut \/ (callback = "expire" /\ reporter = d)
===============================================================================
