-------------------------------- MODULE Blinker --------------------------------
(***************************************************************************)
(* module5/practice3/practice3.c: a timer that blinks the keyboard's LEDs. *)
(* Its handler looks at the mask twice while a user may write it, and sets *)
(* the timer again; rmmod stops it and hands the LEDs back.                *)
(***************************************************************************)
EXTENDS Integers

CONSTANT Masks     \* 1 .. 7 in the code; 0 stops the blinking

VARIABLES
  module,        \* absent, coming, live, going or stopped
  made,          \* "kobject" and "file"
  timer,         \* off or pending
  handler,       \* where the handler is, none, enters, picks or sets
  blink_mask, leds_status,
  leds           \* what shows; RESTORE_LEDS: the keyboard's own

vars == <<module, made, timer, handler, blink_mask, leds_status, leds>>
RESTORE_LEDS == 255

Init ==
  /\ module = "absent" /\ made = {} /\ timer = "off" /\ handler = "none"
  /\ blink_mask = 0 /\ leds_status = 0 /\ leds = RESTORE_LEDS

(* sys_init: the attribute can be written before the timer is set up.      *)
Insmod ==
  /\ module = "absent" /\ module' = "coming" /\ blink_mask' = 0 /\ leds_status' = 0
  /\ UNCHANGED <<made, timer, handler, leds>>
kobject_create ==
  /\ module = "coming" /\ made = {} /\ made' = {"kobject"}
  /\ UNCHANGED <<module, timer, handler, blink_mask, leds_status, leds>>
(* Slip: where the file is not created the kobject stays. *)
KeptKobject == made
KeptOnError == {}
Fails ==
  /\ module = "coming" /\ "file" \notin made /\ module' = "absent" /\ made' = KeptOnError
  /\ UNCHANGED <<timer, handler, blink_mask, leds_status, leds>>
sysfs_create_file ==
  /\ module = "coming" /\ made = {"kobject"} /\ made' = {"kobject", "file"}
  /\ UNCHANGED <<module, timer, handler, blink_mask, leds_status, leds>>
add_timer ==
  /\ module = "coming" /\ "file" \in made /\ module' = "live" /\ timer' = "pending"
  /\ UNCHANGED <<made, handler, blink_mask, leds_status, leds>>

sys_write(m) ==
  /\ "file" \in made /\ blink_mask' = m
  /\ UNCHANGED <<module, made, timer, handler, leds_status, leds>>

-----------------------------------------------------------------------------
Expire ==
  /\ timer = "pending" /\ handler = "none" /\ timer' = "off" /\ handler' = "enters"
  /\ UNCHANGED <<module, made, blink_mask, leds_status, leds>>

Restore ==
  /\ handler = "enters" /\ blink_mask = 0 /\ handler' = "sets"
  /\ leds' = RESTORE_LEDS /\ leds_status' = 0
  /\ UNCHANGED <<module, made, timer, blink_mask>>
Looks ==
  /\ handler = "enters" /\ blink_mask # 0 /\ handler' = "picks"
  /\ UNCHANGED <<module, made, timer, blink_mask, leds_status, leds>>
(* By then the mask may be another one, or 0.                              *)
Pick ==
  /\ handler = "picks" /\ handler' = "sets"
  /\ leds_status' = IF leds_status = 0 THEN blink_mask ELSE 0
  /\ leds' = leds_status'
  /\ UNCHANGED <<module, made, timer, blink_mask>>

(* Slip: where the mask is 0 the timer is not set again. *)
SetIfBlinking == IF blink_mask = 0 THEN "off" ELSE "pending"
SetAgain == "pending"
mod_timer ==
  /\ handler = "sets" /\ handler' = "none" /\ timer' = SetAgain
  /\ UNCHANGED <<module, made, blink_mask, leds_status, leds>>

-----------------------------------------------------------------------------
(* sys_exit. timer_delete_sync() waits for the handler.                    *)
Rmmod ==
  /\ module = "live" /\ module' = "going"
  /\ UNCHANGED <<made, timer, handler, blink_mask, leds_status, leds>>
(* Slip: timer_delete() does not wait. *)
HandlerIgnored == TRUE
HandlerOver == handler = "none"
timer_delete_sync ==
  /\ module = "going" /\ HandlerOver /\ module' = "stopped" /\ timer' = "off"
  /\ UNCHANGED <<made, handler, blink_mask, leds_status, leds>>
kobject_put ==
  /\ module = "stopped" /\ module' = "absent" /\ made' = {} /\ leds' = RESTORE_LEDS
  /\ UNCHANGED <<timer, handler, blink_mask, leds_status>>

Handler == Expire \/ Restore \/ Looks \/ Pick \/ mod_timer
Next ==
  \/ Insmod \/ kobject_create \/ Fails \/ sysfs_create_file \/ add_timer
  \/ Handler \/ Rmmod \/ timer_delete_sync \/ kobject_put
  \/ \E m \in Masks \cup {0} : sys_write(m)

Spec == Init /\ [][Next]_vars

-----------------------------------------------------------------------------
(* A live module goes on blinking whatever is written, also after a mask of *)
(* 0; one that is gone leaves no timer, no handler and no file, and the     *)
(* keyboard its LEDs. The LEDs show leds_status, or their own state where   *)
(* the mask was 0.                                                          *)
TimerKept == module = "live" => timer = "pending" \/ handler # "none"
NothingLeft ==
  module = "absent" => timer = "off" /\ handler = "none" /\ made = {} /\ leds = RESTORE_LEDS
LedsFollow == module # "absent" => leds = leds_status \/ (leds = RESTORE_LEDS /\ leds_status = 0)
===============================================================================
