---------------------------- MODULE InspectionConfig ----------------------------
(***************************************************************************)
(* The form of one inspection's configuration in frontend/src              *)
(* (components/mission/InspectionConfigForm, hooks/useInspectionConfig,    *)
(* useAngleLock).  The form is not mounted anew when another inspection is *)
(* selected: what it keeps itself, the mark on the zoom, the lock of the   *)
(* angle and the preset shown, goes on from one inspection to the next.    *)
(* A step of the operator ends in a commit, and effects run after every    *)
(* commit, until none of them changes anything.  The height, distance and  *)
(* gimbal angle of a hover are numbers modulo Turns in which two give the  *)
(* third as their sum or difference; a distance of zero is left out.  The  *)
(* zoom that fits a row of lights is the distance itself, MaxZoom for one  *)
(* light.  The white balance stands for the four camera settings.          *)
(***************************************************************************)
EXTENDS Naturals, FiniteSets

CONSTANTS
  Forms,         \* inspections of the mission
  NoForm,
  CameraPresets, DefaultPreset, Own,
  Turns,         \* bound: numbers a field can hold
  MaxZoom,
  Null, Absent,
  MaxEdits       \* bound: steps of the operator

FormAssumption ==
  /\ Turns \in Nat \ {0, 1} /\ MaxZoom \in Nat /\ Turns <= MaxZoom + 1 /\ MaxEdits \in Nat
  /\ DefaultPreset \in CameraPresets /\ NoForm \notin Forms
  /\ Null # Absent /\ \A x \in {Null, Absent} : x \notin Nat \cup CameraPresets

VARIABLES
  saved,        \* the configurations the server has
  override,     \* configOverride: fields changed and not saved; Null is cleared
  form,         \* the inspection the form shows
  oneLight,     \* one light unit is selected, or a row
  presetList,   \* the presets loaded
  zoomTouched, zoomKey,
  zoomDeps, presetDeps,        \* what the effects saw when they last ran
  presetShown, angleLocked,
  settled,      \* no effect is left to run
  fedits,
  inPlace,      \* history: the form went from one inspection to another
  unbound,      \* history: the preset shown was set to none by hand
  aimed         \* history: the last edit of the triangle was with the lock on

formVars == <<saved, override, form, oneLight, presetList, zoomTouched, zoomKey, zoomDeps, presetDeps,
              presetShown, angleLocked, settled, fedits, inPlace, unbound, aimed>>
effectVars == <<zoomTouched, zoomKey, zoomDeps, presetDeps, presetShown>>

Numbers == 0..(Turns - 1)
Lengths == {"distance", "height", "angle"}
FormFields == Lengths \cup {"zoom", "mode", "preset", "balance"}

Values(f) ==
  CASE f \in Lengths   -> Numbers
    [] f = "zoom"      -> 0..MaxZoom
    [] f = "mode"      -> {"AUTO", "MANUAL"}
    [] f = "preset"    -> CameraPresets
    [] f = "balance"   -> CameraPresets \cup {Own}

\* Explicitly cleared is not the same as not in the override.
resolve(i, f) == IF override[i][f] # Absent THEN override[i][f] ELSE saved[i][f]

computedOpticalZoom(i) ==
  IF resolve(i, "distance") = Null THEN Null
  ELSE IF oneLight THEN MaxZoom ELSE resolve(i, "distance")

\* The zoom is the operator's own where one is saved or entered.
Seeded(i) == resolve(i, "zoom") # Null

PresetOf(i) == resolve(i, "preset")
PresetKey(i) == <<override[i]["preset"], saved[i]["preset"]>>

\* Every variable of the form and of the stored configurations stays in its range.
TypeOK ==
  /\ \A i \in Forms, f \in FormFields : /\ saved[i][f] \in Values(f) \cup {Null}
                                        /\ override[i][f] \in Values(f) \cup {Null, Absent}
  /\ form \in Forms \cup {NoForm} /\ oneLight \in BOOLEAN
  /\ presetList \subseteq CameraPresets /\ presetShown \in CameraPresets \cup {Null}
  /\ zoomTouched \in BOOLEAN /\ angleLocked \in BOOLEAN /\ settled \in BOOLEAN
  /\ zoomKey \in (Forms \cup {NoForm}) \X (Numbers \cup {Null})
  /\ fedits \in 0..MaxEdits /\ {inPlace, unbound, aimed} \subseteq BOOLEAN

Untouched == [f \in FormFields |-> Absent]

Init ==
  /\ \E zoom \in [Forms -> {Null, MaxZoom - 1}], distance \in {Null, 1} :
       saved = [i \in Forms |-> [f \in FormFields |->
                  IF f = "zoom" THEN zoom[i] ELSE IF f = "distance" THEN distance ELSE Null]]
  /\ override = [i \in Forms |-> Untouched]
  /\ form = NoForm /\ oneLight = FALSE
  /\ presetList = {} /\ presetShown = Null /\ angleLocked = FALSE
  /\ zoomTouched = FALSE /\ zoomKey = <<NoForm, Null>>
  /\ zoomDeps = <<Null, FALSE>> /\ presetDeps = <<Null, Null>>
  /\ inPlace = FALSE /\ unbound = FALSE /\ aimed = FALSE
  /\ settled = TRUE /\ fedits = 0

-----------------------------------------------------------------------------
(* Effects *)

\* Mutant of RunEffects: nothing is propagated in the commit that changes the mark.
RunEffects_skips ==
  LET i == form  d == resolve(i, "distance")  fit == computedOpticalZoom(i)
      touched == IF zoomKey[1] # i THEN Seeded(i) ELSE zoomTouched /\ zoomKey[2] = d
      fires == /\ <<fit, zoomTouched>> # zoomDeps /\ ~zoomTouched /\ touched
               /\ fit # Null /\ fit # resolve(i, "zoom")
  IN  /\ ~settled
      /\ zoomKey' = <<i, d>> /\ zoomTouched' = touched /\ zoomDeps' = <<fit, zoomTouched>>
      /\ override' = IF fires THEN [override EXCEPT ![i]["zoom"] = fit] ELSE override
      /\ presetDeps' = PresetKey(i)
      /\ presetShown' = IF presetDeps # PresetKey(i) THEN PresetOf(i) ELSE presetShown
      /\ unbound' = (unbound /\ presetDeps = PresetKey(i))
      /\ settled' = (touched = zoomTouched /\ ~fires)
      /\ UNCHANGED <<saved, form, oneLight, presetList, angleLocked, fedits, inPlace, aimed>>

\* The mark is read from the configuration of another inspection, and released
\* when the distance changes; the zoom that fits is entered where the mark, as it
\* was at the commit, is off and the zoom or the mark changed; the preset shown
\* follows the configuration's.
RunEffects ==
  LET i == form  d == resolve(i, "distance")  fit == computedOpticalZoom(i)
      touched == IF zoomKey[1] # i THEN Seeded(i) ELSE zoomTouched /\ zoomKey[2] = d
      fires == /\ <<fit, zoomTouched>> # zoomDeps /\ ~zoomTouched
               /\ fit # Null /\ fit # resolve(i, "zoom")
  IN  /\ ~settled
      /\ zoomKey' = <<i, d>> /\ zoomTouched' = touched /\ zoomDeps' = <<fit, zoomTouched>>
      /\ override' = IF fires THEN [override EXCEPT ![i]["zoom"] = fit] ELSE override
      /\ presetDeps' = PresetKey(i)
      /\ presetShown' = IF presetDeps # PresetKey(i) THEN PresetOf(i) ELSE presetShown
      /\ unbound' = (unbound /\ presetDeps = PresetKey(i))
      /\ settled' = (touched = zoomTouched /\ ~fires)
      /\ UNCHANGED <<saved, form, oneLight, presetList, angleLocked, fedits, inPlace, aimed>>

-----------------------------------------------------------------------------
(* Steps of the operator: each follows the effects of the last, and commits *)

Step == settled /\ fedits < MaxEdits /\ fedits' = fedits + 1 /\ settled' = FALSE

\* A form that appears reads the mark first and runs every effect.
Mount(i) ==
  /\ form = NoForm /\ form' = i /\ settled' = FALSE
  /\ zoomTouched' = Seeded(i) /\ zoomKey' = <<i, resolve(i, "distance")>>
  /\ zoomDeps' = <<Absent, FALSE>> /\ presetDeps' = <<Absent, Absent>>
  /\ presetShown' = PresetOf(i) /\ angleLocked' = FALSE
  /\ inPlace' = FALSE /\ unbound' = FALSE /\ aimed' = FALSE
  /\ UNCHANGED <<saved, override, oneLight, presetList, fedits>>

Switch(i) ==
  /\ form \notin {NoForm, i} /\ Step /\ form' = i
  /\ inPlace' = TRUE /\ aimed' = FALSE
  /\ UNCHANGED <<saved, override, oneLight, presetList, effectVars, angleLocked, unbound>>

Deselect ==
  /\ form # NoForm /\ settled
  /\ form' = NoForm
  /\ presetList' = {} /\ presetShown' = Null /\ angleLocked' = FALSE
  /\ zoomTouched' = FALSE /\ zoomKey' = <<NoForm, Null>>
  /\ zoomDeps' = <<Null, FALSE>> /\ presetDeps' = <<Null, Null>>
  /\ inPlace' = FALSE /\ unbound' = FALSE /\ aimed' = FALSE
  /\ UNCHANGED <<saved, override, oneLight, settled, fedits>>

\* The form hands its parent the whole override, with some fields replaced.
onChange(fields) ==
  override' = [override EXCEPT ![form] = [f \in FormFields |-> IF f \in DOMAIN fields THEN fields[f]
                                                               ELSE @[f]]]

\* Mutant of Difference: the sign of the pitch is lost.
Difference_unsigned(a, b) == a + b

Difference(a, b) == (a + Turns - b) % Turns

\* Mutant of Solved: the distance is not part of what is solved.
Solved_distance(f, v) ==
  LET d == resolve(form, "distance")
  IN  IF ~angleLocked \/ v = Null \/ f = "distance" \/ d = Null THEN {}
      ELSE IF f = "height" THEN {<<"angle", Difference(v, d)>>}
      ELSE {<<"height", (d + v) % Turns>>}

\* What the lock makes of an edit of one side: the height follows the distance and
\* the angle, the angle the height, where the other side is known.
Solved(f, v) ==
  LET d == resolve(form, "distance")  a == resolve(form, "angle")
  IN  IF ~angleLocked \/ v = Null THEN {}
      ELSE IF f = "distance" THEN (IF a = Null THEN {} ELSE {<<"height", (v + a) % Turns>>})
      ELSE IF d = Null THEN {}
      ELSE IF f = "height" THEN {<<"angle", Difference(v, d)>>}
      ELSE {<<"height", (d + v) % Turns>>}

useAngleLock(f, v) ==
  /\ form # NoForm /\ Step /\ (f = "distance" => v # 0)
  /\ LET solved == Solved(f, v)
     IN  onChange([g \in {f} \cup {s[1] : s \in solved} |->
                     IF g = f THEN v ELSE (CHOOSE s \in solved : s[1] = g)[2]])
  /\ aimed' = angleLocked
  /\ UNCHANGED <<saved, form, oneLight, presetList, effectVars, angleLocked, inPlace, unbound>>

onAngleLockedToggle ==
  /\ form # NoForm /\ settled
  /\ angleLocked' = ~angleLocked /\ aimed' = FALSE
  /\ UNCHANGED <<saved, override, form, oneLight, presetList, effectVars, settled, fedits, inPlace,
                 unbound>>

\* The slider takes the zoom over; the button gives it back.
setZoom(v) ==
  /\ form # NoForm /\ Step
  /\ zoomTouched' = TRUE
  /\ onChange([f \in {"zoom"} |-> v])
  /\ UNCHANGED <<saved, form, oneLight, presetList, zoomKey, zoomDeps, presetDeps, presetShown, angleLocked,
                 inPlace, unbound, aimed>>

resetZoom ==
  /\ form # NoForm /\ zoomTouched /\ computedOpticalZoom(form) # Null /\ Step
  /\ zoomTouched' = FALSE
  /\ onChange([f \in {"zoom"} |-> computedOpticalZoom(form)])
  /\ UNCHANGED <<saved, form, oneLight, presetList, zoomKey, zoomDeps, presetDeps, presetShown, angleLocked,
                 inPlace, unbound, aimed>>

\* The selection of light units is another: so is the zoom that fits.
SelectLights ==
  /\ form # NoForm /\ Step
  /\ oneLight' = ~oneLight
  /\ UNCHANGED <<saved, override, form, presetList, effectVars, angleLocked, inPlace, unbound, aimed>>

ManualShown == resolve(form, "mode") = "MANUAL"

\* Mutant of handlePresetSelect: the settings are taken, the preset is not named.
handlePresetSelect_unnamed(p) ==
  /\ form # NoForm /\ ManualShown /\ p \in presetList /\ Step
  /\ presetShown' = p
  /\ onChange([mode |-> "MANUAL", balance |-> p])
  /\ UNCHANGED <<saved, form, oneLight, presetList, zoomTouched, zoomKey, zoomDeps, presetDeps, angleLocked,
                 inPlace, unbound, aimed>>

handlePresetSelect(p) ==
  /\ form # NoForm /\ ManualShown /\ p \in presetList /\ Step
  /\ presetShown' = p
  /\ onChange([mode |-> "MANUAL", preset |-> p, balance |-> p])
  /\ UNCHANGED <<saved, form, oneLight, presetList, zoomTouched, zoomKey, zoomDeps, presetDeps, angleLocked,
                 inPlace, unbound, aimed>>

\* "None" is shown, and the configuration keeps its preset.
handlePresetNone ==
  /\ form # NoForm /\ ManualShown /\ Step
  /\ presetShown' = Null /\ unbound' = TRUE
  /\ UNCHANGED <<saved, override, form, oneLight, presetList, zoomTouched, zoomKey, zoomDeps, presetDeps,
                 angleLocked, inPlace, aimed>>

setWhiteBalance(v) ==
  /\ form # NoForm /\ ManualShown /\ Step
  /\ onChange([f \in {"balance"} |-> v])
  /\ UNCHANGED <<saved, form, oneLight, presetList, effectVars, angleLocked, inPlace, unbound, aimed>>

\* Inherited from the mission, or automatic.
setCameraMode(m) ==
  /\ form # NoForm /\ Step
  /\ onChange([f \in {"mode"} |-> m])
  /\ UNCHANGED <<saved, form, oneLight, presetList, effectVars, angleLocked, inPlace, unbound, aimed>>

\* Manual: the default preset is named and fills what is not set; the zoom that
\* fits is entered unless the operator took it over.
setManual ==
  LET i == form  fit == computedOpticalZoom(i)
      preset == IF DefaultPreset \in presetList
                THEN {"preset"} \cup (IF resolve(i, "balance") = Null THEN {"balance"} ELSE {}) ELSE {}
      zoom == IF ~zoomTouched /\ fit # Null THEN {"zoom"} ELSE {}
  IN  /\ form # NoForm /\ Step
      /\ onChange([f \in {"mode"} \cup preset \cup zoom |->
                     IF f = "mode" THEN "MANUAL" ELSE IF f = "zoom" THEN fit ELSE DefaultPreset])
      /\ presetShown' = IF preset # {} THEN DefaultPreset ELSE presetShown
      /\ UNCHANGED <<saved, form, oneLight, presetList, zoomTouched, zoomKey, zoomDeps, presetDeps,
                     angleLocked, inPlace, unbound, aimed>>

\* The list of presets arrives, or is emptied by a failure.
PresetsArrive ==
  /\ form # NoForm /\ settled
  /\ presetList' \in {{}, CameraPresets} \ {presetList}
  /\ UNCHANGED <<saved, override, form, oneLight, effectVars, angleLocked, settled, fedits, inPlace,
                 unbound, aimed>>

\* The page saved every configuration and shows what it stored.
Save ==
  /\ settled /\ fedits < MaxEdits /\ fedits' = fedits + 1
  /\ saved' = [i \in Forms |-> [f \in FormFields |-> resolve(i, f)]]
  /\ override' = [i \in Forms |-> Untouched]
  /\ settled' = (form = NoForm)
  /\ UNCHANGED <<form, oneLight, presetList, effectVars, angleLocked, inPlace, unbound, aimed>>

-----------------------------------------------------------------------------
Inspection ==
  \/ \E i \in Forms : Mount(i) \/ Switch(i)
  \/ Deselect \/ SelectLights

HoverFields ==
  \/ \E f \in Lengths, v \in Numbers \cup {Null} : useAngleLock(f, v)
  \/ onAngleLockedToggle

CameraSettings ==
  \/ \E v \in 1..MaxZoom : setZoom(v)
  \/ resetZoom
  \/ \E p \in CameraPresets : handlePresetSelect(p)
  \/ handlePresetNone
  \/ setWhiteBalance(Own) \/ setWhiteBalance(Null)
  \/ setCameraMode("AUTO") \/ setCameraMode(Null) \/ setManual

Next == Inspection \/ HoverFields \/ CameraSettings \/ RunEffects \/ PresetsArrive \/ Save

Spec == Init /\ [][Next]_formVars

-----------------------------------------------------------------------------
(* Properties *)

\* A zoom that is marked automatic is the zoom that fits, whatever led to it: the
\* distance, the lights, the mode, a reset or a save.  A form that went from one
\* inspection to another is excepted.
ZoomFollows ==
  /\ form # NoForm /\ settled /\ ~zoomTouched /\ ~inPlace
  /\ computedOpticalZoom(form) # Null
  => resolve(form, "zoom") = computedOpticalZoom(form)

\* With the lock on, the distance, the height and the angle entered or solved last
\* are a triangle when all three are known.
TriangleHolds ==
  LET side(f) == resolve(form, f)
  IN  form # NoForm /\ aimed /\ (\A f \in Lengths : side(f) # Null)
        => side("height") = (side("distance") + side("angle")) % Turns

\* The preset shown is the configuration's, also after another inspection was
\* selected or the edits were saved, unless it was set to none by hand.
PresetIsBound == form # NoForm /\ settled /\ ~unbound => presetShown = PresetOf(form)
=============================================================================
