------------------------------- MODULE Raster -------------------------------
(***************************************************************************)
(* The GPU's scanline counter (gpu/mod.rs): a repeating event ends each    *)
(* scanline, interrupts at the end of the display area and turns the       *)
(* interlace field; GP1 commands change the mode and the area meanwhile.   *)
(***************************************************************************)
EXTENDS Integers

CONSTANTS Lines,      \* scanlines by video mode, and of the interlaced PAL field
          Time,       \* scanline_time by video mode
          WRAP,       \* u16: 65536
          ResetArea,  \* dis_y_start and dis_y_end after a reset
          Areas,      \* what the guest stores with GP1(7)
          Displays,   \* what it stores with GP1(8)
          MaxGp1Stores  \* bound: GP1 commands

VideoModes == {"ntsc", "pal"}

ASSUME RasterAssumption ==
  /\ Lines \in [ntsc : Nat, pal : Nat, pal_interlaced : Nat]
  /\ Lines.ntsc > 1 /\ Lines.pal > 1 /\ Lines.pal_interlaced > 1
  /\ Time \in [VideoModes -> Nat]
  /\ WRAP \in Nat \ {0} /\ Lines.pal < WRAP /\ Lines.ntsc < WRAP /\ Lines.pal_interlaced < WRAP
  /\ \A a \in Areas \cup {ResetArea} : a.start \in 0 .. WRAP - 1 /\ a.end \in 0 .. WRAP - 1
  /\ Displays \subseteq [video : VideoModes, interlace : BOOLEAN, res480 : BOOLEAN]
  /\ MaxGp1Stores \in Nat

VARIABLES mode,        \* video mode, vertical interlace and resolution (Status)
          top,         \* bit 13 of Status: the top field is displayed
          scanline, scanline_count,
          period,      \* the interval of scanline_event
          area,        \* dis_y_start and dis_y_end
          in_vblank,
          vblank,      \* whether this step triggered Irq::VBlank
          gp1_stores

raster_vars == <<mode, top, scanline, scanline_count, period, area, in_vblank, vblank, gp1_stores>>

PowerOn == [video |-> "ntsc", interlace |-> FALSE, res480 |-> FALSE]

\* The number of scanlines, one less for the bottom field.
count(m, is_top) ==
  IF ~m.interlace THEN Lines[m.video]
  ELSE (IF m.video = "pal" THEN Lines.pal_interlaced ELSE Lines.ntsc) - (IF is_top THEN 0 ELSE 1)

interlaced_480(m) == m.interlace /\ m.res480

RasterInit ==
  /\ mode = PowerOn /\ top = TRUE
  /\ scanline = 0 /\ scanline_count = count(PowerOn, TRUE)
  /\ period = Time[PowerOn.video]
  /\ area = [ResetArea EXCEPT !.start = 0]
  /\ in_vblank = FALSE /\ vblank = FALSE /\ gp1_stores = 0

\* Fault: the last scanline is not left.
Fault_next_scanline == (IF scanline + 1 = scanline_count THEN scanline ELSE scanline + 1) % WRAP

next_scanline == IF (scanline + 1) % WRAP = scanline_count THEN 0 ELSE (scanline + 1) % WRAP

\* The event at the end of a scanline.  (The field chosen on the last line is
\* not stored.)
EndOfScanline ==
  /\ scanline' = next_scanline
  /\ vblank' = (scanline' = area.end)
  /\ top' = IF vblank' /\ interlaced_480(mode) THEN ~top ELSE top
  /\ in_vblank' = IF vblank' THEN TRUE ELSE IF scanline' = area.start THEN FALSE ELSE in_vblank
  /\ UNCHANGED <<mode, scanline_count, period, area, gp1_stores>>

Stored == gp1_stores < MaxGp1Stores /\ gp1_stores' = gp1_stores + 1 /\ vblank' = FALSE

\* Fault: the old mode is read after the new one is stored.
Fault_set_mode(m, is_top) ==
  /\ mode' = m /\ top' = is_top /\ scanline_count' = count(m, is_top)
  /\ UNCHANGED period

\* The event's interval is changed when the video mode changes.
set_mode(m, is_top) ==
  /\ mode' = m /\ top' = is_top /\ scanline_count' = count(m, is_top)
  /\ period' = IF mode.video # m.video THEN Time[m.video] ELSE period

Gp1Reset ==
  /\ Stored
  /\ set_mode(PowerOn, TRUE)
  /\ area' = ResetArea
  /\ UNCHANGED <<scanline, in_vblank>>

Gp1DisplayMode ==
  /\ Stored
  /\ \E m \in Displays : set_mode(m, top)
  /\ UNCHANGED <<area, scanline, in_vblank>>

Gp1VerticalDisplayRange ==
  /\ Stored
  /\ \E a \in Areas : area' = a
  /\ UNCHANGED <<mode, top, scanline_count, period, scanline, in_vblank>>
=============================================================================
