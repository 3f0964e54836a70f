------------------------------ MODULE Encoding ------------------------------
(***************************************************************************)
(* What the methods of Input make of their arguments before they are       *)
(* queued (input.rs): flags of 16 and 32 bits, the nine bits of a wheel's  *)
(* rotation, and sizes and scales that MS-RDPEDISP allows.  A delta is any *)
(* integer: unsigned_abs has no overflow, not for -32768 either.           *)
(***************************************************************************)
EXTENDS Integers

(* value.clamp(low, high) *)
Clamp(value, low, high) == IF value < low THEN low
                           ELSE IF value > high THEN high ELSE value

-----------------------------------------------------------------------------
(* The wheel. delta.unsigned_abs(), at most WheelRotationMask / 2; *)
Magnitude(delta) == Clamp(IF delta < 0 THEN -delta ELSE delta, 0, 511 \div 2)

(* flags | PTR_FLAGS_WHEEL_NEGATIVE, the eighth bit; *)
Negative(word) == IF word < 256 THEN word + 256 ELSE word

(* a u16 that wraps, cut to WheelRotationMask. *)
WheelRotation(delta) ==
  IF delta < 0 THEN Negative((65536 - Magnitude(delta)) % 512) ELSE Magnitude(delta) % 512

(* PTR_FLAGS_HWHEEL or PTR_FLAGS_WHEEL above it. *)
Wheel(delta, horizontal) == (IF horizontal THEN 1024 ELSE 512) + WheelRotation(delta)

(* How a host reads the nine bits: a number in two's complement. *)
Turned(word) == IF word < 256 THEN word ELSE word - 512

-----------------------------------------------------------------------------
Button == {"Left", "Middle", "Right", "X1", "X2"}

(* PTR_FLAGS_BUTTON1 to 3 on the mouse's PDU, PTR_XFLAGS_BUTTON1 and 2 on  *)
(* the extended mouse's, and either's DOWN. *)
MouseButton(button, down) ==
  [pdu   |-> IF button \in {"X1", "X2"} THEN "ExtendedMouse" ELSE "Mouse",
   flags |-> (CASE button = "Left"   -> 4096
                [] button = "Middle" -> 16384
                [] button = "Right"  -> 8192
                [] button = "X1"     -> 1
                [] button = "X2"     -> 2) + (IF down THEN 32768 ELSE 0)]

(* KBDEXT above the scancode. *)
Key(scancode, extended) == scancode + (IF extended THEN 256 ELSE 0)

LockKeys(scroll, num, caps, kana) ==
  (IF scroll THEN 1 ELSE 0) + (IF num THEN 2 ELSE 0)
    + (IF caps THEN 4 ELSE 0) + (IF kana THEN 8 ELSE 0)

-----------------------------------------------------------------------------
Even(n) == n - (n % 2)

SanitiseSize(width, height) == <<Even(Clamp(width, 200, 8192)), Clamp(height, 200, 8192)>>
SanitiseScale(percent)      == Clamp(percent, 100, 500)

(* MS-RDPEDISP 2.2.2.2.1, as input.rs quotes it. *)
LegalSize(width, height) ==
  /\ 200 <= width /\ width <= 8192 /\ width % 2 = 0
  /\ 200 <= height /\ height <= 8192
=============================================================================
