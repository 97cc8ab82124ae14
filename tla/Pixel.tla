------------------------------- MODULE Pixel -------------------------------
(***************************************************************************)
(* The driver of a strip of WS2812B LEDs (pixel_driver.c) in its two       *)
(* builds: with RMT, whose encoder reads the colours while they are sent,  *)
(* and with SPI, where a task converts them first.  The application writes *)
(* the colours and the length while the task reads them, without a lock.   *)
(*                                                                         *)
(* One task of the application calls the driver, and initialises it once   *)
(* if it is built with RMT (StartRmt).  memcpy goes on LED by LED.         *)
(***************************************************************************)
EXTENDS Integers, Sequences

CONSTANTS
  LedMax,      \* CONFIG_LED_COUNT_MAX
  LedDefault,  \* CONFIG_DEFAULT_LED_NUM
  Colours      \* triples of bytes

ASSUME PixelAssumption ==
  /\ LedMax \in Nat
  /\ LedDefault \in 1 .. LedMax
  /\ Colours \subseteq [1 .. 3 -> 0 .. 255]

VARIABLES
  type,      \* CONFIG_PIXEL_TYPE_..., "none" without CONFIG_PIXEL_DRIVER_ENABLE
  spiBus,    \* external: SPI2 is initialised
  starting,  \* where pixel_driver_init is
  pxTask,    \* the task exists
  initDone,  \* g_ws2812b_init_done
  ledNum,    \* g_led_num
  rgb,       \* g_ws2812b_rgb_buf, by LEDs
  copy,      \* the memcpy in progress
  at,        \* where the task is
  pos,       \* the LED it is at
  length,    \* of the transfer
  spi,       \* g_ws2812b_spi_buf, by LEDs
  strip      \* external: what the LEDs show

pixelStart == <<type, spiBus, starting, pxTask, initDone>>
application == <<ledNum, rgb, copy>>
task == <<at, pos, length, spi>>
pixelVars == <<pixelStart, application, task, strip>>

Leds == 1 .. LedMax
Black == <<0, 0, 0>>
NoCopy == [from |-> <<>>, len |-> 0, done |-> 0]

PixelInit ==
  /\ type \in {"rmt", "spi", "none"}
  /\ spiBus \in BOOLEAN
  /\ starting = "no"
  /\ pxTask = FALSE
  /\ initDone = FALSE
  /\ ledNum = LedDefault
  /\ rgb = [i \in Leds |-> Black]
  /\ copy = NoCopy
  /\ at = "wait"
  /\ pos = 1
  /\ length = 0
  /\ spi = [i \in Leds |-> <<>>]
  /\ strip = [i \in Leds |-> Black]
-----------------------------------------------------------------------------
(* Bits on the wire. *)

\* g_ws2812b_half_lut_buf: four bits, of four bits each.
HalfLut ==
  <<\h8888, \h888E, \h88E8, \h88EE, \h8E88, \h8E8E, \h8EE8, \h8EEE,
    \hE888, \hE88E, \hE8E8, \hE8EE, \hEE88, \hEE8E, \hEEE8, \hEEEE>>

\* Green, red, blue, the high half of each first.
ToSpi(c) ==
  [k \in 1 .. 6 |->
    LET byte == <<c[2], c[1], c[3]>>[(k + 1) \div 2] IN
    HalfLut[(IF k % 2 = 1 THEN byte \div 16 ELSE byte % 16) + 1]]

\* What an LED makes of them: a one is high for three quarters of its time.
LedBit(word, n) == IF (word \div 16 ^ n) % 16 = 14 THEN 2 ^ n ELSE 0
Half(word) == LedBit(word, 3) + LedBit(word, 2) + LedBit(word, 1) + LedBit(word, 0)
Byte(words, k) == 16 * Half(words[2 * k - 1]) + Half(words[2 * k])
FromSpi(words) == <<Byte(words, 2), Byte(words, 1), Byte(words, 3)>>

\* The RMT encoder sends the bytes as they come, and the first one is green.
FromRmt(c) == <<c[2], c[1], c[3]>>
-----------------------------------------------------------------------------
(* pixel_driver_init.  With RMT any failure is an abort. *)

Goes(from, next) == starting = from /\ starting' = next

\* The code does not look whether it ran before.  That it is called once, so
\* that there is one channel and one task (~pxTask), is a bound of the model.
StartRmt ==
  /\ type = "rmt"
  /\ copy = NoCopy
  /\ ~pxTask
  /\ rgb' = [i \in Leds |-> Black]
  /\ pxTask' = TRUE
  /\ initDone' = TRUE
  /\ UNCHANGED <<type, spiBus, starting, ledNum, copy, task, strip>>

StartSpi ==
  /\ type = "spi"
  /\ Goes("no", "bus")
  /\ UNCHANGED <<type, spiBus, pxTask, initDone, application, task, strip>>

\* A bus that is initialised already, be it by an earlier attempt, is an error.
SpiBusInit ==
  /\ starting = "bus"
  /\ starting' = IF spiBus THEN "no" ELSE "device"
  /\ spiBus' = TRUE
  /\ UNCHANGED <<type, pxTask, initDone, application, task, strip>>

AddDevice ==
  /\ Goes("device", "task")
  /\ spi' = [i \in Leds |-> <<>>]
  /\ rgb' = [i \in Leds |-> Black]
  /\ UNCHANGED <<type, spiBus, pxTask, initDone, ledNum, copy, at, pos, length, strip>>

SpiCreateTask ==
  /\ Goes("task", "no")
  /\ pxTask' = TRUE
  /\ initDone' = TRUE
  /\ UNCHANGED <<type, spiBus, application, task, strip>>

SpiStartFails ==
  /\ starting \in {"bus", "device", "task"}
  /\ starting' = "no"
  /\ UNCHANGED <<type, spiBus, pxTask, initDone, application, task, strip>>
-----------------------------------------------------------------------------
(* The application. *)

\* Mutant of SetLedLen: the length is taken as it is.
SetLedLenUnchecked(len) ==
  /\ starting = "no" /\ copy = NoCopy
  /\ ledNum' = len
  /\ UNCHANGED <<pixelStart, rgb, copy, task, strip>>

\* pixel_drv_set_led_len
SetLedLen(len) ==
  /\ starting = "no" /\ copy = NoCopy
  /\ ledNum' = IF len \in Leds THEN len ELSE LedDefault
  /\ UNCHANGED <<pixelStart, rgb, copy, task, strip>>

\* pixel_drv_sendata
SendData(data, len) ==
  /\ starting = "no" /\ copy = NoCopy
  /\ copy' = [from |-> data, len |-> IF len > ledNum THEN ledNum ELSE len, done |-> 0]
  /\ UNCHANGED <<pixelStart, ledNum, rgb, task, strip>>

CopyLed ==
  /\ copy # NoCopy
  /\ IF copy.done = copy.len THEN copy' = NoCopy /\ rgb' = rgb
     ELSE /\ copy' = [copy EXCEPT !.done = @ + 1]
          /\ rgb' = [rgb EXCEPT ![copy.done + 1] = copy.from[copy.done + 1]]
  /\ UNCHANGED <<pixelStart, ledNum, task, strip>>
-----------------------------------------------------------------------------
(* ws2812b_spi_drv_task *)

TaskGoes(from, next) == pxTask /\ at = from /\ at' = next

\* Mutant of SpiBegin: the conversion goes on where the last one ended.
SpiBeginNoReset ==
  /\ type = "spi" /\ initDone
  /\ TaskGoes("wait", "convert")
  /\ UNCHANGED <<pixelStart, application, pos, length, spi, strip>>

SpiBegin ==
  /\ type = "spi" /\ initDone
  /\ TaskGoes("wait", "convert")
  /\ pos' = 1
  /\ UNCHANGED <<pixelStart, application, length, spi, strip>>

\* ws2812b_data_rgb_to_spi, which reads the length for each LED.
ConvertLed ==
  /\ pxTask /\ at = "convert"
  /\ pos <= ledNum
  /\ spi' = [spi EXCEPT ![pos] = ToSpi(rgb[pos])]
  /\ pos' = pos + 1
  /\ UNCHANGED <<pixelStart, application, at, length, strip>>

SpiLength ==
  /\ pos > ledNum
  /\ TaskGoes("convert", "send")
  /\ length' = ledNum
  /\ UNCHANGED <<pixelStart, application, pos, spi, strip>>

SpiTransfer ==
  /\ TaskGoes("send", "wait")
  /\ strip' = [i \in Leds |-> IF i <= length /\ spi[i] # <<>> THEN FromSpi(spi[i]) ELSE strip[i]]
  /\ UNCHANGED <<pixelStart, application, pos, length, spi>>

(* ws2812b_rmt_drv_task, encoder_callback, rmt_tx_done_callback *)

Transmit ==
  /\ type = "rmt"
  /\ TaskGoes("wait", "encode")
  /\ length' = ledNum
  /\ pos' = 1
  /\ UNCHANGED <<pixelStart, application, spi, strip>>

EncodeLed ==
  /\ at = "encode"
  /\ pos <= length
  /\ strip' = [strip EXCEPT ![pos] = FromRmt(rgb[pos])]
  /\ pos' = pos + 1
  /\ UNCHANGED <<pixelStart, application, at, length, spi>>

\* The reset symbol, and the semaphore the task waits for.
TxDone ==
  /\ pos > length
  /\ TaskGoes("encode", "wait")
  /\ UNCHANGED <<pixelStart, application, pos, length, spi, strip>>

PixelTask ==
  SpiBegin \/ ConvertLed \/ SpiLength \/ SpiTransfer \/ Transmit \/ EncodeLed \/ TxDone

PixelNext ==
  \/ StartRmt \/ StartSpi \/ SpiBusInit \/ AddDevice \/ SpiCreateTask \/ SpiStartFails
  \/ type # "none" /\ \E len \in 0 .. LedMax + 1 : SetLedLen(len)
  \/ type # "none" /\ \E data \in [Leds -> Colours], len \in Leds : SendData(data, len)
  \/ CopyLed
  \/ PixelTask
-----------------------------------------------------------------------------
(* Properties *)

\* Types.
PixelTypeOK ==
  /\ starting \in {"no", "bus", "device", "task"}
  /\ ledNum \in Leds
  /\ rgb \in [Leds -> Colours \cup {Black}]
  /\ copy.done \in 0 .. copy.len
  /\ at \in {"wait", "convert", "send", "encode"}
  /\ pos \in 1 .. LedMax + 1
  /\ length \in 0 .. LedMax

\* Frames may mix colours of before and after, and be as long as neither; but
\* once the application leaves the colours and the length alone, the strip
\* comes to show them, bit by bit as they were given.  With RMT red and green
\* are exchanged: its encoder does not reorder the bytes as the SPI driver does.
Shown(c) == IF type = "rmt" THEN FromRmt(c) ELSE c

StripSettles ==
  <>[][FALSE]_<<ledNum, rgb>> => <>[](initDone => \A i \in 1 .. ledNum : strip[i] = Shown(rgb[i]))
=============================================================================
