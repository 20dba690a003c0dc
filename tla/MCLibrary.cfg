\* No longer replacement begins as its word ends (finding 4 of the README).
CONSTANTS
 Part = {"string", "stream", "print", "tone", "interrupt", "usb tx", "usb rx", "usb plug", "usb line"}
 Object = {x, y}
 Char = {"a", "b"}
 Rank <- MCRank
 Space = {"b"}
 Literal <- MCLiteral
 Pair <- MCPair
 MaxText = 2
 MaxGrown = 4
 Targets <- MCTargets
 Letter = {"a", "b"}
 Digit <- MCDigit
 Sign = "-"
 Point = "."
 White = {" "}
 Other = {"x"}
 Ignore = {"nothing", ","}
 MaxTaken = 5
 Width = 4
 Base = {0, 1, 2, 3, 10, 16}
 Parts = 4
 MaxDigits = 2
 Pin = {"p3", "p8"}
 PwmPin = {"p3"}
 Radix = 4
 Frequency = {31, 500}
 Duration = {0, 5}
 Retrigger = FALSE
 SharePwm = FALSE
 IntLine = {"INT0", "INT1"}
 Handler = {"f", "once"}
 OneShot = {"once"}
 Sense = {"LOW", "CHANGE", "FALLING", "RISING"}
 Careless = FALSE
 EpByte = {"a", "b"}
 EpSize = 2
 MaxWrite = 3
 Tries = 2
 HostZlp = FALSE
 Packet = 4
 ConfigSize = 2
 CdcSize = 3
 UsbModule <- MCModule
 UsbEndpoints = 7
 Asked = {1, 4, 5, 20}
 Stop = {0, 1, 2, 3}
 StringSize = {1, 3}
 MagicKey = 7777
 Data = {0, 1}
 LatePlug = FALSE
 Twiggle = FALSE
SPECIFICATION MCSpec
INVARIANTS BufferHoldsText QueriesAgree FoundFirst ParsedNumber NumbersReadBack TimerMatchesTone
 HandlerIsWhole PipeKeepsBytes DescriptorIsWhole EndpointsAreApart 
PROPERTIES EndsAfterToggles ToneEnds FullIsFollowed RxMovesOn
