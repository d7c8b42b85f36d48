------------------------------ MODULE MCXBCom --------------------------------
(* Tasks: configurations of every shape for programs that stop after the   *)
(* compilation, and a few of them for every device and option. *)
EXTENDS BoardPromise

MCNumber == [p \in {"0", "1", "2", "4", "31", "300", "80000000", "115200", "8K", "1M", "9600", "30", "12"} |->
               CASE p = "0" -> 0 [] p = "1" -> 1 [] p = "2" -> 2 [] p = "4" -> 4 [] p = "31" -> 31 [] p = "30" -> 30 [] p = "12" -> 12 [] p = "9600" -> 9600
                 [] p = "300" -> 300
                 [] p = "80000000" -> 80000000 [] p = "115200" -> 115200 [] p = "8K" -> 8192 [] p = "1M" -> 1048576]

Clock == <<"clkfreq", <<"80000000">>, 80000000>>
Mode  == <<"clkmode", <<"XTAL1", "+", "PLL16X">>, 111>>
Baud  == <<"baudrate", <<"115200">>, 115200>>
Pins  == << <<"rxpin", <<"31">>, 31>>, <<"txpin", <<"31", "-", "1">>, 30>>, <<"tvpin", <<"4", "*", "2", "+", "4">>, 12>> >>
To(t, d) == << <<"text", <<t>>, 0>>, <<"data", <<d>>, 0>> >>
Flash == <<"flash-size", <<"1M">>, 1048576>>
Ram2  == <<"ram-size", <<"8K", "*", "2">>, 16384>>
Cache == << <<"cache-driver", <<"C3_CACHE.DAT">>, 0>>, <<"cache-size", <<"8K">>, 8192>>, <<"cache-param1", <<"1">>, 1>>,
           <<"cache-param2", <<"K", "/", "2">>, 512>> >>

Board(name, settings) == [name |-> <<name>>, settings |-> settings]
Hub == Board("HUB", <<Clock, Mode, Baud>> \o Pins \o To("hub", "hub"))
C3  == Board("C3", <<Clock, Mode, Baud>> \o Pins \o To("flash", "hub") \o <<Flash, Ram2>> \o Cache)
RamBoard == Board("RAM", <<Mode>> \o To("ram", "flash") \o <<Flash, Ram2, Flash>>)
Twice == Board("HUB", <<Mode, <<"rxpin", <<"300">>, 300>>, <<"rxpin", <<"300", "/", "2", "%", "31", "|", "1", "&", "31">>, 27>> >>
                       \o To("hub", "flash") \o <<Flash>>)
Odd   == Board("HUB", << <<"txpin", <<"XTAL9">>, UNDEFINED>>, <<"rxpin", <<"+", "1">>, UNDEFINED>>,
                         <<"tvpin", <<"XTAL9", "31">>, UNDEFINED>> >> \o To("hub", "hub"))
NoText == Board("HUB", <<Clock, <<"data", <<"hub">>, 0>> >>)
NoData == Board("HUB", <<Clock>> \o To("hub", "ram"))

(* The text of a description, laid out in one way or another. *)
Compact(b) == <<"[">> \o b.name \o <<"]", "nl">> \o
  FlattenSeq([i \in 1..Len(b.settings) |-> <<b.settings[i][1], ":">> \o b.settings[i][2] \o <<"nl">>])
Airy(b) == <<"#", "HUB", ":", "nl", "sp", "[", "sp">> \o b.name \o <<"sp", "]", "sp", "#", "]", "nl", "nl">> \o
  FlattenSeq([i \in 1..Len(b.settings) |->
    <<"sp", b.settings[i][1], "sp", ":", "sp">> \o b.settings[i][2] \o <<"sp", "#", "HUB", "nl", "sp", "nl">>])
Text(bs, layout) == FlattenSeq([i \in 1..Len(bs) |-> IF layout = "compact" THEN Compact(bs[i]) ELSE Airy(bs[i])])

Broken == {<<"rxpin", ":", "1", "nl">>, <<"[", "HUB", "nl">>, <<"[", "]", "nl">>, <<"[", "HUB", "]", "1", "nl">>}
          \cup {<<"[", "HUB", "]", "nl">> \o l : l \in
                 {<<"HUB", ":", "1", "nl">>, <<"rxpin", "nl">>, <<"rxpin", ":", "nl">>, <<"rxpin", ":", "1">>,
                  <<"rxpin", ":", "1", "sp", "+", "1", "nl">>, <<"rxpin", ":", "1", "#", "nl">>,
                  <<"#">> \o [i \in 1..24 |-> "HUB"] \o <<"nl">>}}

Blocks == <<[to |-> "text", words |-> <<11, 12>>], [to |-> "data", words |-> <<21>>], [to |-> "data", words |-> <<>>],
            [to |-> "text", words |-> <<13>>], [to |-> "data", words |-> <<22, 23>>],
            [to |-> "fixup", at |-> 3, value |-> 31], [to |-> "fixup", at |-> 1, value |-> 32]>>
Placed == SubSeq(Blocks, 1, 5) \o <<[to |-> "flash", words |-> <<24>>], [to |-> "text", words |-> <<14>>]>> \o SubSeq(Blocks, 6, 7)
Small == SubSeq(Blocks, 1, 2)

Task(command, option, bs, layout, board, prog, dev) ==
  [command |-> command, option |-> option, boards |-> bs, layout |-> layout, file |-> Text(bs, layout), board |-> <<board>>,
   program |-> prog, device |-> dev, driver_file |-> TRUE, image |-> <<IMAGE_TAG, IMAGE_VERSION, 0, 0, 1, 3, 0, 9, 11>>]

Parsing ==
  {Task("xbcom", "none", bs, l, n_, prog, "silent") : prog \in {Blocks, Placed},
     bs \in {<<Hub, C3>>, <<C3, RamBoard>>, <<RamBoard, Twice>>, <<Twice, Hub>>, <<Odd>>, <<NoText>>, <<NoData, C3>>, <<>>},
     l \in {"compact", "airy"}, n_ \in {"HUB", "C3", "RAM"}}
  \cup {[Task("xbcom", "none", <<>>, "compact", "HUB", Small, "silent") EXCEPT !.file = f] : f \in Broken}
Devices == {"propeller", "silent", "echo"}
Booting ==
  {Task("xbcom", o, <<Hub, C3>>, "compact", n_, Small, d) : o \in {"run", "eeprom"}, n_ \in {"HUB", "C3"}, d \in Devices}
  \cup {Task("xload", "run", <<Hub>>, "compact", "HUB", Small, "propeller"),
        [Task("xload", "run", <<Hub>>, "compact", "HUB", Small, "propeller") EXCEPT !.image = <<1>>],
        [Task("xbcom", "eeprom", <<C3>>, "compact", "C3", Small, "propeller") EXCEPT !.driver_file = FALSE],
        Task("xbcom", "eeprom", <<Hub>>, "compact", "HUB", Blocks, "propeller")}
  \cup {Task("ide", "none", <<>>, "compact", "HUB", Small, d) : d \in Devices}

Plain == Board("TWO", <<Clock, Mode>> \o To("hub", "hub") \o << <<"cache-size", <<"4">>, 4>> >>)
Editing == {Task("edit", "none", bs, l, "C3", Small, "silent") :
              bs \in {<<Hub, C3, Plain>>, <<Hub, Board("RAM", <<>>), C3>>, <<>>}, l \in {"compact", "airy"}}
MCSuffixed == {"8K", "1M"}
MCEntries == {<<"clkfreq", <<"80000000">>, 80000000>>, <<"rxpin", <<"31">>, 31>>, <<"txpin", <<"30">>, 30>>, <<"tvpin", <<"12">>, 12>>,
              <<"clkmode", <<"RCFAST">>, 0>>, <<"baudrate", <<"9600">>, 9600>>, <<"text", <<"hub">>, 0>>, <<"data", <<"hub">>, 0>>,
              <<"text", <<"flash">>, 0>>, <<"cache-size", <<>>, 0>>, <<"cache-size", <<"8K">>, 8192>>, <<"ram-size", <<>>, 0>>,
              <<"flash-size", <<>>, 0>>, <<"flash-size", <<"1M">>, 1048576>>}
MCNewNames == {<<"NEW">>, <<"C3">>}
MCTasks == Parsing \cup Booting \cup Editing

helper == <<1, 2, 3, 4>>
loader == <<5, 6, 7, 8>>
=============================================================================
