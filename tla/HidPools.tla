------------------------------ MODULE HidPools ------------------------------
(***************************************************************************)
(* The three static pools of report_descriptor_parser.c: devices,          *)
(* collections and report members, linked into lists by index (0 is NULL). *)
(* Core 1 parses the report descriptor of an interface when TinyUSB mounts *)
(* it, item by item; nothing is given back when the interface is           *)
(* unmounted, only when the same interface number is mounted again.        *)
(* Core 0 walks the same lists to parse a report (report_parser.c), without *)
(* a lock; each step of either core is an action.                          *)
(*                                                                         *)
(* A descriptor is what the device declares, one record per top-level      *)
(* collection: its report id (0: none), the fields of each Input item, and *)
(* whether the Input items are in a nested collection.  "cut" marks a      *)
(* descriptor in which an item with four data bytes, which get_next_item   *)
(* refuses, follows the Input items of its last collection.                *)
(***************************************************************************)
EXTENDS Integers, Sequences, SequencesExt, FiniteSets, FiniteSetsExt

CONSTANTS
  Instances,       \* TinyUSB interface (instance) numbers
  DeviceCount,     \* HID_DEVICE_COUNT
  CollectionCount, \* HID_ID_COLLECTION_COUNT
  MemberCount,     \* HID_REPORT_MEMBER_COUNT
  Descriptors,     \* the descriptors devices may have
  Fields,          \* what a report member describes: its usage, size and range
  NoField,         \* of a member that is not in use
  NoDescriptor     \* an interface that is not mounted

ASSUME PoolAssumption ==
  /\ Instances \subseteq Nat
  /\ {DeviceCount, CollectionCount, MemberCount} \subseteq Nat \ {0}
  /\ NoDescriptor \notin Descriptors /\ NoField \notin Fields

VARIABLES
  devices,      \* hid_device_collection
  collections,  \* hid_id_collections
  members,      \* hid_report_definitions
  parse,        \* the local variables of parse_report_descriptor
  mounted,      \* the descriptor of the device that last mounted an interface
  spoiled,      \* history: what the pools hold is not only what devices declared
  reader        \* the local variables of parse_report, on core 0

pools == <<devices, collections, members>>
core1 == <<parse, mounted, spoiled>>
vars == <<pools, core1, reader>>

NULL == 0
Devices == 1..DeviceCount
Collections == 1..CollectionCount
Members == 1..MemberCount

NoDevice == [interface |-> 0, id_collection |-> NULL]
NoCollection == [id |-> 0, report_def_start |-> NULL, next |-> NULL]
NoMember == [used |-> FALSE, field |-> NoField, next |-> NULL]
Idle == [pc |-> "idle", interface |-> 0, slot |-> NULL, items |-> <<>>, level |-> 0,
         current_collection |-> NULL, current_member |-> NULL,
         base |-> NULL, collection |-> NULL]

\* fields: those read so far.  History: declared, those the device has in a
\* report with this id; torn, the interface was mounted anew meanwhile, or an
\* empty slot was found for its own: what is then read is open, and not recorded.
NotReading == [pc |-> "idle", interface |-> 0, id |-> 0, at |-> NULL,
               fields |-> <<>>, declared |-> <<>>, torn |-> FALSE]

-----------------------------------------------------------------------------
(* Lists and free entries.                                                  *)

\* The entries k links after the entry from, NULL past the end.
Walk(pool, from) ==
  LET at[k \in {NULL} \cup DOMAIN pool] ==
        IF k = 0 THEN from
        ELSE IF at[k - 1] = NULL THEN NULL
        ELSE pool[at[k - 1]].next
  IN at

\* The entries of the list that starts at from.
Entries(pool, from) ==
  LET at == Walk(pool, from) IN {at[k] : k \in {NULL} \cup DOMAIN pool} \ {NULL}

Ends(pool, from) == \E k \in {NULL} \cup DOMAIN pool : Walk(pool, from)[k] = NULL

\* Where a loop that follows the links of a list stops.
TailOf(pool, from) == CHOOSE e \in Entries(pool, from) : pool[e].next = NULL

FirstOrNull(S) == IF S = {} THEN NULL ELSE Min(S)

\* A plausible mistake: a full pool answers with the entry after its last.
FindBeyond ==
  LET free == {c \in Collections : collections[c].report_def_start = NULL}
  IN IF free = {} THEN CollectionCount + 1 ELSE Min(free)

FindEmptyIdIdxBegin ==
  FirstOrNull({c \in Collections : collections[c].report_def_start = NULL})

FindEmptyReportDef == FirstOrNull({m \in Members : ~members[m].used})

\* The slot get_hid_device_def returns, NULL if none carries the number.
GetHidDeviceDef(i) == FirstOrNull({s \in Devices : devices[s].interface = i})

-----------------------------------------------------------------------------
(* What a device declares, and the items it sends for it.                   *)

ItemsOf(c) ==
  LET inputs == [k \in 1..Len(c.inputs) |-> [tag |-> "Input", fields |-> c.inputs[k]]]
  IN <<[tag |-> "Collection"]>>
     \o (IF c.id = 0 THEN <<>> ELSE <<[tag |-> "ReportId", id |-> c.id]>>)
     \o (IF c.nested
         THEN <<[tag |-> "Collection"]>> \o inputs \o <<[tag |-> "EndCollection"]>>
         ELSE inputs)

Items(d) ==
  FlattenSeq([k \in 1..Len(d.collections) |->
                ItemsOf(d.collections[k])
                \o (IF d.cut /\ k = Len(d.collections)
                    THEN <<[tag |-> "LongItem"]>>
                    ELSE <<[tag |-> "EndCollection"]>>)])
\* The layout of a descriptor the parser can read, its pools permitting: the
\* collections that have Input items, those without a report id joined in one.
Declared(d) ==
  LET AllOf(c) == FlattenSeq(c.inputs)
      layout == SelectSeq([k \in 1..Len(d.collections) |->
                             [id |-> d.collections[k].id, fields |-> AllOf(d.collections[k])]],
                          LAMBDA c : c.fields # <<>>)
  IN IF layout # <<>> /\ \A k \in DOMAIN layout : layout[k].id = 0
     THEN <<[id |-> 0, fields |-> FlattenSeq([k \in DOMAIN layout |-> layout[k].fields])]>>
     ELSE layout

ItemType ==
  [tag : {"Collection", "EndCollection", "LongItem"}]
  \cup [tag : {"ReportId"}, id : Nat]
  \cup [tag : {"Input"}, fields : Seq(Fields) \ {<<>>}]

\* How deep the items are nested before each: f[i] after i of them.
Depth(items) ==
  LET Tagged(i, tag) == Cardinality({j \in 1..i : items[j].tag = tag})
  IN [i \in 0..Len(items) |-> Tagged(i, "Collection") - Tagged(i, "EndCollection")]

\* The items end the collections they begin, level of them begun before, and declare
\* fields inside of a collection.
Nesting(items, level, f) ==
  /\ f \in [0..Len(items) -> Nat] /\ f[0] = level /\ f[Len(items)] = 0
  /\ \A i \in 1..Len(items) :
       /\ f[i] = CASE items[i].tag = "Collection" -> f[i - 1] + 1
                   [] items[i].tag = "EndCollection" -> f[i - 1] - 1
                   [] OTHER -> f[i - 1]
       /\ items[i].tag = "Input" => f[i - 1] > 0
       /\ items[i].tag # "LongItem"

ASSUME DescriptorAssumption ==
  \A d \in Descriptors :
     /\ Items(d) \in Seq(ItemType) /\ d.cut \in BOOLEAN
     /\ Declared(d) \in Seq([id : Nat, fields : Seq(Fields)])
     /\ ~d.cut => Nesting(Items(d), 0, Depth(Items(d)))

-----------------------------------------------------------------------------
Init ==
  /\ devices = [s \in Devices |-> NoDevice]
  /\ collections = [c \in Collections |-> NoCollection]
  /\ members = [m \in Members |-> NoMember]
  /\ parse = Idle
  /\ mounted = [i \in Instances |-> NoDescriptor]
  /\ spoiled = FALSE
  /\ reader = NotReading

(* tuh_hid_mount_cb: parse_report_descriptor deletes what the interface     *)
(* number had before and takes a device slot.  TinyUSB numbers the HID      *)
(* interfaces of each device from 0 and mounts them in that order; behind a *)
(* hub several devices use the same numbers.                                *)

\* The slots delete_hid_device clears: it returns at the first slot with the
\* interface number and no collection.
DeletedSlots(i) ==
  {s \in Devices : /\ devices[s].interface = i
                   /\ \A t \in 1..s : devices[t].interface = i => devices[t].id_collection # NULL}

\* A plausible mistake: deleting a collection frees its first member only.
delete_first_member(i) ==
  LET cs == UNION {Entries(collections, devices[s].id_collection) : s \in DeletedSlots(i)}
      ms == {collections[c].report_def_start : c \in cs}
  IN /\ collections' = [c \in Collections |-> IF c \in cs THEN NoCollection ELSE collections[c]]
     /\ members' = [m \in Members |-> IF m \in ms THEN NoMember ELSE members[m]]

delete_hid_device(i) ==
  LET cs == UNION {Entries(collections, devices[s].id_collection) : s \in DeletedSlots(i)}
      ms == UNION {Entries(members, collections[c].report_def_start) : c \in cs}
  IN /\ collections' = [c \in Collections |-> IF c \in cs THEN NoCollection ELSE collections[c]]
     /\ members' = [m \in Members |-> IF m \in ms THEN NoMember ELSE members[m]]

FindEmptyDevice == FirstOrNull({s \in Devices : devices[s].id_collection = NULL})

Reading == reader.pc # "idle"
Torn == [reader EXCEPT !.torn = TRUE, !.fields = <<>>, !.declared = <<>>]

tuh_hid_mount_cb(i, d) ==
  /\ parse.pc = "idle"
  /\ i - 1 \in Instances => mounted[i - 1] # NoDescriptor
  /\ delete_hid_device(i)
  /\ devices' = [s \in Devices |-> IF s \in DeletedSlots(i) THEN NoDevice ELSE devices[s]]
  /\ parse' = [Idle EXCEPT !.pc = "take", !.interface = i, !.items = Items(d)]
  /\ mounted' = [mounted EXCEPT ![i] = d]
  /\ spoiled' = (spoiled \/ d.cut)
  /\ reader' = IF Reading /\ reader.interface = i THEN Torn ELSE reader

\* ... and takes a slot; without one there is no parse.
TakeSlot ==
  /\ parse.pc = "take"
  /\ LET s == FindEmptyDevice
     IN IF s = NULL
        THEN parse' = Idle /\ UNCHANGED devices
        ELSE /\ devices' = [devices EXCEPT ![s] = [interface |-> parse.interface,
                                                  id_collection |-> NULL]]
             /\ parse' = [parse EXCEPT !.pc = "parse", !.slot = s]
  /\ spoiled' = (spoiled \/ FindEmptyDevice = NULL)
  /\ UNCHANGED <<collections, members, mounted, reader>>

\* tuh_hid_umount_cb leaves the pools alone.  A device leaves with all its
\* interfaces, here the last one first.
tuh_hid_umount_cb(i) ==
  /\ parse.pc = "idle" /\ mounted[i] # NoDescriptor
  /\ i + 1 \in Instances => mounted[i + 1] = NoDescriptor
  /\ mounted' = [mounted EXCEPT ![i] = NoDescriptor]
  /\ UNCHANGED <<pools, parse, spoiled, reader>>

-----------------------------------------------------------------------------
(* The loop of parse_report_descriptor, an action per kind of item.         *)

NextIs(tag) == parse.pc = "parse" /\ parse.items # <<>> /\ Head(parse.items).tag = tag
Item == Head(parse.items)
Rest == [parse EXCEPT !.items = Tail(@)]

\* A full collection pool leaves the level alone.
Collection ==
  /\ NextIs("Collection")
  /\ IF parse.level # 0
     THEN parse' = [Rest EXCEPT !.level = @ + 1]
     ELSE parse' = [Rest EXCEPT !.current_collection = FindEmptyIdIdxBegin,
                                !.level = IF FindEmptyIdIdxBegin = NULL THEN 0 ELSE 1,
                                !.current_member = IF FindEmptyIdIdxBegin = NULL THEN @ ELSE NULL]
  /\ spoiled' = (spoiled \/ (parse.level = 0 /\ FindEmptyIdIdxBegin = NULL))
  /\ UNCHANGED <<pools, mounted, reader>>

\* Only a collection that got a member is attached to the device.
Attach(c) ==
  LET first == devices[parse.slot].id_collection
  IN IF first = NULL
     THEN /\ devices' = [devices EXCEPT ![parse.slot].id_collection = c]
          /\ UNCHANGED collections
     ELSE /\ collections' = [collections EXCEPT ![TailOf(collections, first)].next = c]
          /\ UNCHANGED devices

\* A plausible mistake: current_collection outlives its EndCollection.
EndCollectionKeeps ==
  /\ NextIs("EndCollection")
  /\ LET c == parse.current_collection
     IN IF parse.level = 1 /\ c # NULL /\ collections[c].report_def_start # NULL
        THEN Attach(c) /\ UNCHANGED spoiled
        ELSE /\ spoiled' = (spoiled \/ (parse.level = 1 /\ c # NULL /\ collections[c].id # 0))
             /\ UNCHANGED <<devices, collections>>
  /\ parse' = IF parse.level = 1
              THEN [Rest EXCEPT !.level = 0]
              ELSE [Rest EXCEPT !.level = @ - 1]
  /\ UNCHANGED <<members, mounted, reader>>

EndCollection ==
  /\ NextIs("EndCollection")
  /\ LET c == parse.current_collection
     IN IF parse.level = 1 /\ c # NULL /\ collections[c].report_def_start # NULL
        THEN Attach(c) /\ UNCHANGED spoiled
        ELSE /\ spoiled' = (spoiled \/ (parse.level = 1 /\ c # NULL /\ collections[c].id # 0))
             /\ UNCHANGED <<devices, collections>>
  /\ parse' = IF parse.level = 1
              THEN [Rest EXCEPT !.level = 0, !.current_collection = NULL, !.current_member = NULL]
              ELSE [Rest EXCEPT !.level = @ - 1]
  /\ UNCHANGED <<members, mounted, reader>>

ReportId ==
  /\ NextIs("ReportId")
  /\ collections' = IF parse.current_collection = NULL THEN collections
                    ELSE [collections EXCEPT ![parse.current_collection].id = Item.id]
  /\ parse' = Rest
  /\ UNCHANGED <<devices, members, mounted, spoiled, reader>>

\* A member for the first of the fields that are left of an Input item, until the pool
\* is full: the rest of the item gets none.
Input ==
  /\ NextIs("Input")
  /\ LET new == FindEmptyReportDef
         filled == [members EXCEPT ![new] = [used |-> TRUE, field |-> Head(Item.fields),
                                             next |-> NULL]]
         c == parse.current_collection
         m == parse.current_member
         left == Tail(Item.fields)
     IN IF new = NULL
        THEN parse' = Rest /\ UNCHANGED <<members, collections>>
        ELSE /\ members' = IF m = NULL THEN filled ELSE [filled EXCEPT ![m].next = new]
             /\ collections' = IF m = NULL /\ c # NULL /\ collections[c].report_def_start = NULL
                               THEN [collections EXCEPT ![c].report_def_start = new]
                               ELSE collections
             /\ parse' = [Rest EXCEPT
                            !.items = IF left = <<>> THEN @
                                      ELSE <<[tag |-> "Input", fields |-> left]>> \o @,
                            !.current_member = new]
  /\ spoiled' = (spoiled \/ FindEmptyReportDef = NULL)
  /\ UNCHANGED <<devices, mounted, reader>>

-----------------------------------------------------------------------------
(* The end of the items, or one get_next_item refuses: the collections of   *)
(* the device that have no report id join the one before them, a step for   *)
(* each.  The code gives up at a base without members, which is never       *)
(* attached (ListsSeparate).                                                *)

ItemsEnd ==
  /\ parse.pc = "parse"
  /\ parse.items = <<>> \/ NextIs("LongItem")
  /\ LET first == devices[parse.slot].id_collection
     IN parse' = IF first = NULL THEN Idle
                 ELSE [Idle EXCEPT !.pc = "compress", !.interface = parse.interface,
                                   !.base = first, !.collection = collections[first].next]
  /\ UNCHANGED <<pools, mounted, spoiled, reader>>

Join ==
  /\ parse.pc = "compress" /\ parse.collection # NULL
  /\ collections[parse.collection].id = 0
  /\ LET c == collections[parse.collection]
         tail == TailOf(members, collections[parse.base].report_def_start)
     IN /\ members' = [members EXCEPT ![tail].next = c.report_def_start]
        /\ collections' = [collections EXCEPT ![parse.base].next = c.next,
                                              ![parse.collection] = NoCollection]
        /\ parse' = [parse EXCEPT !.collection = c.next]
  /\ UNCHANGED <<devices, mounted, spoiled, reader>>

NextBase ==
  /\ parse.pc = "compress" /\ parse.collection # NULL
  /\ collections[parse.collection].id # 0
  /\ parse' = [parse EXCEPT !.base = parse.collection, !.collection = collections[@].next]
  /\ UNCHANGED <<pools, mounted, spoiled, reader>>

Defined ==
  /\ parse.pc = "compress" /\ parse.collection = NULL
  /\ parse' = Idle
  /\ UNCHANGED <<pools, mounted, spoiled, reader>>

-----------------------------------------------------------------------------
(* parse_report on core 0, for a report that is in the buffer: its device   *)
(* is asked for reports once its descriptor is parsed.  A step for each     *)
(* entry whose link is followed.                                            *)

\* Some slot with the number has collections: not the one found, if that is empty.
HasCollections(i) ==
  \E s \in Devices : devices[s].interface = i /\ devices[s].id_collection # NULL

\* A plausible mistake: tuh_hid_mount_cb asks for reports before it parses the descriptor.
EagerReport(i) ==
  /\ ~Reading
  /\ mounted[i] # NoDescriptor
  /\ LET s == GetHidDeviceDef(i)
         first == IF s = NULL THEN NULL ELSE devices[s].id_collection
         empty == i = 0 /\ first = NULL /\ HasCollections(i)
     IN \E c \in ToSet(Declared(mounted[i])) :
          reader' = [pc |-> "first", interface |-> i, id |-> c.id, at |-> first,
                     fields |-> <<>>, declared |-> IF empty THEN <<>> ELSE c.fields,
                     torn |-> empty]
  /\ UNCHANGED <<pools, core1>>

\* A cleared slot has number 0, as long as nothing takes it: a lookup of interface 0
\* may find it before the slot of the device, and read a collection at address 0.
parse_report(i) ==
  /\ ~Reading
  /\ mounted[i] # NoDescriptor /\ (parse.pc = "idle" \/ parse.interface # i)
  /\ LET s == GetHidDeviceDef(i)
         first == IF s = NULL THEN NULL ELSE devices[s].id_collection
         empty == i = 0 /\ first = NULL /\ HasCollections(i)
     IN \E c \in ToSet(Declared(mounted[i])) :
          reader' = [pc |-> "first", interface |-> i, id |-> c.id, at |-> first,
                     fields |-> <<>>, declared |-> IF empty THEN <<>> ELSE c.fields,
                     torn |-> empty]
  /\ UNCHANGED <<pools, core1>>

\* A device whose first collection has no id sends reports without one.
MatchCollection ==
  /\ reader.pc \in {"first", "search"} /\ reader.at # NULL
  /\ LET c == collections[reader.at]
     IN reader' = IF c.id = reader.id \/ (reader.pc = "first" /\ c.id = 0)
                  THEN [reader EXCEPT !.pc = "members", !.at = c.report_def_start]
                  ELSE [reader EXCEPT !.pc = "search", !.at = c.next]
  /\ UNCHANGED <<pools, core1>>

ReadMember ==
  /\ reader.pc = "members" /\ reader.at # NULL
  /\ LET m == members[reader.at]
     IN reader' = [reader EXCEPT !.at = m.next,
                                 !.fields = IF reader.torn THEN @ ELSE Append(@, m.field)]
  /\ UNCHANGED <<pools, core1>>

\* The end of a list, reached or found in place of one.
Return ==
  /\ Reading /\ reader.at = NULL
  /\ reader' = NotReading
  /\ UNCHANGED <<pools, core1>>

Next ==
  \/ \E i \in Instances : \/ \E d \in Descriptors : tuh_hid_mount_cb(i, d)
                          \/ tuh_hid_umount_cb(i)
                          \/ parse_report(i)
  \/ TakeSlot \/ MatchCollection \/ ReadMember \/ Return
  \/ Collection \/ EndCollection \/ ReportId \/ Input
  \/ ItemsEnd \/ Join \/ NextBase \/ Defined

Spec == Init /\ [][Next]_vars
-----------------------------------------------------------------------------
(* Properties.                                                              *)

\* Every index is in its pool or NULL, and a parse has its slot, base and level.
TypeOK ==
  /\ devices \in [Devices -> [interface : Instances \cup {0},
                              id_collection : Collections \cup {NULL}]]
  /\ collections \in [Collections -> [id : Nat, report_def_start : Members \cup {NULL},
                                      next : Collections \cup {NULL}]]
  /\ members \in [Members -> [used : BOOLEAN, field : Fields \cup {NoField},
                              next : Members \cup {NULL}]]
  /\ parse \in [pc : {"idle", "take", "parse", "compress"}, interface : Instances \cup {0},
                slot : IF parse.pc = "parse" THEN Devices ELSE {NULL},
                items : Seq(ItemType), level : Int,
                current_collection : Collections \cup {NULL},
                current_member : Members \cup {NULL},
                base : IF parse.pc = "compress" THEN Collections ELSE {NULL},
                collection : Collections \cup {NULL}]
  /\ mounted \in [Instances -> Descriptors \cup {NoDescriptor}] /\ spoiled \in BOOLEAN
  /\ reader \in [pc : {"idle", "first", "search", "members"}, interface : Instances \cup {0},
                 id : Nat, torn : BOOLEAN,
                 fields : Seq(Fields \cup {NoField}), declared : Seq(Fields),
                 at : (IF reader.pc = "members" THEN Members ELSE Collections) \cup {NULL}]

\* The collections that are on a device's list, and the members on theirs.
Attached(s) == Entries(collections, devices[s].id_collection)
MembersOf(c) == Entries(members, collections[c].report_def_start)

\* No list of report_descriptor_parser.c runs in a circle, on whose end
\* delete_hid_device, the compression and the report parsers all wait, and no
\* entry is on two lists, so deleting one interface takes nothing from
\* another.  What is on a list is not free for the taking.
ListsSeparate ==
  /\ \A s \in Devices : Ends(collections, devices[s].id_collection)
  /\ \A c \in Collections : Ends(members, collections[c].report_def_start)
  /\ \A s, t \in Devices : s # t => Attached(s) \cap Attached(t) = {}
  /\ \A c, e \in Collections : c # e => MembersOf(c) \cap MembersOf(e) = {}
  /\ \A s \in Devices : \A c \in Attached(s) : /\ MembersOf(c) # {}
                                               /\ c # parse.current_collection
  /\ \A c \in Collections : \A m \in MembersOf(c) : members[m].used

\* Between parses every collection and member in use belongs to a device: what
\* re-mounting an interface must give back, it can still reach.
NoLeak ==
  parse.pc = "idle" /\ ~spoiled =>
    LET live == UNION {Attached(s) : s \in Devices}
    IN /\ \A c \in Collections : collections[c].report_def_start # NULL => c \in live
       /\ \A m \in Members : members[m].used => \E c \in live : m \in MembersOf(c)

\* Every report is parsed with the fields its device declared for it, whatever
\* was plugged and unplugged before (matrix.c:169, "independent of what was
\* connected before") and while core 1 gives back, takes and links entries for
\* another interface between any two steps of the walk; unless the pools are
\* spoiled or the walk is torn.
ReadsDeclared ==
  [][Reading /\ ~Reading' /\ ~reader.torn /\ ~spoiled => reader.fields = reader.declared]_vars
=============================================================================
