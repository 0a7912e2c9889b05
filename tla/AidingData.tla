----------------------------- MODULE AidingData -----------------------------
(***************************************************************************)
(* LocApiV02::deleteAidingData: the flags of the adapter become a request  *)
(* to the location service, which names satellites one by one in two       *)
(* arrays.  GPS and GLONASS share the first array.  A set of flags, or of  *)
(* mask bits, is a set of their names without GPS_DELETE_ and              *)
(* QMI_LOC_MASK_DELETE_.                                                   *)
(***************************************************************************)
EXTENDS Integers

CONSTANTS
  SV_ID_RANGE,       \* GPS satellites, and GLONASS satellites
  BDS_SV_ID_RANGE    \* BeiDou satellites

GPS_SV_ID_OFFSET == 1
GLONASS_SV_ID_OFFSET == 65
BDS_SV_ID_OFFSET == 201

\* The bit of the mask of GNSS data that a flag sets.
GnssData ==
  [POSITION         |-> "POSITION",    TIME         |-> "TIME",
   IONO             |-> "IONO",        UTC          |-> "UTC",
   HEALTH           |-> "HEALTH",      SVDIR        |-> "GPS_SVDIR",
   SADATA           |-> "SADATA",      RTI          |-> "RTI",
   TIME_GPS         |-> "GPS_TIME",    ALMANAC_CORR |-> "GPS_ALM_CORR",
   FREQ_BIAS_EST    |-> "FREQ_BIAS_EST",
   GLO_SVDIR        |-> "GLO_SVDIR",   GLO_SVSTEER  |-> "GLO_SVSTEER",
   GLO_ALMANAC_CORR |-> "GLO_ALM_CORR", GLO_TIME    |-> "GLO_TIME",
   BDS_SVDIR        |-> "BDS_SVDIR",   BDS_SVSTEER  |-> "BDS_SVSTEER",
   BDS_ALMANAC_CORR |-> "BDS_ALM_CORR", BDS_TIME    |-> "BDS_TIME"]

CellDb ==
  {"CELLDB_POS", "CELLDB_LATEST_GPS_POS", "CELLDB_OTA_POS",
   "CELLDB_EXT_REF_POS", "CELLDB_TIMETAG", "CELLDB_CELLID",
   "CELLDB_CACHED_CELLID", "CELLDB_LAST_SRV_CELL", "CELLDB_CUR_SRV_CELL",
   "CELLDB_NEIGHBOR_INFO"}

Flags ==
  DOMAIN GnssData \cup {"CELLDB_INFO"} \cup
  {"EPHEMERIS", "ALMANAC", "GLO_EPHEMERIS", "GLO_ALMANAC", "BDS_EPHEMERIS",
   "BDS_ALMANAC"}

\* The flags are bits of a word; the code looks at all but some of them.
Bits == Flags \cup {"OTHER"}

GPS_DELETE_ALL == Bits

ASSUME AidingAssumption ==
  SV_ID_RANGE \in 0 .. 32 /\ BDS_SV_ID_RANGE \in 0 .. 37

-----------------------------------------------------------------------------
(* The request: a list or a mask that is not valid is empty *)

Chosen(f, ephemeris, almanac) ==
  {d \in {"EPHEMERIS", "ALMANAC"} :
     IF d = "EPHEMERIS" THEN ephemeris \in f ELSE almanac \in f}

GpsMask(f) == Chosen(f, "EPHEMERIS", "ALMANAC")
GloMask(f) == Chosen(f, "GLO_EPHEMERIS", "GLO_ALMANAC")
BdsMask(f) == Chosen(f, "BDS_EPHEMERIS", "BDS_ALMANAC")

\* curr_sv_len, and curr_sv_idx, after the block for GPS and after both blocks.
GpsLen(f) == IF GpsMask(f) # {} THEN SV_ID_RANGE ELSE 0
SvLen(f) == GpsLen(f) + IF GloMask(f) # {} THEN SV_ID_RANGE ELSE 0

\* sv_id goes on from where the block for GPS left it.
GloId_GoesOn(f, i) == GPS_SV_ID_OFFSET + i

\* The id written to entry i of the array by the block for GLONASS.
GloId(f, i) == GLONASS_SV_ID_OFFSET + (i - GpsLen(f))

\* deleteSvInfoList, from 0.
SvInfoList(f) ==
  [i \in 0 .. SvLen(f) - 1 |->
     IF i < GpsLen(f)
     THEN [system |-> "GPS", id |-> GPS_SV_ID_OFFSET + i, mask |-> GpsMask(f)]
     ELSE [system |-> "GLONASS", id |-> GloId(f, i), mask |-> GloMask(f)]]

BdsSvInfoList(f) ==
  [i \in 0 .. (IF BdsMask(f) # {} THEN BDS_SV_ID_RANGE ELSE 0) - 1 |->
     [system |-> "BDS", id |-> BDS_SV_ID_OFFSET + i, mask |-> BdsMask(f)]]

DeleteRequest(f) ==
  IF f = GPS_DELETE_ALL
  THEN [deleteAllFlag |-> TRUE]
  ELSE [deleteAllFlag       |-> FALSE,
        deleteSvInfoList    |-> SvInfoList(f),
        deleteBdsSvInfoList |-> BdsSvInfoList(f),
        deleteGnssDataMask  |-> {GnssData[d] : d \in f \cap DOMAIN GnssData},
        deleteCellDbDataMask |-> IF "CELLDB_INFO" \in f THEN CellDb ELSE {}]

-----------------------------------------------------------------------------
(* What the service deletes, and what was asked for *)

SvData(list) ==
  UNION {{<<list[i].system, list[i].id, d>> : d \in list[i].mask} :
           i \in DOMAIN list}

Everything == [all |-> TRUE, svs |-> {}, gnss |-> {}, cells |-> {}]

\* What the service deletes.
Deleted(req) ==
  IF req.deleteAllFlag
  THEN Everything
  ELSE [all   |-> FALSE,
        svs   |-> SvData(req.deleteSvInfoList) \cup SvData(req.deleteBdsSvInfoList),
        gnss  |-> req.deleteGnssDataMask,
        cells |-> req.deleteCellDbDataMask]

Data == {"EPHEMERIS", "ALMANAC"}

SvItems ==
  ({"GPS"} \X (1 .. SV_ID_RANGE) \X Data)
    \cup ({"GLONASS"} \X (65 .. 64 + SV_ID_RANGE) \X Data)
    \cup ({"BDS"} \X (201 .. 200 + BDS_SV_ID_RANGE) \X Data)

\* The flag that asks for the ephemeris or the almanac of a system.
FlagOf(system, data) ==
  CASE system = "GPS"     -> data
    [] system = "GLONASS" ->
         IF data = "EPHEMERIS" THEN "GLO_EPHEMERIS" ELSE "GLO_ALMANAC"
    [] system = "BDS"     ->
         IF data = "EPHEMERIS" THEN "BDS_EPHEMERIS" ELSE "BDS_ALMANAC"

\* What flags f ask for: the chosen data of every satellite of the system.
AskedFor(f) ==
  IF f = GPS_DELETE_ALL
  THEN Everything
  ELSE [all   |-> FALSE,
        svs   |-> {item \in SvItems : FlagOf(item[1], item[3]) \in f},
        gnss  |-> {GnssData[d] : d \in f \cap DOMAIN GnssData},
        cells |-> IF "CELLDB_INFO" \in f THEN CellDb ELSE {}]
=============================================================================
