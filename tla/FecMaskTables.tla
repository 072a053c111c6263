---------------------------- MODULE FecMaskTables ----------------------------
(***************************************************************************)
(* The packet masks of src/src/rtp_rtcp/fec_private_tables_random.cc and   *)
(* fec_private_tables_bursty.cc, for blocks of up to 12 media packets:     *)
(* kMask<Type><m>[n] has one row for each of the n FEC packets that        *)
(* protect m media packets.  A row is the two bytes the code has for it,   *)
(* and its most significant bit stands for the first media packet.         *)
(***************************************************************************)
EXTENDS Integers, Sequences

kMaskRandom1 == <<<<\h8000>>>>
kMaskRandom2 == <<<<\hc000>>, <<\hc000, \h8000>>>>
kMaskRandom3 == <<<<\he000>>, <<\hc000, \ha000>>, <<\hc000, \ha000, \h6000>>>>
kMaskRandom4 == <<<<\hf000>>, <<\hc000, \hb000>>, <<\hc000, \hb000, \h6000>>,
  <<\hc000, \ha000, \h3000, \h5000>>>>
kMaskRandom5 == <<<<\hf800>>, <<\ha800, \hd000>>, <<\hb000, \hc800, \h5000>>,
  <<\hc800, \hb000, \h5000, \h2800>>, <<\hc000, \h3000, \h1800, \ha000,
  \h4800>>>>
kMaskRandom6 == <<<<\hfc00>>, <<\ha800, \hd400>>, <<\hd000, \h6800, \ha400>>,
  <<\ha800, \h5800, \h6400, \h9400>>, <<\ha800, \h8400, \h6400, \h9000,
  \h5800>>, <<\h9800, \h6400, \h5000, \h1400, \ha800, \he000>>>>
kMaskRandom7 == <<<<\hfe00>>, <<\hd400, \haa00>>, <<\hd000, \haa00, \h6400>>,
  <<\hd000, \haa00, \h6400, \h1c00>>, <<\h0c00, \hb000, \h1a00, \hc400,
  \h6200>>, <<\h8c00, \h4a00, \h6400, \hd000, \ha000, \h3200>>, <<\h4a00,
  \h9400, \h1a00, \hc400, \h2800, \hc200, \h3400>>>>
kMaskRandom8 == <<<<\hff00>>, <<\haa00, \hd500>>, <<\hc500, \h9200, \h6a00>>,
  <<\h4500, \hb400, \h6a00, \h8900>>, <<\h8c00, \h9200, \h2b00, \h5100,
  \h6400>>, <<\ha100, \h5200, \h9100, \h2a00, \hc400, \h4c00>>, <<\h1500,
  \hc200, \h2500, \h6200, \h5800, \h8c00, \ha300>>, <<\h2500, \h8a00, \h9100,
  \h6800, \h3200, \h4300, \hc400, \h1c00>>>>
kMaskRandom9 == <<<<\hff80>>, <<\haa80, \hd500>>, <<\ha500, \hc800, \h5280>>,
  <<\ha200, \hc900, \h5280, \h2480>>, <<\h8c00, \h2500, \h9280, \h4180,
  \h5800>>, <<\h8480, \h2700, \h5180, \h1a00, \h6800, \h8900>>, <<\h8c00,
  \h4700, \h8180, \h1280, \h5800, \h2880, \hb400>>, <<\h2c00, \h9100, \h4080,
  \h0680, \hc800, \h4500, \h3080, \ha200>>, <<\h4c00, \h6200, \h9100, \h4280,
  \ha400, \h1300, \h3080, \h8880, \h0900>>>>
kMaskRandom10 == <<<<\hffc0>>, <<\haa80, \hd540>>, <<\ha440, \hc900,
  \h5280>>, <<\hca00, \h3280, \ha140, \h5500>>, <<\hca00, \h3280, \ha140,
  \h5500, \h08c0>>, <<\h0e00, \h3300, \h10c0, \h4540, \h8880, \he000>>,
  <<\h4600, \h3300, \h80c0, \h0c40, \h2880, \h9400, \hc100>>, <<\h2c00,
  \h8180, \ha040, \h0540, \h1880, \hc200, \h2280, \h5040>>, <<\h4c00, \h2300,
  \h88c0, \h2140, \h5280, \h9400, \h2600, \h4840, \h9180>>, <<\h4c00, \h5100,
  \ha040, \h04c0, \h0380, \h8600, \h2900, \h4240, \h9800, \h3080>>>>
kMaskRandom11 == <<<<\hffe0>>, <<\hecc0, \h9ba0>>, <<\hcac0, \hf140,
  \hb620>>, <<\hc4c0, \h3160, \h4b20, \h2ca0>>, <<\h8680, \h2320, \h1620,
  \h4c20, \h41c0>>, <<\h6440, \h5140, \h0ca0, \ha120, \h12a0, \h8a40>>,
  <<\h4640, \h3320, \h9180, \ha420, \h50a0, \h84c0, \h0960>>, <<\h0c80,
  \h8060, \ha080, \h0540, \h4300, \h1a00, \h6020, \h1420>>, <<\h4640, \h6260,
  \h8c00, \h0160, \h0780, \ha080, \h18a0, \h9100, \h7800>>, <<\h6440, \h5140,
  \ha900, \h04c0, \hd000, \h8240, \h2120, \h0c20, \h4a00, \h12a0>>, <<\h4640,
  \h3320, \h9900, \h0580, \h80a0, \h8440, \h4060, \h0a80, \h6800, \h1020,
  \h3040>>>>
kMaskRandom12 == <<<<\hfff0>>, <<\hecc0, \h93b0>>, <<\h9b80, \h4f10,
  \h3c60>>, <<\h8b20, \h14b0, \h22d0, \h4550>>, <<\h5360, \h6420, \h0cc0,
  \h82a0, \h0930>>, <<\h5140, \hc510, \h2180, \h1230, \h08e0, \h2e00>>,
  <<\h5360, \h2130, \h9090, \h0250, \h06a0, \h2c00, \h8860>>, <<\h2060,
  \h8030, \h4240, \h0190, \h1410, \h0a80, \h3800, \hc500>>, <<\h5360, \he420,
  \h2440, \ha110, \h1830, \h0390, \h8a10, \h0490, \h00e0>>, <<\h5140, \h4510,
  \h80d0, \h2420, \h0a20, \h00e0, \hb800, \h0910, \h5600, \ha280>>, <<\h5360,
  \h2130, \h1090, \h0070, \h0c10, \h40c0, \h6a00, \h8600, \h2480, \h8900,
  \hc020>>, <<\h1060, \h0230, \h4050, \h2180, \h8110, \h1480, \h9800, \h0890,
  \h6200, \h2420, \h8a00, \h8440>>>>

kPacketMaskRandomTbl == <<
  kMaskRandom1, kMaskRandom2, kMaskRandom3, kMaskRandom4,
  kMaskRandom5, kMaskRandom6, kMaskRandom7, kMaskRandom8,
  kMaskRandom9, kMaskRandom10, kMaskRandom11, kMaskRandom12>>

kMaskBursty1 == <<<<\h8000>>>>
kMaskBursty2 == <<<<\hc000>>, <<\h8000, \hc000>>>>
kMaskBursty3 == <<<<\he000>>, <<\hc000, \ha000>>, <<\h8000, \hc000, \h6000>>>>
kMaskBursty4 == <<<<\hf000>>, <<\ha000, \hd000>>, <<\hc000, \h6000, \h9000>>,
  <<\h8000, \hc000, \h6000, \h3000>>>>
kMaskBursty5 == <<<<\hf800>>, <<\hd000, \ha800>>, <<\h7000, \h9000, \hc800>>,
  <<\hc000, \h6000, \h3000, \h8800>>, <<\h8000, \hc000, \h6000, \h3000,
  \h1800>>>>
kMaskBursty6 == <<<<\hfc00>>, <<\ha800, \hd400>>, <<\h9400, \hc800, \h6400>>,
  <<\h6000, \h3800, \h8800, \hc400>>, <<\hc000, \h6000, \h3000, \h1800,
  \h8400>>, <<\h8000, \hc000, \h6000, \h3000, \h1800, \h0c00>>>>
kMaskBursty7 == <<<<\hfe00>>, <<\hd400, \haa00>>, <<\hc800, \h7400, \h9200>>,
  <<\h3800, \h8a00, \hc400, \h6200>>, <<\h6000, \h3000, \h1c00, \h8400,
  \hc200>>, <<\hc000, \h6000, \h3000, \h1800, \h0c00, \h8200>>, <<\h8000,
  \hc000, \h6000, \h3000, \h1800, \h0c00, \h0600>>>>
kMaskBursty8 == <<<<\hff00>>, <<\haa00, \hd500>>, <<\h7400, \h9200, \hc900>>,
  <<\h8a00, \hc500, \h6200, \h3100>>, <<\h3000, \h1c00, \h8500, \hc200,
  \h6100>>, <<\h6000, \h3000, \h1800, \h0e00, \h8200, \hc100>>, <<\hc000,
  \h6000, \h3000, \h1800, \h0c00, \h0600, \h8100>>, <<\h8000, \hc000, \h6000,
  \h3000, \h1800, \h0c00, \h0600, \h0300>>>>
kMaskBursty9 == <<<<\hff80>>, <<\hd500, \haa80>>, <<\h9200, \hc900, \h7480>>,
  <<\hc500, \h6200, \h3900, \h8a80>>, <<\h1c00, \h8500, \hc280, \h6100,
  \h3080>>, <<\h3000, \h1800, \h0e00, \h8280, \hc100, \h6080>>, <<\h6000,
  \h3000, \h1800, \h0c00, \h0700, \h8100, \hc080>>, <<\hc000, \h6000, \h3000,
  \h1800, \h0c00, \h0600, \h0300, \h8080>>, <<\h8000, \hc000, \h6000, \h3000,
  \h1800, \h0c00, \h0600, \h0300, \h0180>>>>
kMaskBursty10 == <<<<\hffc0>>, <<\haa80, \hd540>>, <<\hc900, \h7480,
  \h9240>>, <<\h6200, \h3900, \h8a80, \hc540>>, <<\h8500, \hc280, \h6140,
  \h3080, \h1840>>, <<\h1800, \h0e00, \h8280, \hc140, \h6080, \h3040>>,
  <<\h3000, \h1800, \h0c00, \h0700, \h8140, \hc080, \h6040>>, <<\h6000,
  \h3000, \h1800, \h0c00, \h0600, \h0300, \h8080, \hc040>>, <<\hc000, \h6000,
  \h3000, \h1800, \h0c00, \h0600, \h0300, \h0180, \h8040>>, <<\h8000, \hc000,
  \h6000, \h3000, \h1800, \h0c00, \h0600, \h0300, \h0180, \h00c0>>>>
kMaskBursty11 == <<<<\hffe0>>, <<\hd540, \haaa0>>, <<\h7480, \h9240,
  \hc920>>, <<\h3900, \h8a80, \hc540, \h6220>>, <<\hc2c0, \h6100, \h30a0,
  \h1c40, \h8520>>, <<\h0e00, \h8280, \hc140, \h60a0, \h3040, \h1820>>,
  <<\h1800, \h0c00, \h0700, \h8140, \hc0a0, \h6040, \h3020>>, <<\h3000,
  \h1800, \h0c00, \h0600, \h0340, \h80a0, \hc040, \h6020>>, <<\h6000, \h3000,
  \h1800, \h0c00, \h0600, \h0300, \h0180, \h8040, \hc020>>, <<\hc000, \h6000,
  \h3000, \h1800, \h0c00, \h0600, \h0300, \h0180, \h00c0, \h8020>>, <<\h8000,
  \hc000, \h6000, \h3000, \h1800, \h0c00, \h0600, \h0300, \h0180, \h00c0,
  \h0060>>>>
kMaskBursty12 == <<<<\hfff0>>, <<\haaa0, \hd550>>, <<\h9240, \hc920,
  \h7490>>, <<\h8a80, \hc540, \h6220, \h3910>>, <<\h6100, \h30a0, \h1c50,
  \h8520, \hc290>>, <<\h8290, \hc140, \h60a0, \h3050, \h1820, \h0c10>>,
  <<\h0c00, \h0700, \h8140, \hc0a0, \h6050, \h3020, \h1810>>, <<\h1800,
  \h0c00, \h0600, \h0300, \h80a0, \hc050, \h6020, \h3010>>, <<\h3000, \h1800,
  \h0c00, \h0600, \h0300, \h0180, \h8050, \hc020, \h6010>>, <<\h6000, \h3000,
  \h1800, \h0c00, \h0600, \h0300, \h0180, \h00c0, \h8020, \hc010>>, <<\hc000,
  \h6000, \h3000, \h1800, \h0c00, \h0600, \h0300, \h0180, \h00c0, \h0060,
  \h8010>>, <<\h8000, \hc000, \h6000, \h3000, \h1800, \h0c00, \h0600, \h0300,
  \h0180, \h00c0, \h0060, \h0030>>>>

kPacketMaskBurstyTbl == <<
  kMaskBursty1, kMaskBursty2, kMaskBursty3, kMaskBursty4,
  kMaskBursty5, kMaskBursty6, kMaskBursty7, kMaskBursty8,
  kMaskBursty9, kMaskBursty10, kMaskBursty11, kMaskBursty12>>
==============================================================================
