---------------------------- MODULE MCWireFrame ----------------------------
(* A small instance of WireFrame: tasks at the edges of what each field    *)
(* holds, one kind of task at a time.                                      *)
EXTENDS WireFrame

Grey   == [red |-> 1, green |-> 128, blue |-> 255]
Circle == 32767   \* LV_RADIUS_CIRCLE
Screen == [x1 |-> 0, y1 |-> 0, x2 |-> 799, y2 |-> 479]
Corners == {Screen,
            [x1 |-> -300, y1 |-> -1, x2 |-> 210, y2 |-> 1023],
            [x1 |-> -32768, y1 |-> 32767, x2 |-> -32768, y2 |-> 32767],
            [x1 |-> 255, y1 |-> 256, x2 |-> 511, y2 |-> 500]}

Opacities == {<<255, 255>>, <<255, 127>>, <<128, 1>>, <<255, 0>>}

MCFills ==
    {[type |-> "FILL", opa |-> o[1], d_opa |-> o[2], color |-> Grey, area |-> Screen,
      radius |-> 8, grad |-> g] : o \in Opacities, g \in BOOLEAN}
    \cup
    {[type |-> "FILL", opa |-> 255, d_opa |-> 200, color |-> Grey, area |-> a,
      radius |-> r, grad |-> FALSE] : a \in Corners, r \in {-1, 0, 255, Circle}}

MCBorders ==
    {[type |-> "BORDER", opa |-> 255, d_opa |-> 255, color |-> Grey, area |-> Screen,
      width |-> w, side |-> s, radius |-> r] :
        w \in {0, 2, 3, 254}, s \in {0, 1, 6, 8, 15, 31}, r \in {0, 240, Circle}}
    \cup
    {[type |-> "BORDER", opa |-> 255, d_opa |-> 255, color |-> Grey, area |-> Screen,
      width |-> 300, side |-> s, radius |-> r] : s \in {5, 10, 15}, r \in {0, Circle}}
    \cup
    {[type |-> "BORDER", opa |-> 255, d_opa |-> 255, color |-> Grey,
      area |-> [x1 |-> 0, y1 |-> 0, x2 |-> 99, y2 |-> h], width |-> w, side |-> 15,
      radius |-> r] : h \in {39, 40}, w \in {3, 40, 41}, r \in {19, 20, 21}}

MCShadows ==
    {[type |-> "BOX_SHADOW", opa |-> 255, d_opa |-> 99, color |-> Grey, area |-> a,
      radius |-> r, width |-> w, spread |-> s, ofs_x |-> o, ofs_y |-> -o] :
        a \in Corners \ {[x1 |-> -32768, y1 |-> 32767, x2 |-> -32768, y2 |-> 32767]},
        r \in {0, Circle}, w \in {0, 300}, s \in {-10, 0, 127}, o \in {-300, 0}}

MCLines ==
    {[type |-> "LINE", opa |-> 255, d_opa |-> 255, color |-> Grey,
      p1 |-> [x |-> -32768, y |-> -1], p2 |-> [x |-> 32767, y |-> 256],
      width |-> w, dash_width |-> dw, dash_gap |-> dg,
      round_start |-> rs, round_end |-> re] :
        w \in {0, 1, 256}, dw \in {-1, 0, 7, 256}, dg \in {0, 3, 256},
        rs \in BOOLEAN, re \in BOOLEAN}

MCArcs ==
    {[type |-> "ARC", opa |-> 255, d_opa |-> 255, color |-> Grey,
      center |-> [x |-> -5, y |-> 400], radius |-> r, start_angle |-> a,
      end_angle |-> 360, width |-> w, rounded |-> e, img_src |-> i] :
        r \in {0, 1, 240, 65535}, a \in {-90, 0, 720}, w \in {1, 20, 300},
        e \in BOOLEAN, i \in BOOLEAN}

MCImageTasks ==
    {[type |-> "IMAGE", opa |-> 255, d_opa |-> o, area |-> Screen, image_area |-> a,
      blob_id |-> <<255, 0, 1, 200>>] : a \in Corners, o \in {0, 128, 255}}

\* Tasks beyond what the fields of their commands hold.
MCBeyond ==
    {[type |-> "FILL", opa |-> 255, d_opa |-> 255, color |-> Grey, area |-> a,
      radius |-> Circle, grad |-> FALSE] :
        a \in {[x1 |-> 0, y1 |-> 0, x2 |-> 599, y2 |-> 599],
               [x1 |-> 40000, y1 |-> 0, x2 |-> 40009, y2 |-> 9]}}

\* Corners too wide for a radius of one byte.
Wide == [x1 |-> 0, y1 |-> 0, x2 |-> 599, y2 |-> 599]

MCWide ==
    {[type |-> "BORDER", opa |-> 255, d_opa |-> 255, color |-> Grey, area |-> Wide,
      width |-> 2, side |-> 15, radius |-> Circle],
     [type |-> "BOX_SHADOW", opa |-> 255, d_opa |-> 255, color |-> Grey, area |-> Wide,
      radius |-> Circle, width |-> -1, spread |-> 0, ofs_x |-> 0, ofs_y |-> 0]}

MCTasks == MCFills \cup MCBorders \cup MCShadows \cup MCLines \cup MCArcs
             \cup MCImageTasks \cup MCBeyond \cup MCWide

MCImages == {[blob_id |-> <<1, 2, 3, 255>>, cf |-> "XRGB", w |-> 1, h |-> 1, stride |-> 4,
              data |-> <<10, 20, 30, 40>>],
             [blob_id |-> <<0, 0, 0, 128>>, cf |-> "ARGB", w |-> 1, h |-> 2, stride |-> 8,
              data |-> <<1, 2, 3, 4, 0, 0, 0, 0, 5, 6, 7, 8, 0, 0, 0, 0>>],
             [blob_id |-> <<0, 0, 0, 1>>, cf |-> "ARGB", w |-> 3, h |-> 1, stride |-> 12,
              data |-> <<1, 2, 3, 4, 5, 6, 7, 8, 9, 10, 11, 12>>],
             [blob_id |-> <<9, 9, 9, 9>>, cf |-> "ARGB", w |-> 2, h |-> 2, stride |-> 8,
              data |-> [k \in 1..16 |-> k]]}
=============================================================================
