------------------------------ MODULE MCTools -------------------------------
EXTENDS Tools

BottomUp == [size |-> 54 + 24, magic |-> TRUE, offset |-> 54, dib_size |-> 40,
             bpp |-> 24, compression |-> 0, width |-> 3, height |-> 2]
MCFiles == {BottomUp, [BottomUp EXCEPT !.size = 54 + 23]}

MCTool == {"link_push", "solid_fill_push", "sdk_smoke", "blit_copy_push",
           "blit_copy_key_push", "load_bmp", "present_demo", "sprite_demo",
           "bench", "copy_sweep", "sprites", "sprites_batch", "key", "clear",
           "blit_bench", "present", "static", "verify", "blend_bench", "show",
           "modes", "tile_cache_demo"}
=============================================================================
