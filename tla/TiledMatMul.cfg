\* VulkanGeneric scaled by 1/8: tile 16, tile_k 16, block 16 x 16.
SPECIFICATION FairSpec
CHECK_DEADLOCK FALSE
CONSTANTS
    tile = 2
    tile_k = 2
    block = 2
    Sizes = {1, 2, 3}
INVARIANTS
    WrittenCorrectly
    TileCovered

    
